------------------------------ MODULE EncPool ------------------------------
(***************************************************************************)
(* The encoder's thread pool (ih264e_thread_pool_* and ih264e_thread_worker *)
(* of encoder/ih264e_encode.c), composed with the row pipeline: the mode   *)
(* u4_keep_threads_active, in which the workers live across frames.  Main  *)
(* is the application thread inside ih264e_encode.  The pool's mutex is    *)
(* held for one step at a time here: every section under it either ends or *)
(* waits on the one condition variable, which releases it.                 *)
(***************************************************************************)
EXTENDS EncRows

CONSTANT SpuriousWakeups

ASSUME PoolAssumption ==
  /\ IsFiniteSet(Workers)
  /\ SpuriousWakeups \in BOOLEAN

VARIABLES
  hasFrame,   \* i4_has_frame
  eos,        \* i4_end_of_stream
  working,    \* i4_working_threads
  created,    \* the workers with ai4_process_thread_created set
  initDone,   \* i4_init_done
  fresh       \* i4_encode_api_call_cnt = -1: the next encode call is the first

poolVars == <<hasFrame, eos, working, created, initDone, fresh, frames>>
vars == <<rowsVars, poolVars>>

\* Where a worker is outside ih264e_process_thread: not running, about to take
\* the pool mutex, in cond_wait, returned.
WorkerIdle == {"none", "check", "sleep", "exit"}
\* Where Main is outside it: in the application, between ih264e_pic_init and
\* ih264e_thread_pool_activate, after ih264e_thread_pool_sync, joining.
MainOutside == {"app", "activate", "post", "join"}

InProcess(t) == pc[t] \in Inside \cup {"out"}
Busy == {w \in Workers : InProcess(w)}
Sleepers == {t \in Threads : pc[t] = "sleep"}
Woken(t) == IF t = Main THEN "out" ELSE "check"

\* pc after t has gone to p and every thread of W was woken.
WakeAndGoto(W, t, p) ==
  pc' = [u \in Threads |-> IF u = t THEN p
                           ELSE IF u \in W THEN Woken(u) ELSE pc[u]]

Init ==
  /\ RowsInit
  /\ pc = [t \in Threads |-> IF t = Main THEN "app" ELSE "none"]
  /\ hasFrame = FALSE /\ eos = FALSE /\ working = 0
  /\ created = {} /\ initDone = FALSE /\ fresh = TRUE /\ frames = 0

-----------------------------------------------------------------------------
(* Main *)

\* ih264e_thread_pool_init in the first ih264e_encode call; ithread_create may
\* fail for any worker.  A call that only generates the header does not count,
\* so that the next one is the first again.
PoolInit ==
  /\ pc[Main] = "app" /\ fresh
  /\ fresh' \in BOOLEAN
  /\ \/ /\ initDone
        /\ UNCHANGED <<pc, hasFrame, eos, working, created, initDone>>
     \/ /\ ~initDone
        /\ created' \in SUBSET Workers
        /\ pc' = [t \in Threads |-> IF t \in created' THEN "check" ELSE pc[t]]
        /\ initDone' = TRUE
        /\ eos' = FALSE /\ working' = 0 /\ hasFrame' = FALSE
  /\ UNCHANGED <<picVars, jobVars, row, col, blocking, err, frames>>

\* ih264e_pic_init
BeginFrame ==
  /\ pc[Main] = "app" /\ ~fresh /\ frames < MaxFrames
  /\ frames' = frames + 1
  /\ FillRows
  /\ Goto(Main, "activate")
  /\ UNCHANGED <<entq, entMutex, entActive, row, col, blocking,
                 hasFrame, eos, working, created, initDone, fresh>>

\* Faulty variant: cond_signal instead of cond_broadcast.
ActivateSignal ==
  /\ pc[Main] = "activate"
  /\ IF created = {}
     THEN UNCHANGED <<hasFrame, working>> /\ Goto(Main, "enter")
     ELSE /\ working' = 0
          /\ hasFrame' = TRUE
          /\ IF Sleepers = {} THEN Goto(Main, "enter")
             ELSE \E t \in Sleepers : WakeAndGoto({t}, Main, "enter")
  /\ UNCHANGED <<picVars, jobVars, row, col, blocking, err,
                 eos, created, initDone, fresh, frames>>

\* ih264e_thread_pool_activate, then the call of ih264e_process_thread
Activate ==
  /\ pc[Main] = "activate"
  /\ IF created = {}
     THEN UNCHANGED <<hasFrame, working>> /\ Goto(Main, "enter")
     ELSE /\ working' = 0
          /\ hasFrame' = TRUE
          /\ WakeAndGoto(Sleepers, Main, "enter")
  /\ UNCHANGED <<picVars, jobVars, row, col, blocking, err,
                 eos, created, initDone, fresh, frames>>

\* ih264e_thread_pool_sync
Sync ==
  /\ pc[Main] = "out"
  /\ Goto(Main, IF created # {} /\ hasFrame THEN "sleep" ELSE "post")
  /\ UNCHANGED <<picVars, jobVars, row, col, blocking, err, poolVars>>

\* The lists are reset; the frame's error is the union of the threads' errors.
EndFrame ==
  /\ pc[Main] = "post"
  /\ ResetLists
  /\ Goto(Main, "app")
  /\ UNCHANGED <<picVars, entMutex, entActive, row, col, blocking, err, poolVars>>

\* Faulty variant: wakes nobody.
ShutdownQuiet ==
  /\ pc[Main] = "app"
  /\ eos' = TRUE
  /\ Goto(Main, "join")
  /\ UNCHANGED <<picVars, jobVars, row, col, blocking, err,
                 hasFrame, working, created, initDone, fresh, frames>>

\* ih264e_thread_pool_shutdown: behind the last frame, when the encoder is
\* reset, and when it is deleted, whether a pool runs or not.
Shutdown ==
  /\ pc[Main] = "app"
  /\ eos' = TRUE
  /\ WakeAndGoto(Sleepers, Main, "join")
  /\ UNCHANGED <<picVars, jobVars, row, col, blocking, err,
                 hasFrame, working, created, initDone, fresh, frames>>

\* The rest of it; a reset goes on with ih264e_init.
Join ==
  /\ pc[Main] = "join"
  /\ \A w \in created : pc[w] = "exit"
  /\ created' = {}
  /\ initDone' = FALSE /\ eos' = FALSE /\ working' = 0 /\ hasFrame' = FALSE
  /\ pc' = [t \in Threads |-> IF t = Main THEN "app" ELSE "none"]
  /\ \/ UNCHANGED <<fresh, procq, entq, entActive>>
     \/ fresh' = TRUE /\ ResetLists /\ entActive' = FALSE
  /\ UNCHANGED <<picVars, entMutex, row, col, blocking, err, frames>>

-----------------------------------------------------------------------------
(* ih264e_thread_worker *)

WorkerCheck(w) ==
  /\ pc[w] = "check"
  /\ \/ /\ ~hasFrame /\ ~eos
        /\ Goto(w, "sleep") /\ UNCHANGED working
     \/ /\ eos
        /\ Goto(w, "exit") /\ UNCHANGED working
     \/ /\ hasFrame /\ ~eos
        /\ working' = working + 1
        /\ Goto(w, "enter")
  /\ UNCHANGED <<picVars, jobVars, row, col, blocking, err,
                 hasFrame, eos, created, initDone, fresh, frames>>

\* Faulty variant: does not look whether other workers are still inside.
WorkerDoneEarly(w) ==
  /\ pc[w] = "out"
  /\ working' = working - 1
  /\ IF JobCount(procq) = 0 /\ JobCount(entq) = 0
     THEN /\ hasFrame' = FALSE
          /\ IF Sleepers = {} THEN Goto(w, "check")
                              ELSE \E t \in Sleepers : WakeAndGoto({t}, w, "check")
     ELSE Goto(w, "check") /\ UNCHANGED hasFrame
  /\ UNCHANGED <<picVars, jobVars, row, col, blocking, err,
                 eos, created, initDone, fresh, frames>>

\* The last worker out of a frame with both lists empty ends the frame and
\* signals the condition variable: some thread that waits on it wakes up.
WorkerDone(w) ==
  /\ pc[w] = "out"
  /\ working' = working - 1
  /\ IF working' = 0 /\ JobCount(procq) = 0 /\ JobCount(entq) = 0
     THEN /\ hasFrame' = FALSE
          /\ IF Sleepers = {} THEN Goto(w, "check")
                              ELSE \E t \in Sleepers : WakeAndGoto({t}, w, "check")
     ELSE Goto(w, "check") /\ UNCHANGED hasFrame
  /\ UNCHANGED <<picVars, jobVars, row, col, blocking, err,
                 eos, created, initDone, fresh, frames>>

\* pthread_cond_wait may return without a signal.
SpuriousWakeup(t) ==
  /\ SpuriousWakeups
  /\ pc[t] = "sleep"
  /\ Goto(t, Woken(t))
  /\ UNCHANGED <<picVars, jobVars, row, col, blocking, err, poolVars>>

-----------------------------------------------------------------------------
Rows(t) == ThreadStep(t) /\ UNCHANGED poolVars
MainStep == Rows(Main) \/ Activate \/ Sync \/ EndFrame \/ Join
WorkerStep(w) == Rows(w) \/ WorkerCheck(w) \/ WorkerDone(w)

Next ==
  \/ PoolInit \/ BeginFrame \/ Shutdown
  \/ MainStep
  \/ \E w \in Workers : WorkerStep(w)
  \/ \E t \in Threads : SpuriousWakeup(t)

\* Every thread that can take a step is scheduled again; the application need
\* not call the encoder again.
Fairness == WF_vars(MainStep) /\ \A w \in Workers : WF_vars(WorkerStep(w))

Spec == Init /\ [][Next]_vars
FairSpec == Spec /\ Fairness

-----------------------------------------------------------------------------
TypeOK ==
  /\ RowsTypeOK
  /\ pc \in [Threads -> Inside \cup WorkerIdle \cup MainOutside \cup {"out"}]
  /\ pc[Main] \notin {"none", "check", "exit"}
  /\ \A w \in Workers : pc[w] \notin MainOutside
  /\ hasFrame \in BOOLEAN /\ eos \in BOOLEAN
  /\ initDone \in BOOLEAN /\ fresh \in BOOLEAN
  /\ working \in Nat
  /\ created \subseteq Workers
  /\ frames \in 0..MaxFrames

\* While Main prepares a picture, resets the lists or is in the application, no
\* worker is inside ih264e_process_thread: none sees the maps, lists and errors
\* of two frames.
Quiescent == pc[Main] \in MainOutside => Busy = {}

\* i4_working_threads is the number of workers inside ih264e_process_thread,
\* although Activate sets it to 0 whatever it was.
WorkingCount == working = Cardinality(Busy)

\* Nobody sleeps through what it waits for: with one condition variable for
\* workers and Main, the single cond_signal of the last worker cannot be
\* consumed by another worker, and Main never sleeps on a finished frame.
NoLostWakeup ==
  /\ pc[Main] = "sleep" => hasFrame
  /\ hasFrame \/ eos => \A w \in Workers : pc[w] # "sleep"

\* Every frame that is started is handed back to the application, and every
\* shutdown ends.
CallReturns == pc[Main] # "app" ~> pc[Main] = "app"
=============================================================================
