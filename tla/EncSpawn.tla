------------------------------ MODULE EncSpawn ------------------------------
(***************************************************************************)
(* The row pipeline run by threads that ih264e_encode creates for every    *)
(* frame and joins at its end: the mode without u4_keep_threads_active.    *)
(* A failing ithread_create or ithread_join aborts the program and is not  *)
(* modelled.                                                               *)
(***************************************************************************)
EXTENDS EncRows

spawnVars == <<rowsVars, frames>>

SpawnInit ==
  /\ RowsInit
  /\ pc = [t \in Threads |-> IF t = Main THEN "app" ELSE "none"]
  /\ frames = 0

\* ih264e_pic_init
BeginSpawnFrame ==
  /\ pc[Main] = "app" /\ frames < MaxFrames
  /\ frames' = frames + 1
  /\ FillRows
  /\ Goto(Main, "create")
  /\ UNCHANGED <<entq, entMutex, entActive, row, col, blocking>>

\* Workers already run while the next one is created.
CreateThread(w) ==
  /\ pc[Main] = "create" /\ pc[w] = "none"
  /\ Goto(w, "enter")
  /\ UNCHANGED <<picVars, jobVars, row, col, blocking, err, frames>>

Launch ==
  /\ pc[Main] = "create" /\ \A w \in Workers : pc[w] # "none"
  /\ Goto(Main, "enter")
  /\ UNCHANGED <<picVars, jobVars, row, col, blocking, err, frames>>

\* ih264e_join_threads
JoinThreads ==
  /\ \A t \in Threads : pc[t] = "out"
  /\ pc' = [t \in Threads |-> IF t = Main THEN "post" ELSE "none"]
  /\ UNCHANGED <<picVars, jobVars, row, col, blocking, err, frames>>

EndSpawnFrame ==
  /\ pc[Main] = "post"
  /\ ResetLists
  /\ Goto(Main, "app")
  /\ UNCHANGED <<picVars, entMutex, entActive, row, col, blocking, err, frames>>

SpawnRows(t) == ThreadStep(t) /\ UNCHANGED frames

SpawnMainStep ==
  \/ SpawnRows(Main) \/ Launch \/ JoinThreads \/ EndSpawnFrame
  \/ \E w \in Workers : CreateThread(w)

SpawnNext == BeginSpawnFrame \/ SpawnMainStep \/ \E w \in Workers : SpawnRows(w)

\* Every thread that can take a step is scheduled again; the application need
\* not call the encoder again.
SpawnFairness == WF_spawnVars(SpawnMainStep) /\ \A w \in Workers : WF_spawnVars(SpawnRows(w))

SpawnSpec == SpawnInit /\ [][SpawnNext]_spawnVars
FairSpawnSpec == SpawnSpec /\ SpawnFairness

-----------------------------------------------------------------------------
SpawnTypeOK ==
  /\ RowsTypeOK
  /\ pc \in [Threads -> Inside \cup {"out", "none", "app", "create", "post"}]
  /\ frames \in 0..MaxFrames

\* Every frame that is started is handed back, whatever the threads do with its
\* rows and also when the bitstream overflows: no thread waits for a macroblock
\* or a job that nobody works on, and all of them leave.
FrameReturns == pc[Main] = "create" ~> pc[Main] = "app"
=============================================================================
