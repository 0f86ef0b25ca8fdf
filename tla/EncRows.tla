------------------------------ MODULE EncRows ------------------------------
(***************************************************************************)
(* The row pipeline of the encoder: what the threads inside                *)
(* ih264e_process_thread (encoder/ih264e_process.c) do to the picture they *)
(* share.  A picture is Ht rows of Wd macroblocks.  Every row is one job   *)
(* of the process list (motion estimation, core coding, deblocking) and,   *)
(* once coded, one job of the entropy list; the entropy jobs write the     *)
(* bitstream, one thread at a time.  Threads wait for each other through   *)
(* byte maps (me_map, proc_map, deblk_map) they poll without a lock.       *)
(* Pictures are reconstructed and deblocked (u4_compute_recon, deblocking  *)
(* enabled).                                                               *)
(*                                                                         *)
(* This module has the picture's state and one action per step a thread    *)
(* can be interrupted between; EncSpawn and EncPool compose it with the    *)
(* two ways the encoder runs its threads.  The job lists are the FIFOs     *)
(* that JobList is shown to implement.                                     *)
(***************************************************************************)
EXTENDS Fifo, FiniteSets

CONSTANTS
  Main,         \* the thread that calls ih264e_encode; process context 0
  Workers,      \* the other threads; process contexts 1..
  NoThread,     \* nobody holds the mutex
  Ht, Wd,       \* i4_ht_mbs, i4_wd_mbs
  Inter,        \* P or B slices: motion estimation runs before core coding
  MayOverflow,  \* the bitstream may not fit the output buffer
  MaxFrames     \* the most frames of a behaviour: a bound

ASSUME RowsAssumption ==
  /\ Main \notin Workers
  /\ NoThread \notin Workers \cup {Main}
  /\ Ht \in Nat \ {0} /\ Wd \in Nat \ {0}
  /\ Inter \in BOOLEAN /\ MayOverflow \in BOOLEAN
  /\ MaxFrames \in Nat

Threads == {Main} \cup Workers
Row == 0..Ht-1
Col == 0..Wd-1
LastCol == Wd - 1

VARIABLES
  procq, entq,   \* pv_proc_jobq, pv_entropy_jobq: a job is the row it is for
  entMutex,      \* the holder of pv_entropy_mutex while it blocks in a dequeue
  entActive,     \* au4_entropy_thread_active[0]
  meMap,         \* per row, the columns set in pu1_me_map
  procMap,       \* per row, the columns set in pu1_proc_map
  deblkMap,      \* the rows whose columns are all set in pu1_deblk_map
  deblocked,     \* the rows ih264e_deblock_mb has been run on
  strm,          \* the macroblocks in the bitstream, in order
  pc,            \* where each thread is
  row, col,      \* i4_mb_y and i4_mb_x of the job it works on
  blocking,      \* is_blocking
  err,           \* i4_error_code # IH264_SUCCESS
  frames         \* frames begun

picVars == <<meMap, procMap, deblkMap, deblocked, strm>>
jobVars == <<procq, entq, entMutex, entActive>>
thrVars == <<pc, row, col, blocking, err>>
rowsVars == <<picVars, jobVars, thrVars>>

(* Places inside ih264e_process_thread.  "out" is a thread that returned.  *)
EntropyPlaces == {"ent", "tail", "fail"}
RowPlaces     == {"me", "code", "dblk", "queue", "term", "map"}
Inside == {"enter", "top", "wait", "proc"} \cup RowPlaces \cup EntropyPlaces

Goto(t, p) == pc' = [pc EXCEPT ![t] = p]

\* The macroblock of the row above that is one to the right, or the last one.
AboveRight(x) == IF x + 1 < Wd THEN x + 1 ELSE LastCol

\* In ih264e_compute_me_nmb both i4_mb_x and the loop counter advance, so the
\* macroblock waited for is further to the right than the next one.
AboveRightMe(x) == IF 2 * x + 1 < Wd THEN 2 * x + 1 ELSE LastCol

-----------------------------------------------------------------------------
(* ih264e_process_thread *)

Enter(t) ==
  /\ pc[t] = "enter"
  /\ Goto(t, "top")
  /\ err' = [err EXCEPT ![t] = FALSE]
  /\ blocking' = [blocking EXCEPT ![t] = FALSE]
  /\ UNCHANGED <<picVars, jobVars, row, col>>

\* The thread becomes the one that entropy codes; it releases the mutex.
TakeEntropy(t) ==
  /\ entq.jobs # <<>>
  /\ entq' = Take(entq)
  /\ entActive' = TRUE
  /\ entMutex' = NoThread
  /\ row' = [row EXCEPT ![t] = Head(entq.jobs)]
  /\ col' = [col EXCEPT ![t] = 0]
  /\ Goto(t, "ent")
  /\ UNCHANGED <<picVars, procq, blocking, err>>

\* Faulty variant: does not look whether a thread entropy codes already.
TopEntropyRacy(t) ==
  /\ pc[t] = "top"
  /\ entMutex = NoThread
  /\ TakeEntropy(t)

\* Under the entropy mutex: take an entropy job unless some thread has one, ...
TopEntropy(t) ==
  /\ pc[t] = "top"
  /\ entMutex = NoThread
  /\ ~entActive
  /\ TakeEntropy(t)

\* ... or there is none.  A blocking dequeue keeps the entropy mutex.
TopNoEntropy(t) ==
  /\ pc[t] = "top"
  /\ entMutex = NoThread
  /\ \/ /\ entActive \/ (entq.jobs = <<>> /\ ~blocking[t])
        /\ Goto(t, "proc")
        /\ UNCHANGED entMutex
     \/ /\ ~entActive /\ entq.jobs = <<>> /\ blocking[t]
        /\ IF entq.closed THEN Goto(t, "out") /\ UNCHANGED entMutex
                          ELSE Goto(t, "wait") /\ entMutex' = t
  /\ UNCHANGED <<picVars, procq, entq, entActive, row, col, blocking, err>>

\* One more pass of the blocking dequeue.
WaitEntropy(t) ==
  /\ pc[t] = "wait"
  /\ \/ TakeEntropy(t)
     \/ /\ entq.jobs = <<>> /\ entq.closed
        /\ entMutex' = NoThread
        /\ Goto(t, "out")
        /\ UNCHANGED <<picVars, procq, entq, entActive, row, col, blocking, err>>

\* The blocking dequeue from the process list.
TakeRow(t) ==
  /\ pc[t] = "proc"
  /\ procq.jobs # <<>>
  /\ procq' = Take(procq)
  /\ row' = [row EXCEPT ![t] = Head(procq.jobs)]
  /\ col' = [col EXCEPT ![t] = 0]
  /\ Goto(t, IF Inter THEN "me" ELSE "code")
  /\ UNCHANGED <<picVars, entq, entMutex, entActive, blocking, err>>

\* No row is left: a worker leaves, the main thread stays for the entropy jobs.
NoRow(t) ==
  /\ pc[t] = "proc"
  /\ procq.jobs = <<>> /\ procq.closed
  /\ IF t = Main
     THEN blocking' = [blocking EXCEPT ![t] = TRUE] /\ Goto(t, "top")
     ELSE UNCHANGED blocking /\ Goto(t, "out")
  /\ UNCHANGED <<picVars, jobVars, row, col, err>>

-----------------------------------------------------------------------------
(* ih264e_process: the row job. *)

\* ih264e_compute_me_nmb, run for the whole row before its first macroblock is
\* core coded.
MotionEstimate(t) ==
  LET y == row[t]  x == col[t] IN
  /\ pc[t] = "me"
  /\ y > 0 => AboveRightMe(x) \in meMap[y-1]
  /\ meMap' = [meMap EXCEPT ![y] = @ \cup {x}]
  /\ IF x = LastCol THEN col' = [col EXCEPT ![t] = 0] /\ Goto(t, "code")
                    ELSE col' = [col EXCEPT ![t] = x + 1] /\ UNCHANGED pc
  /\ UNCHANGED <<procMap, deblkMap, deblocked, strm, jobVars, row,
                 blocking, err>>

\* Faulty variant: the last macroblock is marked before its row is queued.
CodeMbMarksLast(t) ==
  LET y == row[t]  x == col[t] IN
  /\ pc[t] = "code"
  /\ y > 0 => AboveRight(x) \in procMap[y-1]
  /\ procMap' = [procMap EXCEPT ![y] = @ \cup {x}]
  /\ IF x = LastCol THEN Goto(t, "dblk") /\ UNCHANGED col
                    ELSE col' = [col EXCEPT ![t] = x + 1] /\ UNCHANGED pc
  /\ UNCHANGED <<meMap, deblkMap, deblocked, strm, jobVars, row,
                 blocking, err>>

\* Core coding of one macroblock: wait for the row above, code, and, except for
\* the last one of the row, mark it in the proc map.
CodeMb(t) ==
  LET y == row[t]  x == col[t] IN
  /\ pc[t] = "code"
  /\ y > 0 => AboveRight(x) \in procMap[y-1]
  /\ IF x = LastCol
     THEN Goto(t, "dblk") /\ UNCHANGED <<procMap, col>>
     ELSE /\ procMap' = [procMap EXCEPT ![y] = @ \cup {x}]
          /\ col' = [col EXCEPT ![t] = x + 1]
          /\ UNCHANGED pc
  /\ UNCHANGED <<meMap, deblkMap, deblocked, strm, jobVars, row,
                 blocking, err>>

\* Faulty variant: waits for the wrong row, so that no row is ever deblocked.
DeblockRowStrict(t) ==
  LET y == row[t]
      skip == y > 0 /\ y-1 \notin deblkMap
      last == IF y = Ht-1 THEN {y} ELSE {} IN
  /\ pc[t] = "dblk"
  /\ Goto(t, "queue")
  /\ IF skip
     THEN UNCHANGED <<deblkMap, deblocked>>
     ELSE LET above == IF y > 0 THEN {y-1} ELSE {} IN
          /\ deblkMap' = deblkMap \cup above
          /\ deblocked' = deblocked \cup above \cup last
  /\ UNCHANGED <<meMap, procMap, strm, jobVars, row, col, blocking, err>>

\* Faulty variant: deblocks the row just coded.
DeblockRowAtOnce(t) ==
  LET y == row[t] IN
  /\ pc[t] = "dblk"
  /\ Goto(t, "queue")
  /\ deblkMap' = deblkMap \cup {y}
  /\ deblocked' = deblocked \cup {y}
  /\ UNCHANGED <<meMap, procMap, strm, jobVars, row, col, blocking, err>>

\* ih264e_dblk_pad_hpel_processing_n_mbs at the end of row y: row y-1 is
\* deblocked, and the last row with it.  When row y-2 is not deblocked yet the
\* function returns without doing either.  The flags it sets for the last row
\* are those of row y-1 again.
DeblockRow(t) ==
  LET y == row[t]
      skip == y > 1 /\ y-2 \notin deblkMap
      last == IF y = Ht-1 THEN {y} ELSE {} IN
  /\ pc[t] = "dblk"
  /\ Goto(t, "queue")
  /\ IF skip
     THEN UNCHANGED <<deblkMap, deblocked>>
     ELSE LET above == IF y > 0 THEN {y-1} ELSE {} IN
          /\ deblkMap' = deblkMap \cup above
          /\ deblocked' = deblocked \cup above \cup last
  /\ UNCHANGED <<meMap, procMap, strm, jobVars, row, col, blocking, err>>

\* ih264e_update_proc_ctxt at the last macroblock: queue the entropy job of the
\* row, terminate the list behind the last one, and only then set the proc map.
QueueEntropy(t) ==
  LET y == row[t] IN
  /\ pc[t] = "queue"
  /\ entq' = Put(entq, y)
  /\ Goto(t, IF y = Ht-1 THEN "term" ELSE "map")
  /\ UNCHANGED <<meMap, procMap, deblkMap, deblocked, strm, procq, entMutex,
                 entActive, row, col, blocking, err>>

TerminateEntropy(t) ==
  /\ pc[t] = "term"
  /\ entq' = Close(entq)
  /\ Goto(t, "map")
  /\ UNCHANGED <<picVars, procq, entMutex, entActive, row, col, blocking, err>>

MarkLastMb(t) ==
  /\ pc[t] = "map"
  /\ procMap' = [procMap EXCEPT ![row[t]] = @ \cup {LastCol}]
  /\ Goto(t, "top")
  /\ UNCHANGED <<meMap, deblkMap, deblocked, strm, jobVars, row, col,
                 blocking, err>>

-----------------------------------------------------------------------------
(* ih264e_entropy: the entropy job of a row, and its end in                *)
(* ih264e_process_thread.                                                  *)

\* Wait until the macroblock is core coded, then write it.
WriteMb(t) ==
  LET y == row[t]  x == col[t] IN
  /\ pc[t] = "ent"
  /\ x \in procMap[y]
  /\ strm' = Append(strm, <<y, x>>)
  /\ IF x = LastCol THEN Goto(t, "tail") /\ UNCHANGED col
                    ELSE col' = [col EXCEPT ![t] = x + 1] /\ UNCHANGED pc
  /\ UNCHANGED <<meMap, procMap, deblkMap, deblocked, jobVars, row,
                 blocking, err>>

\* A write that does not fit ends the job early (RETURN_ENTROPY_IF_ERROR): in
\* the headers of the picture, in a macroblock, or behind the last one of the
\* row.  What a later job still manages to write is not bounded by this one.
Overflow(t) ==
  LET y == row[t]  x == col[t] IN
  /\ MayOverflow
  /\ \/ pc[t] = "ent" /\ (x \in procMap[y] \/ (y = 0 /\ x = 0))
     \/ pc[t] = "tail"
  /\ Goto(t, "fail")
  /\ UNCHANGED <<picVars, jobVars, row, col, blocking, err>>

\* Faulty variant: a failed job returns before it clears the flag.
EndEntropyKeepsFlag(t) ==
  /\ pc[t] \in {"tail", "fail"}
  /\ IF pc[t] = "fail"
     THEN err' = [err EXCEPT ![t] = TRUE] /\ Goto(t, "out") /\ UNCHANGED entActive
     ELSE UNCHANGED err /\ Goto(t, "top") /\ entActive' = FALSE
  /\ UNCHANGED <<picVars, procq, entq, entMutex, row, col, blocking>>

\* Faulty variant: the error is dropped.
EndEntropySilent(t) ==
  /\ pc[t] \in {"tail", "fail"}
  /\ entActive' = FALSE
  /\ Goto(t, IF pc[t] = "fail" THEN "out" ELSE "top")
  /\ UNCHANGED <<picVars, procq, entq, entMutex, row, col, blocking, err>>

\* The flag is cleared without the mutex; a failed job ends the call.
EndEntropy(t) ==
  /\ pc[t] \in {"tail", "fail"}
  /\ entActive' = FALSE
  /\ IF pc[t] = "fail" THEN err' = [err EXCEPT ![t] = TRUE] /\ Goto(t, "out")
                       ELSE UNCHANGED err /\ Goto(t, "top")
  /\ UNCHANGED <<picVars, procq, entq, entMutex, row, col, blocking>>

-----------------------------------------------------------------------------
ThreadStep(t) ==
  \/ Enter(t)
  \/ TopEntropy(t) \/ TopNoEntropy(t) \/ WaitEntropy(t)
  \/ TakeRow(t) \/ NoRow(t)
  \/ MotionEstimate(t) \/ CodeMb(t) \/ DeblockRow(t)
  \/ QueueEntropy(t) \/ TerminateEntropy(t) \/ MarkLastMb(t)
  \/ WriteMb(t) \/ Overflow(t) \/ EndEntropy(t)

\* ih264e_pic_init: the maps are cleared, the errors too, and one job per row
\* is queued on the process list, which is then terminated.
FillRows ==
  /\ procq' = [jobs |-> [i \in 1..Ht |-> i - 1], closed |-> TRUE]
  /\ meMap' = [y \in Row |-> {}]
  /\ procMap' = [y \in Row |-> {}]
  /\ deblkMap' = {} /\ deblocked' = {}
  /\ strm' = <<>>
  /\ err' = [t \in Threads |-> FALSE]

\* ih264e_encode: both lists are reset when the threads are done.
ResetLists ==
  /\ procq' = EmptyFifo
  /\ entq' = EmptyFifo

RowsInit ==
  /\ procq = EmptyFifo /\ entq = EmptyFifo
  /\ entMutex = NoThread /\ entActive = FALSE
  /\ meMap = [y \in Row |-> {}]
  /\ procMap = [y \in Row |-> {}]
  /\ deblkMap = {} /\ deblocked = {}
  /\ strm = <<>>
  /\ row = [t \in Threads |-> 0] /\ col = [t \in Threads |-> 0]
  /\ blocking = [t \in Threads |-> FALSE]
  /\ err = [t \in Threads |-> FALSE]

RowsTypeOK ==
  /\ procq \in Fifo(Row) /\ entq \in Fifo(Row)
  /\ entMutex \in Threads \cup {NoThread}
  /\ entActive \in BOOLEAN
  /\ meMap \in [Row -> SUBSET Col] /\ procMap \in [Row -> SUBSET Col]
  /\ deblkMap \subseteq Row /\ deblocked \subseteq Row
  /\ strm \in Seq(Row \X Col)
  /\ row \in [Threads -> Row] /\ col \in [Threads -> Col]
  /\ blocking \in [Threads -> BOOLEAN] /\ err \in [Threads -> BOOLEAN]

-----------------------------------------------------------------------------
(* What has to hold of a picture in both ways of running the threads.  In  *)
(* both, Main is at "post" when ih264e_encode has synchronised with them.  *)

\* At most one thread writes the bitstream, and it is announced in
\* au4_entropy_thread_active, although the flag is cleared without the mutex.
EntropyExclusive ==
  \A t \in Threads : pc[t] \in EntropyPlaces =>
    /\ entActive
    /\ \A u \in Threads \ {t} : pc[u] \notin EntropyPlaces

\* The macroblock at position i of the bitstream.
Raster == [i \in 1..Ht*Wd |-> <<(i-1) \div Wd, (i-1) % Wd>>]

\* When the threads are synchronised the frame is complete and deblocked: no row
\* was skipped by the early return of the deblocking function.
FrameDone ==
  pc[Main] = "post" =>
    /\ ~MayOverflow => strm = Raster
    /\ deblocked = Row \/ \E t \in Threads : err[t]

\* "Report an error back to application indicating overflow"
\* (ih264e_bitstream.c): a frame reported as a success is complete.
SuccessIsComplete ==
  (pc[Main] = "post" /\ \A t \in Threads : ~err[t]) => strm = Raster

\* A row is deblocked only after the row below it is coded up to its last
\* macroblock: intra prediction has to see samples that are not deblocked.
DeblockLags ==
  \A y \in deblocked : y < Ht-1 =>
    \/ Col \subseteq procMap[y+1]
    \/ \E t \in Threads : row[t] = y+1 /\ pc[t] \in {"queue", "term", "map"}

\* Where ih264e_encode is with the picture.
Phase == CASE pc[Main] \in {"app", "join"} -> "idle"
           [] pc[Main] = "post"           -> "done"
           [] OTHER                       -> "coding"

\* The picture as its caller sees it: FrameCoder.
Picture == INSTANCE FrameCoder WITH
  NumMbs <- Ht * Wd, MbAt <- Raster, phase <- Phase, out <- strm

\* The threads together are one sequential coder: the bitstream only ever grows
\* by the next macroblock in raster order, only while a picture is being coded,
\* and the picture is handed back only when it is complete.
ImplementsFrameCoder == Picture!FCSpec
=============================================================================
