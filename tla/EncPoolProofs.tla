--------------------------- MODULE EncPoolProofs ---------------------------
(***************************************************************************)
(* Proofs about EncPool for every number of workers, every picture size    *)
(* and any number of frames.  First a picture in the row pipeline: what a   *)
(* step of ih264e_process_thread does, and what a picture is from the first *)
(* row taken to the last macroblock written, however the threads are run.   *)
(* Then the pool: types, its synchronisation, the exclusive use of the      *)
(* bitstream, and the frames, which are complete and deblocked late enough  *)
(* and together those of one sequential coder.  At the end, the frames of   *)
(* EncSpawn, whose threads live for one frame, also when the bitstream does *)
(* not fit its buffer.                                                      *)
(***************************************************************************)
EXTENDS EncPool, EncSpawn, SequenceTheorems, FiniteSetTheorems, TLAPS

-----------------------------------------------------------------------------
(* Types. *)

\* The first and the last row and column, and the next column.
LEMMA RowFacts ==
  /\ 0 \in Row /\ 0 \in Col /\ LastCol \in Col /\ Ht-1 \in Row
  /\ \A x \in Col : x # LastCol => x + 1 \in Col
BY RowsAssumption DEF Row, Col, LastCol

\* What the operations of a job list return.
LEMMA FifoTypes ==
  ASSUME NEW J, NEW q \in Fifo(J)
  PROVE  /\ q.jobs \in Seq(J) /\ q.closed \in BOOLEAN
         /\ \A j \in J : Put(q, j) \in Fifo(J)
         /\ q.jobs # <<>> => Head(q.jobs) \in J /\ Take(q) \in Fifo(J)
         /\ Close(q) \in Fifo(J)
         /\ EmptyFifo \in Fifo(J)
<1>1. q.jobs \in Seq(J) /\ q.closed \in BOOLEAN
  BY DEF Fifo
<1>2. \A j \in J : Append(q.jobs, j) \in Seq(J)
  BY <1>1
<1>3. q.jobs # <<>> => Head(q.jobs) \in J /\ Tail(q.jobs) \in Seq(J)
  BY <1>1, HeadTailProperties
<1>4. <<>> \in Seq(J)
  OBVIOUS
<1> QED
  BY <1>1, <1>2, <1>3, <1>4 DEF Fifo, Put, Take, Close, EmptyFifo

\* A step inside ih264e_process_thread keeps the types.
LEMMA RowsTypeStep ==
  ASSUME RowsTypeOK, NEW t \in Threads, ThreadStep(t)
  PROVE  RowsTypeOK'
<1> USE RowsAssumption DEF RowsTypeOK, picVars, jobVars
<1>1. row[t] \in Row /\ col[t] \in Col
  OBVIOUS
<1>2. CASE Enter(t)
  BY <1>2 DEF Enter
<1>3. ASSUME TakeEntropy(t) PROVE RowsTypeOK'
  BY <1>3, FifoTypes, RowFacts DEF TakeEntropy
<1>4. CASE TopEntropy(t) \/ TopNoEntropy(t) \/ WaitEntropy(t)
  BY <1>3, <1>4 DEF TopEntropy, TopNoEntropy, WaitEntropy
<1>5. CASE TakeRow(t)
  BY <1>5, FifoTypes, RowFacts DEF TakeRow
<1>6. CASE NoRow(t)
  BY <1>6 DEF NoRow
<1>7. CASE MotionEstimate(t)
  BY <1>1, <1>7, RowFacts DEF MotionEstimate
<1>8. CASE CodeMb(t)
  <2>1. CASE col[t] = LastCol
    BY <1>8, <2>1 DEF CodeMb
  <2>2. CASE col[t] # LastCol
    <3>1. col[t] + 1 \in Col
      BY <1>1, <2>2, RowFacts
    <3>2. procMap' \in [Row -> SUBSET Col]
      BY <1>1, <1>8, <2>2 DEF CodeMb
    <3>3. col' \in [Threads -> Col]
      BY <1>8, <2>2, <3>1 DEF CodeMb
    <3> QED
      BY <1>8, <2>2, <3>2, <3>3 DEF CodeMb
  <2> QED
    BY <2>1, <2>2
<1>9. CASE DeblockRow(t)
  <2>1. row[t] > 0 => row[t] - 1 \in Row
    BY <1>1 DEF Row
  <2> QED
    BY <1>1, <1>9, <2>1 DEF DeblockRow
<1>10. CASE QueueEntropy(t)
  <2>1. entq' \in Fifo(Row)
    BY <1>1, <1>10, FifoTypes DEF QueueEntropy
  <2> QED
    BY <1>10, <2>1 DEF QueueEntropy
<1>11. CASE TerminateEntropy(t)
  BY <1>11, FifoTypes DEF TerminateEntropy
<1>12. CASE MarkLastMb(t)
  BY <1>1, <1>12, RowFacts DEF MarkLastMb
<1>13. CASE WriteMb(t)
  <2>1. strm' \in Seq(Row \X Col)
    <3>1. <<row[t], col[t]>> \in Row \X Col
      BY <1>1
    <3> QED
      BY <1>13, <3>1 DEF WriteMb
  <2>2. col' \in [Threads -> Col]
    BY <1>1, <1>13, RowFacts DEF WriteMb
  <2> QED
    BY <1>13, <2>1, <2>2 DEF WriteMb
<1>14. CASE Overflow(t)
  BY <1>14 DEF Overflow
<1>15. CASE EndEntropy(t)
  BY <1>15 DEF EndEntropy
<1> QED
  BY <1>2, <1>4, <1>5, <1>6, <1>7, <1>8, <1>9, <1>10, <1>11, <1>12, <1>13,
     <1>14, <1>15 DEF ThreadStep

\* A step inside ih264e_process_thread moves its thread within it or out of it.
LEMMA ThreadMoves ==
  ASSUME NEW P, pc \in [Threads -> P], NEW t \in Threads, ThreadStep(t)
  PROVE  /\ pc[t] \in Inside
         /\ \E p \in Inside \cup {"out"} : pc' = [pc EXCEPT ![t] = p]
<1> USE DEF Goto, Inside, RowPlaces, EntropyPlaces
<1>1. pc = [pc EXCEPT ![t] = pc[t]]
  OBVIOUS
<1>2. CASE Enter(t) \/ TopEntropy(t) \/ TopNoEntropy(t) \/ WaitEntropy(t)
  BY <1>1, <1>2 DEF Enter, TopEntropy, TopNoEntropy, WaitEntropy, TakeEntropy
<1>3. CASE TakeRow(t) \/ NoRow(t)
  BY <1>1, <1>3 DEF TakeRow, NoRow
<1>4. CASE MotionEstimate(t) \/ CodeMb(t) \/ DeblockRow(t)
  BY <1>1, <1>4 DEF MotionEstimate, CodeMb, DeblockRow
<1>5. CASE QueueEntropy(t) \/ TerminateEntropy(t) \/ MarkLastMb(t)
  BY <1>1, <1>5 DEF QueueEntropy, TerminateEntropy, MarkLastMb
<1>6. CASE WriteMb(t) \/ Overflow(t) \/ EndEntropy(t)
  BY <1>1, <1>6 DEF WriteMb, Overflow, EndEntropy
<1> QED
  BY <1>2, <1>3, <1>4, <1>5, <1>6 DEF ThreadStep

\* Where a thread is after it has gone to p.
LEMMA GotoMoves ==
  ASSUME NEW P, pc \in [Threads -> P], NEW t \in Threads, NEW p, Goto(t, p)
  PROVE  /\ pc'[t] = p
         /\ \A u \in Threads : u # t => pc'[u] = pc[u]
         /\ p \in P => pc' \in [Threads -> P]
BY DEF Goto

-----------------------------------------------------------------------------
(* The entropy mutex and its flag. *)

\* The entropy mutex is held across steps only by the thread that blocks in the
\* dequeue of an entropy job, and only while no thread entropy codes.  This is
\* what makes it safe to clear the flag without the mutex.
EntInv ==
  /\ \A t \in Threads : pc[t] = "wait" <=> entMutex = t
  /\ entMutex # NoThread => ~entActive
  /\ EntropyExclusive

\* A step that moves no thread to or from a place where it entropy codes or
\* waits for an entropy job.
LEMMA SamePlacesKeepEntInv ==
  ASSUME EntInv,
         \A t \in Threads : /\ pc'[t] = "wait" <=> pc[t] = "wait"
                            /\ pc'[t] \in EntropyPlaces <=> pc[t] \in EntropyPlaces,
         entMutex' = entMutex,
         \/ entActive' = entActive
         \/ entActive' = FALSE /\ \A t \in Threads : pc'[t] \notin EntropyPlaces
  PROVE  EntInv'
BY DEF EntInv, EntropyExclusive

\* A step inside keeps the mutex, the flag and the one entropy coder in agreement.
LEMMA RowsKeepEntInv ==
  ASSUME NEW P, pc \in [Threads -> P], EntInv, NEW t \in Threads, ThreadStep(t)
  PROVE  EntInv'
<1>1. t # NoThread /\ NoThread \notin Threads
  BY RowsAssumption DEF Threads
<1>2. ASSUME NEW p, Goto(t, p) \/ (pc' = pc /\ p = pc[t])
      PROVE  pc'[t] = p /\ \A u \in Threads : u # t => pc'[u] = pc[u]
  BY <1>2 DEF Goto
\* t takes an entropy job
<1>3. ASSUME TakeEntropy(t), ~entActive, entMutex \in {t, NoThread}
      PROVE  EntInv'
  <2>1. pc'[t] = "ent" /\ entActive' = TRUE /\ entMutex' = NoThread
    BY <1>2, <1>3 DEF TakeEntropy
  <2>2. \A u \in Threads : u # t => pc'[u] = pc[u] /\ pc[u] \notin EntropyPlaces
    BY <1>2, <1>3 DEF TakeEntropy, EntInv, EntropyExclusive
  <2>3. \A u \in Threads : u # t => pc[u] # "wait"
    BY <1>1, <1>3 DEF EntInv
  <2> QED
    BY <1>1, <2>1, <2>2, <2>3 DEF EntInv, EntropyExclusive, EntropyPlaces
\* t neither takes one nor ends one
<1>4. ASSUME NEW p, Goto(t, p) \/ (pc' = pc /\ p = pc[t]),
             pc[t] # "wait", p # "wait",
             p \in EntropyPlaces <=> pc[t] \in EntropyPlaces,
             UNCHANGED <<entMutex, entActive>>
      PROVE  EntInv'
  <2>1. pc'[t] = p /\ \A u \in Threads : u # t => pc'[u] = pc[u]
    BY <1>2, <1>4
  <2>2. \A u \in Threads : /\ pc'[u] = "wait" <=> pc[u] = "wait"
                           /\ pc'[u] \in EntropyPlaces <=> pc[u] \in EntropyPlaces
    BY <1>4, <2>1
  <2>3. entMutex' = entMutex /\ entActive' = entActive
    BY <1>4
  <2> QED
    BY <2>2, <2>3, SamePlacesKeepEntInv
<1> USE DEF EntropyPlaces
<1>5. CASE Enter(t)
  BY <1>4, <1>5 DEF Enter, jobVars
<1>6. CASE TopEntropy(t)
  BY <1>3, <1>6 DEF TopEntropy
<1>7. CASE TopNoEntropy(t)
  <2>1. CASE Goto(t, "proc") /\ UNCHANGED entMutex
    BY <1>4, <1>7, <2>1 DEF TopNoEntropy
  <2>2. CASE Goto(t, "out") /\ UNCHANGED entMutex
    BY <1>4, <1>7, <2>2 DEF TopNoEntropy
  <2>3. CASE Goto(t, "wait") /\ entMutex' = t /\ ~entActive /\ entMutex = NoThread
    <3>1. pc'[t] = "wait" /\ \A u \in Threads : u # t => pc'[u] = pc[u]
      BY <1>2, <2>3
    <3>2. \A u \in Threads : pc[u] # "wait" /\ pc[u] \notin EntropyPlaces
      BY <1>1, <2>3 DEF EntInv, EntropyExclusive
    <3>3. entActive' = entActive
      BY <1>7 DEF TopNoEntropy
    <3> QED
      BY <1>1, <2>3, <3>1, <3>2, <3>3 DEF EntInv, EntropyExclusive
  <2> QED
    BY <1>7, <2>1, <2>2, <2>3 DEF TopNoEntropy
<1>8. CASE WaitEntropy(t)
  <2>1. pc[t] = "wait" /\ entMutex = t /\ ~entActive
    BY <1>1, <1>8 DEF WaitEntropy, EntInv
  <2>2. CASE TakeEntropy(t)
    BY <1>3, <2>1, <2>2
  <2>3. CASE ~TakeEntropy(t)
    <3>1. entMutex' = NoThread /\ UNCHANGED entActive /\ Goto(t, "out")
      BY <1>8, <2>3 DEF WaitEntropy
    <3>2. pc'[t] = "out" /\ \A u \in Threads : u # t => pc'[u] = pc[u]
      BY <1>2, <3>1
    <3>3. \A u \in Threads : u # t => pc[u] # "wait"
      BY <2>1 DEF EntInv
    <3> QED
      BY <1>1, <3>1, <3>2, <3>3 DEF EntInv, EntropyExclusive
  <2> QED
    BY <2>2, <2>3
<1>9. CASE TakeRow(t) \/ NoRow(t)
  <2>1. CASE TakeRow(t)
    BY <1>4, <2>1 DEF TakeRow
  <2>2. CASE NoRow(t)
    BY <1>4, <2>2 DEF NoRow, jobVars
  <2> QED
    BY <1>9, <2>1, <2>2
<1>10. CASE MotionEstimate(t)
  BY <1>4, <1>10 DEF MotionEstimate, jobVars
<1>11. CASE CodeMb(t)
  BY <1>4, <1>11 DEF CodeMb, jobVars
<1>12. CASE DeblockRow(t)
  BY <1>4, <1>12 DEF DeblockRow, jobVars
<1>13. CASE QueueEntropy(t)
  BY <1>4, <1>13 DEF QueueEntropy
<1>14. CASE TerminateEntropy(t)
  BY <1>4, <1>14 DEF TerminateEntropy
<1>15. CASE MarkLastMb(t)
  BY <1>4, <1>15 DEF MarkLastMb, jobVars
<1>16. CASE WriteMb(t)
  BY <1>4, <1>16 DEF WriteMb, jobVars
<1>17. CASE Overflow(t)
  BY <1>4, <1>17 DEF Overflow, jobVars
<1>18. CASE EndEntropy(t)
  <2>1. PICK p \in {"out", "top"} : Goto(t, p)
    BY <1>18 DEF EndEntropy
  <2>2. pc'[t] = p /\ \A u \in Threads : u # t => pc'[u] = pc[u]
    BY <1>2, <2>1
  <2>3. /\ pc[t] \in EntropyPlaces /\ pc[t] # "wait"
        /\ entActive' = FALSE /\ entMutex' = entMutex
    BY <1>18 DEF EndEntropy
  <2>4. \A u \in Threads : u # t => pc[u] \notin EntropyPlaces
    BY <2>3 DEF EntInv, EntropyExclusive
  <2> QED
    BY <2>2, <2>3, <2>4 DEF EntInv, EntropyExclusive
<1> QED
  BY <1>5, <1>6, <1>7, <1>8, <1>9, <1>10, <1>11, <1>12, <1>13, <1>14, <1>15,
     <1>16, <1>17, <1>18 DEF ThreadStep

-----------------------------------------------------------------------------
(* The deblocking lags behind the coding. *)

\* Where t is says what of its row is in the proc map.
Coded(t) ==
  /\ pc[t] = "code" => 0..col[t]-1 \subseteq procMap[row[t]]
  /\ pc[t] \in {"dblk", "queue", "term", "map"} => 0..LastCol-1 \subseteq procMap[row[t]]

LagInv == DeblockLags /\ \A t \in Threads : Coded(t)

\* The proc map only grows, and a thread moves no other.
LEMMA MapGrows ==
  ASSUME RowsTypeOK, NEW P, pc \in [Threads -> P], NEW t \in Threads, ThreadStep(t)
  PROVE  /\ \A y \in Row : procMap[y] \subseteq procMap'[y]
         /\ \A u \in Threads : u # t => /\ pc'[u] = pc[u]
                                        /\ row'[u] = row[u] /\ col'[u] = col[u]
<1> USE DEF RowsTypeOK, Goto
<1>1. CASE Enter(t)
  BY <1>1 DEF Enter, picVars
<1>2. CASE TopEntropy(t) \/ TopNoEntropy(t) \/ WaitEntropy(t)
  BY <1>2 DEF TopEntropy, TopNoEntropy, WaitEntropy, TakeEntropy, picVars
<1>3. CASE TakeRow(t) \/ NoRow(t)
  BY <1>3 DEF TakeRow, NoRow, picVars
<1>4. CASE MotionEstimate(t)
  BY <1>4 DEF MotionEstimate
<1>5. CASE CodeMb(t)
  BY <1>5 DEF CodeMb
<1>6. CASE DeblockRow(t) \/ QueueEntropy(t)
  BY <1>6 DEF DeblockRow, QueueEntropy
<1>7. CASE TerminateEntropy(t)
  BY <1>7 DEF TerminateEntropy, picVars
<1>8. CASE MarkLastMb(t)
  BY <1>8 DEF MarkLastMb
<1>9. CASE WriteMb(t)
  BY <1>9 DEF WriteMb
<1>10. CASE Overflow(t) \/ EndEntropy(t)
  BY <1>10 DEF Overflow, EndEntropy, picVars
<1> QED
  BY <1>1, <1>2, <1>3, <1>4, <1>5, <1>6, <1>7, <1>8, <1>9, <1>10 DEF ThreadStep

\* What a step does to the thread that takes it: it marks its row macroblock by
\* macroblock, and leaves "map" only with the whole row marked.
LEMMA CodedStep ==
  ASSUME RowsTypeOK, NEW P, pc \in [Threads -> P], NEW t \in Threads, ThreadStep(t),
         Coded(t)
  PROVE  /\ Coded(t)'
         /\ pc[t] \in {"queue", "term", "map"} =>
              \/ pc'[t] \in {"queue", "term", "map"} /\ row'[t] = row[t]
              \/ Col \subseteq procMap'[row[t]]
<1> USE RowFacts DEF Goto, Coded
<1>0. /\ row[t] \in Row /\ col[t] \in Col /\ procMap \in [Row -> SUBSET Col]
      /\ pc \in [Threads -> P] /\ row \in [Threads -> Row] /\ col \in [Threads -> Col]
  BY DEF RowsTypeOK
<1>1. CASE Enter(t)
  BY <1>0, <1>1 DEF Enter
<1>2. ASSUME TakeEntropy(t), pc[t] \in {"top", "wait"} PROVE pc'[t] = "ent"
  BY <1>0, <1>2 DEF TakeEntropy
<1>3. CASE TopEntropy(t) \/ TopNoEntropy(t) \/ WaitEntropy(t)
  <2>1. pc'[t] \in {"ent", "proc", "out", "wait"} /\ pc[t] \in {"top", "wait"}
    BY <1>0, <1>2, <1>3 DEF TopEntropy, TopNoEntropy, WaitEntropy
  <2> QED
    BY <2>1
<1>4. CASE TakeRow(t)
  <2>1. /\ pc[t] = "proc" /\ pc'[t] \in {"me", "code"} /\ col'[t] = 0
    BY <1>0, <1>4 DEF TakeRow
  <2> QED
    BY <2>1
<1>5. CASE NoRow(t)
  BY <1>0, <1>5 DEF NoRow
<1>6. CASE MotionEstimate(t)
  <2>1. pc[t] = "me" /\ (pc'[t] = "me" \/ (pc'[t] = "code" /\ col'[t] = 0))
    BY <1>0, <1>6 DEF MotionEstimate
  <2> QED
    BY <2>1
<1>7. CASE CodeMb(t)
  <2>1. CASE col[t] = LastCol
    BY <1>0, <1>7, <2>1 DEF CodeMb
  <2>2. CASE col[t] # LastCol
    <3>1. /\ pc'[t] = "code" /\ row'[t] = row[t] /\ col'[t] = col[t] + 1
          /\ procMap'[row[t]] = procMap[row[t]] \cup {col[t]}
      BY <1>0, <1>7, <2>2 DEF CodeMb
    <3>2. 0..col'[t]-1 \subseteq 0..col[t]-1 \cup {col[t]}
      BY <1>0, <3>1 DEF Col
    <3> QED
      BY <1>7, <3>1, <3>2 DEF CodeMb
  <2> QED
    BY <2>1, <2>2
<1>8. CASE DeblockRow(t)
  BY <1>0, <1>8 DEF DeblockRow
<1>9. CASE QueueEntropy(t)
  BY <1>0, <1>9 DEF QueueEntropy
<1>10. CASE TerminateEntropy(t)
  BY <1>0, <1>10 DEF TerminateEntropy, picVars
<1>11. CASE MarkLastMb(t)
  <2>1. /\ pc[t] = "map" /\ pc'[t] = "top" /\ row'[t] = row[t]
        /\ procMap'[row[t]] = procMap[row[t]] \cup {LastCol}
    BY <1>0, <1>11 DEF MarkLastMb
  <2>2. Col \subseteq 0..LastCol-1 \cup {LastCol}
    BY RowsAssumption DEF Col, LastCol
  <2> QED
    BY <2>1, <2>2
<1>12. CASE WriteMb(t)
  <2>1. pc[t] = "ent" /\ pc'[t] \in {"ent", "tail"}
    BY <1>0, <1>12 DEF WriteMb
  <2> QED
    BY <2>1
<1>13. CASE Overflow(t) \/ EndEntropy(t)
  <2>1. pc[t] \in {"ent", "tail", "fail"} /\ pc'[t] \in {"fail", "out", "top"}
    BY <1>0, <1>13 DEF Overflow, EndEntropy
  <2> QED
    BY <2>1
<1> QED
  BY <1>1, <1>3, <1>4, <1>5, <1>6, <1>7, <1>8, <1>9, <1>10, <1>11, <1>12, <1>13
     DEF ThreadStep

\* A row is deblocked by the thread that has just coded the row below it.
LEMMA DeblocksAbove ==
  ASSUME RowsTypeOK, NEW P, pc \in [Threads -> P], NEW t \in Threads, ThreadStep(t),
         NEW y \in deblocked', y \notin deblocked, y < Ht-1
  PROVE  pc'[t] = "queue" /\ row'[t] = y+1
<1>1. DeblockRow(t)
  BY DEF ThreadStep, Enter, TopEntropy, TopNoEntropy, WaitEntropy, TakeEntropy, TakeRow,
         NoRow, MotionEstimate, CodeMb, QueueEntropy, TerminateEntropy, MarkLastMb,
         WriteMb, Overflow, EndEntropy, picVars
<1>2. row[t] \in Row /\ row' = row /\ pc'[t] = "queue"
  BY <1>1 DEF DeblockRow, Goto, RowsTypeOK
<1>3. y \in (IF row[t] > 0 THEN {row[t]-1} ELSE {}) \cup (IF row[t] = Ht-1 THEN {row[t]} ELSE {})
  BY <1>1 DEF DeblockRow
<1> QED
  BY <1>2, <1>3, RowsAssumption DEF Row

\* A step inside deblocks no row before the row below it is coded.
LEMMA RowsKeepLagInv ==
  ASSUME RowsTypeOK, NEW P, pc \in [Threads -> P], LagInv, NEW t \in Threads,
         ThreadStep(t)
  PROVE  LagInv'
<1>0. \A u \in Threads : row[u] \in Row
  BY DEF RowsTypeOK
<1>1. \A u \in Threads : Coded(u)'
  BY <1>0, MapGrows, CodedStep DEF LagInv, Coded
<1>2. ASSUME NEW y \in deblocked', y < Ht-1
      PROVE  \/ Col \subseteq procMap'[y+1]
             \/ \E u \in Threads : row'[u] = y+1 /\ pc'[u] \in {"queue", "term", "map"}
  <2>1. CASE y \notin deblocked
    BY <1>2, <2>1, DeblocksAbove
  <2>2. CASE y \in deblocked
    <3>1. y+1 \in Row
      BY <1>2, <2>2, RowsAssumption DEF Row, RowsTypeOK
    <3>2. CASE Col \subseteq procMap[y+1]
      BY <3>1, <3>2, MapGrows
    <3>3. ASSUME NEW u \in Threads, row[u] = y+1, pc[u] \in {"queue", "term", "map"}
          PROVE  \/ Col \subseteq procMap'[y+1]
                 \/ row'[u] = y+1 /\ pc'[u] \in {"queue", "term", "map"}
      BY <3>3, MapGrows, CodedStep DEF LagInv
    <3> QED
      BY <1>2, <2>2, <3>2, <3>3 DEF LagInv, DeblockLags
  <2> QED
    BY <2>1, <2>2
<1> QED
  BY <1>1, <1>2 DEF LagInv, DeblockLags

-----------------------------------------------------------------------------
(* The inductive invariant of a picture.  p rows have been taken from the  *)
(* process list, the first q of them are coded and queued for entropy      *)
(* coding, and e of those have been taken again.                           *)

\* The rows from a on, up to b.
Run(a, b) == [i \in 1..b-a |-> a+i-1]

\* The first n macroblocks of the picture, in raster order.
Prefix(n) == [i \in 1..n |-> <<(i-1) \div Wd, (i-1) % Wd>>]

\* The lists hold the rows between the three marks.
Lists(p, q, e) ==
  /\ p \in Nat /\ q \in Nat /\ e \in Nat /\ e <= q /\ q <= p /\ p <= Ht
  /\ procq = [jobs |-> Run(p, Ht), closed |-> TRUE]
  /\ entq.jobs = Run(e, q) /\ (entq.closed => q = Ht)

\* Every row in work has one thread.  Rows finish in order: the thread at the end
\* of a row has row q, for the last macroblock of a row waits for the row above to
\* be queued.
Work(t, p, q) ==
  /\ pc[t] \in RowPlaces => row[t] < p
  /\ pc[t] \in {"me", "code"} => row[t] >= q
  /\ pc[t] \in {"dblk", "queue"} => row[t] = q
  /\ pc[t] \in {"term", "map"} => row[t] < q
  /\ pc[t] = "term" => row[t] = Ht-1

OneEach ==
  \A t, u \in Threads :
    (pc[t] \in RowPlaces /\ pc[u] \in RowPlaces /\ row[t] = row[u]) => t = u

\* No row skips its deblocking.
Deblocking(q) ==
  /\ \A y \in Row : LastCol \in procMap[y] => y < q
  /\ \A y \in Row : y+1 < q => y \in deblkMap /\ y \in deblocked
  /\ q = Ht => Row \subseteq deblocked
  /\ \A t \in Threads : pc[t] = "queue" =>
       /\ row[t] > 0 => row[t]-1 \in deblkMap /\ row[t]-1 \in deblocked
       /\ row[t] = Ht-1 => row[t] \in deblocked

Pic(p, q, e) ==
  /\ Lists(p, q, e)
  /\ \A t \in Threads : Work(t, p, q)
  /\ OneEach
  /\ Deblocking(q)

\* The bitstream holds the rows taken for entropy coding, the last of them as far
\* as the thread that codes it has come.
Written(e) ==
  /\ (\A t \in Threads : pc[t] \notin EntropyPlaces) => strm = Prefix(e*Wd)
  /\ \A t \in Threads :
       /\ pc[t] = "ent"  => /\ e > 0 /\ row[t] = e-1
                            /\ strm = Prefix((e-1)*Wd + col[t])
       /\ pc[t] = "tail" => strm = Prefix(e*Wd)
       /\ pc[t] # "fail"

\* Main is through only when nothing is left on the entropy list, or it failed.
MainDone ==
  pc[Main] \in {"out", "sleep", "post"} =>
    err[Main] \/ (entq.jobs = <<>> /\ entq.closed)

\* Taking from a run and adding to it.
LEMMA RunFacts ==
  ASSUME NEW a \in Nat, NEW b \in Nat, a <= b
  PROVE  /\ Run(a, b) = <<>> <=> a = b
         /\ a < b => Head(Run(a, b)) = a /\ Tail(Run(a, b)) = Run(a+1, b)
         /\ Append(Run(a, b), b) = Run(a, b+1)
<1>1. Run(a, b) \in Seq(Nat) /\ Len(Run(a, b)) = b-a
  BY DEF Run
<1>2. Run(a, b) = <<>> <=> a = b
  BY <1>1, EmptySeq DEF Run
<1>3. ASSUME a < b PROVE Head(Run(a, b)) = a /\ Tail(Run(a, b)) = Run(a+1, b)
  <2>1. Head(Run(a, b)) = a
    BY <1>1, <1>3 DEF Run
  <2>2. Run(a+1, b) \in Seq(Nat) /\ Len(Run(a+1, b)) = b-a-1
    BY <1>3 DEF Run
  <2>3. /\ Tail(Run(a, b)) \in Seq(Nat) /\ Len(Tail(Run(a, b))) = b-a-1
        /\ \A i \in 1..b-a-1 : Tail(Run(a, b))[i] = Run(a, b)[i+1]
    BY <1>1, <1>2, <1>3, HeadTailProperties
  <2>4. \A i \in 1..b-a-1 : Tail(Run(a, b))[i] = Run(a+1, b)[i]
    BY <1>3, <2>3 DEF Run
  <2> QED
    BY <2>1, <2>2, <2>3, <2>4, SeqEqual
<1>4. Append(Run(a, b), b) = Run(a, b+1)
  <2>1. Run(a, b+1) \in Seq(Nat) /\ Len(Run(a, b+1)) = b-a+1
    BY DEF Run
  <2>2. /\ Append(Run(a, b), b) \in Seq(Nat) /\ Len(Append(Run(a, b), b)) = b-a+1
        /\ \A i \in 1..b-a : Append(Run(a, b), b)[i] = Run(a, b)[i]
        /\ Append(Run(a, b), b)[b-a+1] = b
    BY <1>1, AppendProperties
  <2>3. \A i \in 1..b-a+1 : Append(Run(a, b), b)[i] = Run(a, b+1)[i]
    BY <2>2 DEF Run
  <2> QED
    BY <2>1, <2>2, <2>3, SeqEqual
<1> QED
  BY <1>2, <1>3, <1>4

\* The macroblock behind the first y rows and x columns.
LEMMA PrefixFacts ==
  ASSUME NEW y \in Row, NEW x \in Col
  PROVE  /\ y*Wd+x \in Nat
         /\ Append(Prefix(y*Wd+x), <<y, x>>) = Prefix(y*Wd+x+1)
         /\ y*Wd+LastCol+1 = (y+1)*Wd
         /\ y*Wd+x < Ht*Wd
         /\ Len(Prefix(y*Wd+x)) = y*Wd+x
         /\ Raster[y*Wd+x+1] = <<y, x>>
<1> DEFINE n == y*Wd+x
<1>1. y \in Nat /\ x \in Nat /\ x < Wd /\ Wd \in Nat \ {0} /\ Ht \in Nat /\ y+1 <= Ht
  BY RowsAssumption DEF Row, Col
<1>2. y*Wd \in Nat /\ n \in Nat
  BY <1>1
<1>3. n \div Wd = y /\ n % Wd = x
  <2> DEFINE q == n \div Wd
             r == n % Wd
  <2>1. q \in Int /\ r \in 0..Wd-1 /\ n = q*Wd+r
    BY <1>1, <1>2, SMTT(30)
  <2> HIDE DEF q, r
  <2>2. (q-y)*Wd = x-r
    BY <1>1, <2>1
  <2>3. q-y < 1
    <3>1. ASSUME q-y >= 1 PROVE FALSE
      <4>1. PICK k \in Nat : q-y = k+1
        BY <1>1, <2>1, <3>1
      <4>2. k*Wd \in Nat /\ (k+1)*Wd = k*Wd+Wd
        BY <1>1, <4>1
      <4> QED
        BY <1>1, <2>1, <2>2, <4>1, <4>2
    <3> QED
      BY <1>1, <2>1, <3>1
  <2>4. y-q < 1
    <3>1. ASSUME y-q >= 1 PROVE FALSE
      <4>1. PICK k \in Nat : y-q = k+1
        BY <1>1, <2>1, <3>1
      <4>2. k*Wd \in Nat /\ (k+1)*Wd = k*Wd+Wd /\ (q-y)*Wd = -((k+1)*Wd)
        BY <1>1, <2>1, <4>1
      <4> QED
        BY <1>1, <2>1, <2>2, <4>1, <4>2
    <3> QED
      BY <1>1, <2>1, <3>1
  <2>5. q = y /\ r = x
    <3>1. q = y
      BY <1>1, <2>1, <2>3, <2>4
    <3> QED
      BY <1>1, <2>1, <3>1
  <2> QED
    BY <2>5 DEF q, r
<1>4. Append(Prefix(n), <<y, x>>) = Prefix(n+1)
  <2>1. Prefix(n) \in Seq(Int \X Int) /\ Len(Prefix(n)) = n
    <3>1. \A i \in 1..n : <<(i-1) \div Wd, (i-1) % Wd>> \in Int \X Int
      BY <1>1, <1>2
    <3> QED
      BY <1>2, <3>1 DEF Prefix
  <2>2. Prefix(n+1) \in Seq(Int \X Int) /\ Len(Prefix(n+1)) = n+1
    <3>1. \A i \in 1..n+1 : <<(i-1) \div Wd, (i-1) % Wd>> \in Int \X Int
      BY <1>1, <1>2
    <3> QED
      BY <1>2, <3>1 DEF Prefix
  <2>3. <<y, x>> \in Int \X Int
    BY <1>1
  <2>4. /\ Append(Prefix(n), <<y, x>>) \in Seq(Int \X Int)
        /\ Len(Append(Prefix(n), <<y, x>>)) = n+1
        /\ \A i \in 1..n : Append(Prefix(n), <<y, x>>)[i] = Prefix(n)[i]
        /\ Append(Prefix(n), <<y, x>>)[n+1] = <<y, x>>
    BY <2>1, <2>3, AppendProperties
  <2>5. \A i \in 1..n : Prefix(n+1)[i] = Prefix(n)[i]
    BY <1>2 DEF Prefix
  <2>6. Prefix(n+1)[n+1] = <<y, x>>
    BY <1>2, <1>3 DEF Prefix
  <2>7. \A i \in 1..n+1 : Append(Prefix(n), <<y, x>>)[i] = Prefix(n+1)[i]
    <3> SUFFICES ASSUME NEW i \in 1..n+1
                 PROVE  Append(Prefix(n), <<y, x>>)[i] = Prefix(n+1)[i]
      OBVIOUS
    <3>1. n \in Nat
      BY <1>2
    <3> HIDE DEF n
    <3>2. i \in 1..n \/ i = n+1
      BY <3>1
    <3> QED
      BY <2>4, <2>5, <2>6, <3>2
  <2> HIDE DEF n
  <2> QED
    BY <1>2, <2>2, <2>4, <2>7, SeqEqual
<1>5. y*Wd+LastCol+1 = (y+1)*Wd
  BY <1>1 DEF LastCol
<1>6. n < Ht*Wd
  <2>1. PICK k \in Nat : Ht = y+1+k
    BY <1>1
  <2>2. Ht*Wd = y*Wd + Wd + k*Wd /\ k*Wd \in Nat
    BY <1>1, <2>1
  <2> QED
    BY <1>1, <1>2, <2>2
<1>7. Len(Prefix(n)) = n
  BY <1>2 DEF Prefix
<1>8. Raster[n+1] = <<y, x>>
  <2>1. n+1 \in 1..Ht*Wd
    BY <1>1, <1>2, <1>6
  <2> QED
    BY <1>2, <1>3, <2>1 DEF Raster
<1> QED
  BY <1>2, <1>4, <1>5, <1>6, <1>7, <1>8

-----------------------------------------------------------------------------
(* What a step of one thread leaves of the invariant. *)

\* A thread that takes no row leaves each row to one thread.
LEMMA KeepOneEach ==
  ASSUME OneEach, NEW t \in Threads,
         \A u \in Threads : u # t => pc'[u] = pc[u] /\ row'[u] = row[u],
         pc'[t] \in RowPlaces => pc[t] \in RowPlaces /\ row'[t] = row[t]
  PROVE  OneEach'
<1>1. \A u \in Threads : pc'[u] \in RowPlaces => pc[u] \in RowPlaces /\ row'[u] = row[u]
  OBVIOUS
<1> QED
  BY <1>1 DEF OneEach

\* A step that takes or queues no row, and does not end one.
LEMMA KeepPic ==
  ASSUME NEW p, NEW q, NEW e, Pic(p, q, e), NEW t \in Threads,
         \A u \in Threads : u # t => pc'[u] = pc[u] /\ row'[u] = row[u],
         procq' = procq, entq'.jobs = entq.jobs, entq'.closed => q = Ht,
         pc'[t] \in RowPlaces => pc[t] \in RowPlaces /\ row'[t] = row[t],
         Work(t, p, q)', Deblocking(q)'
  PROVE  Pic(p, q, e)'
<1>1. Lists(p, q, e)'
  BY DEF Pic, Lists
<1>2. \A u \in Threads : Work(u, p, q)'
  BY DEF Pic, Work
<1>3. OneEach'
  BY KeepOneEach DEF Pic
<1> QED
  BY <1>1, <1>2, <1>3 DEF Pic

\* A step that touches no map and does not come to the end of a row.
LEMMA KeepDeblocking ==
  ASSUME NEW q, Deblocking(q), NEW t \in Threads,
         \A u \in Threads : u # t => pc'[u] = pc[u] /\ row'[u] = row[u],
         procMap' = procMap, deblkMap' = deblkMap, deblocked' = deblocked,
         pc'[t] # "queue"
  PROVE  Deblocking(q)'
BY DEF Deblocking

\* A step after which the thread is at no row job.
LEMMA KeepAway ==
  ASSUME NEW p, NEW q, NEW e, Pic(p, q, e), NEW t \in Threads,
         \A u \in Threads : u # t => pc'[u] = pc[u] /\ row'[u] = row[u],
         UNCHANGED <<procq, entq, procMap, deblkMap, deblocked>>,
         pc'[t] \notin RowPlaces
  PROVE  Pic(p, q, e)'
<1>1. Work(t, p, q)' /\ pc'[t] # "queue"
  BY DEF Work, RowPlaces
<1>2. Deblocking(q)'
  BY <1>1, KeepDeblocking DEF Pic
<1> QED
  BY <1>1, <1>2, KeepPic DEF Pic, Lists

-----------------------------------------------------------------------------
(* The three steps that move a mark. *)

\* A row taken from the process list goes to one thread.
LEMMA TakeRowMovesP ==
  ASSUME RowsTypeOK, NEW P, pc \in [Threads -> P], NEW p, NEW q, NEW e, Pic(p, q, e),
         NEW t \in Threads, TakeRow(t)
  PROVE  Pic(p+1, q, e)'
<1>1. /\ p \in Nat /\ q \in Nat /\ q <= p /\ p <= Ht /\ Ht \in Nat
      /\ procq = [jobs |-> Run(p, Ht), closed |-> TRUE]
  BY RowsAssumption DEF Pic, Lists
<1>2. p < Ht /\ Head(procq.jobs) = p /\ Take(procq) = [jobs |-> Run(p+1, Ht), closed |-> TRUE]
  <2>1. procq.jobs = Run(p, Ht) /\ procq.closed = TRUE /\ procq.jobs # <<>>
    BY <1>1 DEF TakeRow
  <2>2. p # Ht
    BY <1>1, <2>1, RunFacts
  <2>3. p < Ht
    BY <1>1, <2>2
  <2>4. Head(Run(p, Ht)) = p /\ Tail(Run(p, Ht)) = Run(p+1, Ht)
    BY <1>1, <2>3, RunFacts
  <2> QED
    BY <2>1, <2>3, <2>4 DEF Take
<1>3. /\ row'[t] = p /\ pc'[t] \in {"me", "code"}
      /\ \A u \in Threads : u # t => pc'[u] = pc[u] /\ row'[u] = row[u]
  BY <1>2 DEF TakeRow, Goto, RowsTypeOK
<1>4. UNCHANGED <<entq, procMap, deblkMap, deblocked>>
  BY DEF TakeRow, picVars
<1>5. \A u \in Threads : row[u] \in Nat
  BY DEF RowsTypeOK, Row
<1>6. Lists(p+1, q, e)'
  BY <1>1, <1>2, <1>4 DEF Pic, Lists, TakeRow
<1>7. \A u \in Threads : Work(u, p+1, q)'
  <2>1. Work(t, p+1, q)'
    BY <1>1, <1>3 DEF Work, RowPlaces
  <2>2. ASSUME NEW u \in Threads, u # t PROVE Work(u, p+1, q)'
    BY <1>1, <1>3, <1>5, <2>2 DEF Pic, Work
  <2> QED
    BY <2>1, <2>2
<1>8. OneEach'
  <2>1. \A u \in Threads : u # t /\ pc'[u] \in RowPlaces => row'[u] # p
    BY <1>1, <1>3, <1>5 DEF Pic, Work
  <2>2. ASSUME NEW u \in Threads, NEW v \in Threads, pc'[u] \in RowPlaces,
               pc'[v] \in RowPlaces, row'[u] = row'[v]
        PROVE  u = v
    BY <1>3, <2>1, <2>2 DEF Pic, OneEach
  <2> QED
    BY <2>2 DEF OneEach
<1>9. Deblocking(q)'
  BY <1>3, <1>4, KeepDeblocking DEF Pic
<1> QED
  BY <1>6, <1>7, <1>8, <1>9 DEF Pic

\* A row taken from the entropy list is the next one in order.
LEMMA TakeEntropyMovesE ==
  ASSUME RowsTypeOK, NEW P, pc \in [Threads -> P], NEW p, NEW q, NEW e, Pic(p, q, e),
         NEW t \in Threads, TakeEntropy(t)
  PROVE  /\ Pic(p, q, e+1)'
         /\ e \in Nat /\ row'[t] = e /\ col'[t] = 0 /\ pc'[t] = "ent"
         /\ \A u \in Threads : u # t => pc'[u] = pc[u] /\ row'[u] = row[u]
<1>1. /\ q \in Nat /\ e \in Nat /\ e <= q /\ entq.jobs = Run(e, q)
  BY DEF Pic, Lists
<1>2. e < q /\ Head(entq.jobs) = e /\ Tail(entq.jobs) = Run(e+1, q)
  <2>1. entq.jobs # <<>>
    BY DEF TakeEntropy
  <2>2. e # q
    BY <1>1, <2>1, RunFacts
  <2>3. e < q
    BY <1>1, <2>2
  <2>4. Head(Run(e, q)) = e /\ Tail(Run(e, q)) = Run(e+1, q)
    BY <1>1, <2>3, RunFacts
  <2> QED
    BY <1>1, <2>3, <2>4
<1>3. /\ row'[t] = e /\ col'[t] = 0 /\ pc'[t] = "ent"
      /\ \A u \in Threads : u # t => pc'[u] = pc[u] /\ row'[u] = row[u]
  BY <1>2 DEF TakeEntropy, Goto, RowsTypeOK
<1>4. UNCHANGED <<procq, procMap, deblkMap, deblocked>>
  BY DEF TakeEntropy, picVars
<1>5. Lists(p, q, e+1)'
  <2>1. entq'.jobs = Run(e+1, q) /\ entq'.closed = entq.closed
    BY <1>2 DEF TakeEntropy, Take
  <2> QED
    BY <1>1, <1>2, <1>4, <2>1 DEF Pic, Lists
<1>6. "ent" \notin RowPlaces
  BY DEF RowPlaces
<1>7. \A u \in Threads : Work(u, p, q)'
  BY <1>3, <1>6 DEF Pic, Work, RowPlaces
<1>8. OneEach'
  BY <1>3, <1>6, KeepOneEach DEF Pic
<1>9. Deblocking(q)'
  BY <1>3, <1>4, KeepDeblocking DEF Pic
<1> QED
  BY <1>1, <1>3, <1>5, <1>7, <1>8, <1>9 DEF Pic

\* A row that is queued is the next one in order, and its deblocking is done.
LEMMA QueueEntropyMovesQ ==
  ASSUME RowsTypeOK, NEW P, pc \in [Threads -> P], NEW p, NEW q, NEW e, Pic(p, q, e),
         NEW t \in Threads, QueueEntropy(t)
  PROVE  Pic(p, q+1, e)' /\ ~entq.closed
<1>1. /\ p \in Nat /\ q \in Nat /\ e \in Nat /\ e <= q /\ q <= p /\ p <= Ht /\ Ht \in Nat
      /\ entq.jobs = Run(e, q) /\ (entq.closed => q = Ht)
  BY RowsAssumption DEF Pic, Lists
<1>2. pc[t] = "queue" /\ row[t] = q /\ q < p
  BY DEF QueueEntropy, Pic, Work, RowPlaces
<1>3. /\ pc'[t] \in {"term", "map"} /\ (pc'[t] = "term" => q = Ht-1)
      /\ \A u \in Threads : u # t => pc'[u] = pc[u]
  BY <1>2 DEF QueueEntropy, Goto
<1>4. UNCHANGED <<procq, procMap, deblkMap, deblocked, row>>
  BY DEF QueueEntropy
<1>5. \A u \in Threads : row[u] \in Nat
  BY DEF RowsTypeOK, Row
<1>6. Lists(p, q+1, e)'
  <2>1. entq'.jobs = Run(e, q+1) /\ entq'.closed = FALSE
    <3>1. Append(Run(e, q), q) = Run(e, q+1)
      BY <1>1, RunFacts
    <3> QED
      BY <1>1, <1>2, <3>1 DEF QueueEntropy, Put
  <2> QED
    BY <1>1, <1>2, <1>4, <2>1 DEF Pic, Lists
<1>7. \A u \in Threads : u # t /\ pc[u] \in RowPlaces => row[u] # q
  BY <1>2 DEF Pic, OneEach, RowPlaces
<1>8. \A u \in Threads : Work(u, p, q+1)'
  <2>1. Work(t, p, q+1)'
    BY <1>1, <1>2, <1>3, <1>4 DEF Work, RowPlaces
  <2>2. ASSUME NEW u \in Threads, u # t PROVE Work(u, p, q+1)'
    <3>1. Work(u, p, q) /\ pc'[u] = pc[u] /\ row'[u] = row[u]
      BY <1>3, <1>4, <2>2 DEF Pic
    <3> QED
      BY <1>1, <1>5, <1>7, <2>2, <3>1 DEF Work, RowPlaces
  <2> QED
    BY <2>1, <2>2
<1>9. OneEach'
  <2>1. "queue" \in RowPlaces
    BY DEF RowPlaces
  <2> QED
    BY <1>2, <1>3, <1>4, <2>1, KeepOneEach DEF Pic
<1>10. Deblocking(q+1)'
  <2>1. /\ q > 0 => q-1 \in deblkMap /\ q-1 \in deblocked
        /\ q = Ht-1 => q \in deblocked
    BY <1>2 DEF Pic, Deblocking
  <2>2. \A y \in Row : y+1 < q+1 => y \in deblkMap /\ y \in deblocked
    <3>1. ASSUME NEW y \in Row, y+1 < q+1 PROVE y \in deblkMap /\ y \in deblocked
      <4>1. y \in Nat /\ (y+1 < q \/ y = q-1)
        BY <1>1, <3>1 DEF Row
      <4> QED
        BY <1>1, <2>1, <4>1 DEF Pic, Deblocking
    <3> QED
      BY <3>1
  <2>3. \A y \in Row : LastCol \in procMap[y] => y < q+1
    BY <1>1 DEF Pic, Deblocking, Row
  <2>4. q+1 = Ht => Row \subseteq deblocked
    <3>1. ASSUME NEW y \in Row, q+1 = Ht PROVE y \in deblocked
      <4>1. y+1 < q+1 \/ y = q
        BY <1>1, <3>1 DEF Row
      <4>2. q = Ht-1
        BY <1>1, <3>1
      <4> QED
        BY <2>1, <2>2, <4>1, <4>2
    <3> QED
      BY <3>1
  <2>5. \A u \in Threads : pc'[u] # "queue"
    BY <1>2, <1>3, <1>7 DEF Pic, Work, RowPlaces
  <2> QED
    BY <1>4, <2>2, <2>3, <2>4, <2>5 DEF Deblocking
<1>11. ~entq.closed
  BY <1>1, <1>2
<1> QED
  BY <1>6, <1>8, <1>9, <1>10, <1>11 DEF Pic

-----------------------------------------------------------------------------
(* The steps that move no mark. *)

\* The row job: a thread works on its row, marks it and deblocks the row above.
LEMMA RowJobKeepsPic ==
  ASSUME RowsTypeOK, NEW P, pc \in [Threads -> P], NEW p, NEW q, NEW e, Pic(p, q, e),
         NEW t \in Threads,
         \/ MotionEstimate(t) \/ CodeMb(t) \/ DeblockRow(t)
         \/ TerminateEntropy(t) \/ MarkLastMb(t)
  PROVE  Pic(p, q, e)'
<1>1. /\ p \in Nat /\ q \in Nat /\ q <= p /\ p <= Ht /\ Ht \in Nat
      /\ (entq.closed => q = Ht) /\ Work(t, p, q) /\ Deblocking(q)
  BY RowsAssumption DEF Pic, Lists
<1>2. /\ row[t] \in Nat /\ row[t] \in Row /\ row \in [Threads -> Row]
      /\ pc \in [Threads -> P] /\ procMap \in [Row -> SUBSET Col]
  BY DEF RowsTypeOK, Row
<1>3. CASE MotionEstimate(t)
  <2>1. /\ pc[t] = "me" /\ pc'[t] \in {"me", "code"} /\ row' = row
        /\ \A u \in Threads : u # t => pc'[u] = pc[u]
        /\ UNCHANGED <<procq, entq, procMap, deblkMap, deblocked>>
    BY <1>2, <1>3 DEF MotionEstimate, Goto, jobVars
  <2>2. Work(t, p, q)'
    BY <1>1, <2>1 DEF Work, RowPlaces
  <2>3. Deblocking(q)'
    BY <1>1, <2>1, KeepDeblocking
  <2> QED
    BY <1>1, <2>1, <2>2, <2>3, KeepPic DEF RowPlaces
<1>4. CASE CodeMb(t)
  <2>1. /\ pc[t] = "code" /\ pc'[t] \in {"code", "dblk"} /\ row' = row
        /\ \A u \in Threads : u # t => pc'[u] = pc[u]
        /\ UNCHANGED <<procq, entq, deblkMap, deblocked>>
    BY <1>2, <1>4 DEF CodeMb, Goto, jobVars
  <2>2. \A y \in Row : LastCol \in procMap'[y] => LastCol \in procMap[y]
    BY <1>2, <1>4 DEF CodeMb
  <2>3. pc'[t] = "dblk" => row[t] = q
    <3>1. SUFFICES ASSUME pc'[t] = "dblk" PROVE row[t] = q
      OBVIOUS
    <3>2. col[t] = LastCol
      BY <1>2, <1>4, <3>1 DEF CodeMb
    <3>3. row[t] > 0 => LastCol \in procMap[row[t]-1]
      BY <1>4, <3>2, RowsAssumption DEF CodeMb, AboveRight, LastCol
    <3>4. row[t] > 0 => row[t]-1 < q
      <4>1. row[t] > 0 => row[t]-1 \in Row
        BY <1>1, <1>2 DEF Row
      <4> QED
        BY <1>1, <3>3, <4>1 DEF Deblocking
    <3>5. row[t] >= q
      BY <1>1, <2>1 DEF Work
    <3> QED
      BY <1>1, <1>2, <3>4, <3>5
  <2>4. Work(t, p, q)'
    BY <1>1, <2>1, <2>3 DEF Work, RowPlaces
  <2>5. Deblocking(q)'
    <3>1. \A u \in Threads : pc'[u] = "queue" => pc[u] = "queue"
      BY <2>1
    <3> QED
      BY <1>1, <2>1, <2>2, <3>1 DEF Deblocking
  <2> QED
    BY <1>1, <2>1, <2>4, <2>5, KeepPic DEF RowPlaces
<1>5. CASE DeblockRow(t)
  <2>1. /\ pc[t] = "dblk" /\ pc'[t] = "queue" /\ row' = row /\ row[t] = q
        /\ \A u \in Threads : u # t => pc'[u] = pc[u]
        /\ UNCHANGED <<procq, entq, procMap>>
    BY <1>1, <1>2, <1>5 DEF DeblockRow, Goto, jobVars, Work
  <2>2. ~(q > 1 /\ q-2 \notin deblkMap)
    <3>1. SUFFICES ASSUME q > 1 PROVE q-2 \in deblkMap
      OBVIOUS
    <3>2. q-2 \in Row /\ q-2+1 < q
      BY <1>1, <1>2, <2>1, <3>1 DEF Row
    <3> QED
      BY <1>1, <3>2 DEF Deblocking
  <2>3. /\ deblkMap' = deblkMap \cup (IF q > 0 THEN {q-1} ELSE {})
        /\ deblocked' = deblocked \cup (IF q > 0 THEN {q-1} ELSE {})
                                    \cup (IF q = Ht-1 THEN {q} ELSE {})
    BY <1>5, <2>1, <2>2 DEF DeblockRow
  <2>4. Work(t, p, q)'
    BY <1>1, <2>1 DEF Work, RowPlaces
  <2>5. \A u \in Threads : u # t => pc[u] # "queue"
    BY <2>1 DEF Pic, OneEach, Work, RowPlaces
  <2>6. Deblocking(q)'
    BY <1>1, <2>1, <2>3, <2>5 DEF Deblocking
  <2> QED
    BY <1>1, <2>1, <2>4, <2>6, KeepPic DEF RowPlaces
<1>6. CASE TerminateEntropy(t)
  <2>1. /\ pc[t] = "term" /\ pc'[t] = "map" /\ row' = row
        /\ \A u \in Threads : u # t => pc'[u] = pc[u]
        /\ UNCHANGED <<procq, procMap, deblkMap, deblocked>>
        /\ entq'.jobs = entq.jobs
    BY <1>2, <1>6 DEF TerminateEntropy, Goto, picVars, Close
  <2>2. q = Ht
    BY <1>1, <1>2, <2>1 DEF Work, RowPlaces
  <2>3. Work(t, p, q)'
    BY <1>1, <2>1 DEF Work, RowPlaces
  <2>4. Deblocking(q)'
    BY <1>1, <2>1, KeepDeblocking
  <2> QED
    BY <1>1, <2>1, <2>2, <2>3, <2>4, KeepPic DEF RowPlaces
<1>7. CASE MarkLastMb(t)
  <2>1. /\ pc[t] = "map" /\ pc'[t] = "top" /\ row' = row /\ row[t] < q
        /\ \A u \in Threads : u # t => pc'[u] = pc[u]
        /\ UNCHANGED <<procq, entq, deblkMap, deblocked>>
    BY <1>1, <1>2, <1>7 DEF MarkLastMb, Goto, jobVars, Work
  <2>2. \A y \in Row : LastCol \in procMap'[y] => LastCol \in procMap[y] \/ y = row[t]
    BY <1>2, <1>7 DEF MarkLastMb
  <2>3. Work(t, p, q)'
    BY <2>1 DEF Work, RowPlaces
  <2>4. Deblocking(q)'
    <3>1. \A u \in Threads : pc'[u] = "queue" => pc[u] = "queue"
      BY <2>1
    <3> QED
      BY <1>1, <2>1, <2>2, <3>1 DEF Deblocking
  <2> QED
    BY <1>1, <2>1, <2>3, <2>4, KeepPic DEF RowPlaces
<1> QED
  BY <1>3, <1>4, <1>5, <1>6, <1>7

\* The steps in which a thread looks for a job or entropy codes.
LEMMA OtherStepsKeepPic ==
  ASSUME RowsTypeOK, NEW P, pc \in [Threads -> P], NEW p, NEW q, NEW e, Pic(p, q, e),
         NEW t \in Threads,
         \/ Enter(t) \/ TopNoEntropy(t) \/ (WaitEntropy(t) /\ ~TakeEntropy(t)) \/ NoRow(t)
         \/ WriteMb(t) \/ Overflow(t) \/ EndEntropy(t)
  PROVE  Pic(p, q, e)'
<1> USE DEF Goto, picVars, jobVars
<1>1. /\ pc'[t] \in {"top", "proc", "out", "wait", "ent", "tail", "fail"}
      /\ \A u \in Threads : u # t => pc'[u] = pc[u]
      /\ row' = row
      /\ UNCHANGED <<procq, entq, procMap, deblkMap, deblocked>>
  <2>1. CASE Enter(t)
    BY <2>1 DEF Enter
  <2>2. CASE TopNoEntropy(t)
    BY <2>2 DEF TopNoEntropy
  <2>3. CASE WaitEntropy(t) /\ ~TakeEntropy(t)
    BY <2>3 DEF WaitEntropy
  <2>4. CASE NoRow(t)
    BY <2>4 DEF NoRow
  <2>5. CASE WriteMb(t)
    BY <2>5 DEF WriteMb
  <2>6. CASE Overflow(t)
    BY <2>6 DEF Overflow
  <2>7. CASE EndEntropy(t)
    BY <2>7 DEF EndEntropy
  <2> QED
    BY <2>1, <2>2, <2>3, <2>4, <2>5, <2>6, <2>7
<1>2. pc'[t] \notin RowPlaces
  BY <1>1 DEF RowPlaces
<1> QED
  BY <1>1, <1>2, KeepAway

-----------------------------------------------------------------------------
(* The bitstream, and the whole step. *)

\* A step that writes nothing and moves no thread in or out of an entropy job.
LEMMA KeepWritten ==
  ASSUME NEW e, Written(e), NEW t \in Threads, pc[t] \notin EntropyPlaces,
         pc'[t] \notin EntropyPlaces,
         \A u \in Threads : u # t => /\ pc'[u] = pc[u] /\ row'[u] = row[u]
                                    /\ col'[u] = col[u],
         strm' = strm
  PROVE  Written(e)'
<1>1. \A u \in Threads : pc'[u] \in EntropyPlaces <=> pc[u] \in EntropyPlaces
  OBVIOUS
<1>2. \A u \in Threads : pc[u] \in {"ent", "tail", "fail"} \/ pc'[u] \in {"ent", "tail", "fail"} =>
        u # t /\ pc'[u] = pc[u] /\ row'[u] = row[u] /\ col'[u] = col[u]
  BY DEF EntropyPlaces
<1> QED
  BY <1>1, <1>2 DEF Written

\* The thread that entropy codes writes the next macroblock of the picture.
LEMMA WriteMbAppends ==
  ASSUME RowsTypeOK, EntInv, NEW P, pc \in [Threads -> P], NEW e \in Nat, Written(e),
         NEW t \in Threads, WriteMb(t)
  PROVE  /\ Written(e)'
         /\ Len(strm) \in 0..Ht*Wd-1 /\ strm' = Append(strm, Raster[Len(strm)+1])
<1>1. /\ pc[t] = "ent" /\ row[t] \in Row /\ col[t] \in Col /\ e > 0 /\ row[t] = e-1
      /\ strm = Prefix((e-1)*Wd + col[t])
  BY DEF WriteMb, Written, RowsTypeOK
<1>2. strm' = Append(strm, <<row[t], col[t]>>)
  BY DEF WriteMb
<1>3. /\ strm' = Prefix(row[t]*Wd + col[t] + 1)
      /\ row[t]*Wd + LastCol + 1 = (row[t]+1)*Wd
      /\ Len(strm) \in 0..Ht*Wd-1 /\ Raster[Len(strm)+1] = <<row[t], col[t]>>
  <2>1. strm = Prefix(row[t]*Wd + col[t])
    BY <1>1
  <2>2. /\ Append(strm, <<row[t], col[t]>>) = Prefix(row[t]*Wd + col[t] + 1)
        /\ row[t]*Wd + LastCol + 1 = (row[t]+1)*Wd
        /\ row[t]*Wd + col[t] \in Nat /\ row[t]*Wd + col[t] < Ht*Wd
        /\ Len(strm) = row[t]*Wd + col[t]
        /\ Raster[row[t]*Wd + col[t] + 1] = <<row[t], col[t]>>
    BY <1>1, <2>1, PrefixFacts
  <2>3. Ht*Wd \in Nat
    BY RowsAssumption
  <2> DEFINE n == row[t]*Wd + col[t]
             m == Ht*Wd
  <2>4. n \in Nat /\ n < m /\ m \in Nat => n \in 0..m-1
    <3> HIDE DEF n, m
    <3> QED
      OBVIOUS
  <2>5. Raster[Len(strm)+1] = <<row[t], col[t]>>
    BY <2>2
  <2> QED
    BY <1>2, <2>2, <2>3, <2>4, <2>5
<1>4. \A u \in Threads : u # t => pc[u] \notin EntropyPlaces /\ pc'[u] = pc[u]
  BY <1>1 DEF EntInv, EntropyExclusive, EntropyPlaces, WriteMb, Goto
<1>5. Written(e)'
  <2>1. CASE col[t] = LastCol
    <3>1. pc'[t] = "tail"
      BY <2>1 DEF WriteMb, Goto
    <3>2. strm' = Prefix(e*Wd)
      <4>1. row[t]+1 = e
        BY <1>1
      <4> QED
        BY <1>3, <2>1, <4>1
    <3> QED
      BY <1>4, <3>1, <3>2 DEF Written, EntropyPlaces
  <2>2. CASE col[t] # LastCol
    <3>1. pc'[t] = "ent" /\ row'[t] = row[t] /\ col'[t] = col[t] + 1
      BY <1>1, <2>2 DEF WriteMb, RowsTypeOK
    <3>2. strm' = Prefix((e-1)*Wd + col'[t])
      <4>1. row[t]*Wd + col[t] + 1 = (e-1)*Wd + (col[t] + 1)
        BY <1>1, RowsAssumption DEF Col
      <4> QED
        BY <1>3, <3>1, <4>1
    <3> QED
      BY <1>1, <1>4, <3>1, <3>2 DEF Written, EntropyPlaces
  <2> QED
    BY <2>1, <2>2
<1> QED
  BY <1>2, <1>3, <1>5

\* Only WriteMb writes.
LEMMA OnlyWriteMbWrites ==
  ASSUME NEW t \in Threads, ThreadStep(t), ~WriteMb(t)
  PROVE  strm' = strm
BY DEF ThreadStep, Enter, TopEntropy, TopNoEntropy, WaitEntropy, TakeEntropy, TakeRow,
       NoRow, MotionEstimate, CodeMb, DeblockRow, QueueEntropy, TerminateEntropy,
       MarkLastMb, Overflow, EndEntropy, picVars

\* Every step inside ih264e_process_thread keeps the picture in order.
LEMMA RowsKeepPicture ==
  ASSUME RowsTypeOK, EntInv, NEW P, pc \in [Threads -> P],
         NEW p \in Nat, NEW q \in Nat, NEW e \in Nat, Pic(p, q, e),
         NEW t \in Threads, ThreadStep(t)
  PROVE  \E p2, q2, e2 \in Nat :
           Pic(p2, q2, e2)' /\ (Written(e) /\ pc'[t] # "fail" => Written(e2)')
<1>1. \A u \in Threads : u # t => /\ pc'[u] = pc[u] /\ row'[u] = row[u]
                                  /\ col'[u] = col[u]
  BY MapGrows
<1>2. ASSUME Pic(p, q, e)', Written(e) /\ pc'[t] # "fail" => Written(e)'
      PROVE  \E p2, q2, e2 \in Nat :
               Pic(p2, q2, e2)' /\ (Written(e) /\ pc'[t] # "fail" => Written(e2)')
  BY <1>2
\* The steps outside the entropy jobs
<1>3. ASSUME pc[t] \notin EntropyPlaces, pc'[t] \notin EntropyPlaces, ~WriteMb(t)
      PROVE  Written(e) => Written(e)'
  BY <1>1, <1>3, KeepWritten, OnlyWriteMbWrites
<1> USE DEF Goto, EntropyPlaces
<1>4. ASSUME TakeEntropy(t), \A u \in Threads : pc[u] \notin EntropyPlaces
      PROVE  \E p2, q2, e2 \in Nat :
               Pic(p2, q2, e2)' /\ (Written(e) /\ pc'[t] # "fail" => Written(e2)')
  <2>1. /\ Pic(p, q, e+1)' /\ row'[t] = e /\ col'[t] = 0 /\ pc'[t] = "ent"
    BY <1>4, TakeEntropyMovesE
  <2>2. Written(e) => Written(e+1)'
    <3>1. SUFFICES ASSUME Written(e) PROVE Written(e+1)'
      OBVIOUS
    <3>2. strm' = Prefix(e*Wd)
      BY <1>4, <3>1 DEF Written, TakeEntropy, picVars
    <3>3. e*Wd = (e+1-1)*Wd + 0 /\ e+1 > 0 /\ e+1-1 = e
      BY RowsAssumption
    <3>4. strm' = Prefix((e+1-1)*Wd + col'[t])
      BY <2>1, <3>2, <3>3
    <3>5. \A u \in Threads : u # t => pc'[u] \notin EntropyPlaces
      BY <1>1, <1>4
    <3> QED
      BY <2>1, <3>3, <3>4, <3>5 DEF Written
  <2>3. e+1 \in Nat
    OBVIOUS
  <2> QED
    BY <2>1, <2>2, <2>3
<1>5. CASE TopEntropy(t)
  BY <1>4, <1>5 DEF TopEntropy, EntInv, EntropyExclusive
<1>6. CASE WaitEntropy(t) /\ TakeEntropy(t)
  <2>1. entMutex = t /\ t # NoThread
    BY <1>6, RowsAssumption DEF WaitEntropy, EntInv, Threads
  <2>2. \A u \in Threads : pc[u] \notin EntropyPlaces
    BY <2>1 DEF EntInv, EntropyExclusive
  <2> QED
    BY <1>4, <1>6, <2>2
<1>7. CASE TakeRow(t)
  <2>1. Pic(p+1, q, e)'
    BY <1>7, TakeRowMovesP
  <2>2. pc[t] \notin EntropyPlaces /\ pc'[t] \notin EntropyPlaces /\ ~WriteMb(t)
    BY <1>7 DEF TakeRow, WriteMb
  <2>3. p+1 \in Nat
    OBVIOUS
  <2> QED
    BY <1>3, <2>1, <2>2, <2>3
<1>8. CASE QueueEntropy(t)
  <2>1. Pic(p, q+1, e)'
    BY <1>8, QueueEntropyMovesQ
  <2>2. pc[t] \notin EntropyPlaces /\ pc'[t] \notin EntropyPlaces /\ ~WriteMb(t)
    BY <1>8 DEF QueueEntropy, WriteMb
  <2>3. q+1 \in Nat
    OBVIOUS
  <2> QED
    BY <1>3, <2>1, <2>2, <2>3
<1>9. CASE Enter(t) \/ TopNoEntropy(t) \/ (WaitEntropy(t) /\ ~TakeEntropy(t)) \/ NoRow(t)
  <2>1. pc[t] \notin EntropyPlaces /\ pc'[t] \notin EntropyPlaces /\ ~WriteMb(t)
    BY <1>9 DEF Enter, TopNoEntropy, WaitEntropy, NoRow, WriteMb
  <2>2. Pic(p, q, e)'
    BY <1>9, OtherStepsKeepPic
  <2> QED
    BY <1>2, <1>3, <2>1, <2>2
<1>10. CASE \/ MotionEstimate(t) \/ CodeMb(t) \/ DeblockRow(t)
            \/ TerminateEntropy(t) \/ MarkLastMb(t)
  <2>1. pc[t] \notin EntropyPlaces /\ pc'[t] \notin EntropyPlaces /\ ~WriteMb(t)
    BY <1>10 DEF MotionEstimate, CodeMb, DeblockRow, TerminateEntropy, MarkLastMb, WriteMb
  <2>2. Pic(p, q, e)'
    BY <1>10, RowJobKeepsPic
  <2> QED
    BY <1>2, <1>3, <2>1, <2>2
<1>11. CASE WriteMb(t)
  <2>1. Pic(p, q, e)'
    BY <1>11, OtherStepsKeepPic
  <2> QED
    BY <1>2, <1>11, <2>1, WriteMbAppends
<1>12. CASE Overflow(t)
  <2>1. Pic(p, q, e)' /\ pc'[t] = "fail"
    BY <1>12, OtherStepsKeepPic DEF Overflow
  <2> QED
    BY <1>2, <2>1
<1>13. CASE EndEntropy(t)
  <2>1. Pic(p, q, e)'
    BY <1>13, OtherStepsKeepPic
  <2>2. Written(e) => Written(e)'
    <3>1. SUFFICES ASSUME Written(e) PROVE Written(e)'
      OBVIOUS
    <3>2. pc[t] = "tail" /\ strm = Prefix(e*Wd) /\ strm' = strm
      BY <1>13, <3>1 DEF EndEntropy, Written, picVars
    <3>3. pc'[t] \in {"out", "top"}
      BY <1>13 DEF EndEntropy
    <3>4. \A u \in Threads : u # t => pc'[u] \notin EntropyPlaces
      BY <1>1, <3>2 DEF EntInv, EntropyExclusive
    <3> QED
      BY <3>2, <3>3, <3>4 DEF Written
  <2> QED
    BY <1>2, <2>1, <2>2
<1> QED
  BY <1>5, <1>6, <1>7, <1>8, <1>9, <1>10, <1>11, <1>12, <1>13 DEF ThreadStep

\* Main leaves ih264e_process_thread with nothing on the entropy list, and nothing
\* is put on it afterwards.
LEMMA RowsKeepMainDone ==
  ASSUME RowsTypeOK, NEW P, pc \in [Threads -> P],
         NEW p, NEW q, NEW e, Pic(p, q, e), MainDone,
         NEW t \in Threads, ThreadStep(t)
  PROVE  MainDone'
<1> USE DEF Goto
<1>1. Main \in Threads
  BY DEF Threads
<1>2. CASE QueueEntropy(t)
  <2>1. /\ ~entq.closed /\ err' = err
        /\ pc'[Main] \in {"out", "sleep", "post"} => pc[Main] \in {"out", "sleep", "post"}
    BY <1>1, <1>2, QueueEntropyMovesQ DEF QueueEntropy
  <2> QED
    BY <2>1 DEF MainDone
<1>3. ASSUME TakeEntropy(t) PROVE MainDone'
  <2>1. /\ entq.jobs # <<>> /\ err' = err
        /\ pc'[Main] \in {"out", "sleep", "post"} => pc[Main] \in {"out", "sleep", "post"}
    BY <1>1, <1>3 DEF TakeEntropy
  <2> QED
    BY <2>1 DEF MainDone
<1>4. CASE TerminateEntropy(t)
  <2>1. /\ entq'.jobs = entq.jobs /\ entq'.closed = TRUE /\ err' = err
        /\ pc'[Main] \in {"out", "sleep", "post"} => pc[Main] \in {"out", "sleep", "post"}
    BY <1>1, <1>4 DEF TerminateEntropy, Close
  <2> QED
    BY <2>1 DEF MainDone
<1>5. CASE Enter(t)
  <2>1. /\ pc[t] = "enter" /\ pc'[t] = "top" /\ entq' = entq
        /\ \A u \in Threads : u # t => pc'[u] = pc[u] /\ err'[u] = err[u]
    BY <1>5 DEF Enter, jobVars, RowsTypeOK
  <2> QED
    BY <1>1, <2>1 DEF MainDone
<1>6. CASE TopNoEntropy(t) \/ (WaitEntropy(t) /\ ~TakeEntropy(t))
  <2>1. /\ entq' = entq /\ err' = err
        /\ pc'[t] = "out" => entq.jobs = <<>> /\ entq.closed
        /\ pc'[t] \in {"out", "proc", "wait"}
        /\ \A u \in Threads : u # t => pc'[u] = pc[u]
    BY <1>6 DEF TopNoEntropy, WaitEntropy
  <2> QED
    BY <1>1, <2>1 DEF MainDone
<1>7. CASE EndEntropy(t)
  <2>1. /\ entq' = entq
        /\ pc'[t] = "out" => err'[t]
        /\ pc'[t] \in {"out", "top"}
        /\ \A u \in Threads : u # t => pc'[u] = pc[u] /\ err'[u] = err[u]
    BY <1>7 DEF EndEntropy, RowsTypeOK
  <2> QED
    BY <1>1, <2>1 DEF MainDone
\* The other steps change neither the list nor the errors and do not leave.
<1>8. ASSUME UNCHANGED <<entq, err>>, pc'[t] \notin {"out", "sleep", "post"} \/ t # Main
      PROVE  MainDone'
  <2>1. \A u \in Threads : u # t => pc'[u] = pc[u]
    BY MapGrows
  <2> QED
    BY <1>1, <1>8, <2>1 DEF MainDone
<1>9. CASE TakeRow(t)
  BY <1>8, <1>9 DEF TakeRow
<1>10. CASE NoRow(t)
  BY <1>8, <1>10 DEF NoRow, jobVars
<1>11. CASE MotionEstimate(t)
  BY <1>8, <1>11 DEF MotionEstimate, jobVars
<1>12. CASE CodeMb(t)
  BY <1>8, <1>12 DEF CodeMb, jobVars
<1>13. CASE DeblockRow(t)
  BY <1>8, <1>13 DEF DeblockRow, jobVars
<1>14. CASE MarkLastMb(t)
  BY <1>8, <1>14 DEF MarkLastMb, jobVars
<1>15. CASE WriteMb(t)
  BY <1>8, <1>15 DEF WriteMb, jobVars
<1>16. CASE Overflow(t)
  BY <1>8, <1>16 DEF Overflow, jobVars
<1> QED
  BY <1>2, <1>3, <1>4, <1>5, <1>6, <1>7, <1>9, <1>10, <1>11, <1>12, <1>13, <1>14,
     <1>15, <1>16 DEF ThreadStep, TopEntropy

-----------------------------------------------------------------------------
(* The picture when the threads are done with it, and between pictures. *)

\* Nothing on the list, and no thread at work: every row is deblocked and every
\* macroblock is written.
LEMMA PicComplete ==
  ASSUME RowsTypeOK, NEW p, NEW q, NEW e, Pic(p, q, e), entq.jobs = <<>>, entq.closed
  PROVE  /\ deblocked = Row
         /\ Written(e) /\ (\A t \in Threads : pc[t] \notin EntropyPlaces) => strm = Raster
<1>1. /\ q \in Nat /\ e \in Nat /\ e <= q /\ q = Ht /\ entq.jobs = Run(e, q)
  BY DEF Pic, Lists
<1>2. e = Ht
  <2>1. Run(e, q) = <<>>
    BY <1>1
  <2> QED
    BY <1>1, <2>1, RunFacts
<1>3. deblocked = Row
  BY <1>1 DEF Pic, Deblocking, RowsTypeOK
<1>4. Prefix(Ht*Wd) = Raster
  BY DEF Prefix, Raster
<1> QED
  BY <1>2, <1>3, <1>4 DEF Written

\* A picture begins with every row on the process list and no thread inside.
LEMMA PicBegins ==
  ASSUME FillRows, entq' = EmptyFifo,
         \A t \in Threads : pc'[t] \notin RowPlaces \cup EntropyPlaces
  PROVE  Pic(0, 0, 0)' /\ Written(0)'
<1>1. Ht \in Nat /\ Ht > 0 /\ Wd \in Nat
  BY RowsAssumption
<1>2. Lists(0, 0, 0)'
  <2>1. [i \in 1..Ht |-> i-1] = Run(0, Ht) /\ <<>> = Run(0, 0)
    <3>1. [i \in 1..Ht |-> i-1] = Run(0, Ht)
      <4>1. Ht-0 = Ht /\ \A i \in 1..Ht : 0+i-1 = i-1
        BY <1>1
      <4> QED
        BY <4>1 DEF Run
    <3>2. <<>> = Run(0, 0)
      <4>1. 0 \in Nat
        OBVIOUS
      <4> QED
        BY <4>1, RunFacts
    <3> QED
      BY <3>1, <3>2
  <2>2. procq' = [jobs |-> Run(0, Ht), closed |-> TRUE]
    <3>1. procq' = [jobs |-> [i \in 1..Ht |-> i-1], closed |-> TRUE]
      BY DEF FillRows
    <3> QED
      BY <2>1, <3>1
  <2>3. entq'.jobs = Run(0, 0) /\ entq'.closed = FALSE
    BY <2>1 DEF EmptyFifo
  <2> QED
    BY <1>1, <2>2, <2>3 DEF Lists
<1>3. \A t \in Threads : Work(t, 0, 0)' /\ pc'[t] # "queue"
  BY DEF Work, RowPlaces
<1>4. OneEach'
  BY DEF OneEach
<1>5. Deblocking(0)'
  BY <1>1, <1>3 DEF Deblocking, FillRows, Row
<1>6. strm' = Prefix(0*Wd)
  <2>1. 0*Wd = 0
    BY <1>1
  <2>2. Prefix(0) = <<>>
    BY DEF Prefix
  <2> QED
    BY <2>1, <2>2 DEF FillRows
<1>7. Written(0)'
  BY <1>6 DEF Written, EntropyPlaces
<1> QED
  BY <1>2, <1>3, <1>4, <1>5, <1>7 DEF Pic

\* A step outside ih264e_process_thread that leaves the picture alone.
LEMMA PicStays ==
  ASSUME NEW p, NEW q, NEW e, Pic(p, q, e), UNCHANGED <<picVars, procq, entq, row, col>>,
         \A t \in Threads : \/ pc'[t] = pc[t]
                             \/ /\ pc[t] \notin RowPlaces \cup EntropyPlaces
                                /\ pc'[t] \notin RowPlaces \cup EntropyPlaces
  PROVE  Pic(p, q, e)' /\ (Written(e) => Written(e)')
<1> USE DEF picVars
<1>1. /\ \A t \in Threads : pc'[t] \in RowPlaces \/ pc[t] \in RowPlaces => pc'[t] = pc[t]
      /\ \A t \in Threads : pc'[t] \in EntropyPlaces \/ pc[t] \in EntropyPlaces
                              => pc'[t] = pc[t]
  OBVIOUS
<1>2. Lists(p, q, e)'
  BY DEF Pic, Lists
<1>3. \A t \in Threads : Work(t, p, q)'
  BY <1>1 DEF Pic, Work, RowPlaces
<1>4. OneEach'
  BY <1>1 DEF Pic, OneEach
<1>5. Deblocking(q)'
  <2>1. \A t \in Threads : pc'[t] = "queue" => pc[t] = "queue"
    BY <1>1 DEF RowPlaces
  <2> QED
    BY <2>1 DEF Pic, Deblocking
<1>6. Written(e) => Written(e)'
  BY <1>1 DEF Written, EntropyPlaces
<1> QED
  BY <1>2, <1>3, <1>4, <1>5, <1>6 DEF Pic

-----------------------------------------------------------------------------
(* The synchronisation of the pool. *)

Places == Inside \cup WorkerIdle \cup MainOutside \cup {"out"}

\* The inductive invariant.  That the count is right is only inductive together
\* with what i4_has_frame says of the workers: none is inside without a frame,
\* and there is no frame while Main is outside.  So Activate, which sets the
\* count to 0, meets no worker inside.
PoolInv ==
  /\ TypeOK
  /\ ~hasFrame => Busy = {}
  /\ pc[Main] \in MainOutside => ~hasFrame
  /\ WorkingCount
  /\ NoLostWakeup
  /\ created = {} => ~hasFrame
  /\ \A w \in Workers : w \notin created <=> pc[w] = "none"
  /\ ~initDone => created = {}
  /\ eos <=> pc[Main] = "join"

\* Where the threads are after one has gone to p and those of W were woken.
LEMMA WakeMoves ==
  ASSUME pc \in [Threads -> Places], NEW t \in Threads, NEW p,
         NEW W \in SUBSET Sleepers, WakeAndGoto(W, t, p)
  PROVE  /\ pc'[t] = p
         /\ \A u \in Threads : u # t /\ u \notin W => pc'[u] = pc[u]
         /\ \A u \in W : u # t => pc[u] = "sleep" /\ pc'[u] = Woken(u)
         /\ p \in Places => pc' \in [Threads -> Places]
<1> USE DEF WakeAndGoto, Sleepers
<1>1. \A u \in Threads : Woken(u) \in Places
  BY DEF Woken, Places, WorkerIdle
<1> QED
  BY <1>1

\* The pool's invariant holds before the first call.
LEMMA InitPoolInv == Init => PoolInv
<1> SUFFICES ASSUME Init PROVE PoolInv
  OBVIOUS
<1> USE RowsAssumption DEF Init, Threads
<1>1. RowsTypeOK
  <2> USE DEF RowsInit, RowsTypeOK
  <2>1. procq \in Fifo(Row) /\ entq \in Fifo(Row)
    BY DEF Fifo, EmptyFifo
  <2>2. row \in [Threads -> Row] /\ col \in [Threads -> Col]
    BY RowFacts
  <2>3. entActive \in BOOLEAN
    BY Zenon
  <2>4. /\ entMutex \in Threads \cup {NoThread}
        /\ meMap \in [Row -> SUBSET Col] /\ procMap \in [Row -> SUBSET Col]
        /\ deblkMap \subseteq Row /\ deblocked \subseteq Row
        /\ strm \in Seq(Row \X Col)
    OBVIOUS
  <2>5. blocking \in [Threads -> BOOLEAN] /\ err \in [Threads -> BOOLEAN]
    OBVIOUS
  <2> QED
    BY <2>1, <2>2, <2>3, <2>4, <2>5 DEF RowsTypeOK
<1>2. pc[Main] = "app" /\ \A w \in Workers : pc[w] = "none"
  OBVIOUS
<1>3. Busy = {}
  BY <1>2 DEF Busy, InProcess, Inside, RowPlaces, EntropyPlaces
<1>4. WorkingCount
  BY <1>3, FS_EmptySet DEF WorkingCount
<1>5. TypeOK
  <2>1. /\ hasFrame \in BOOLEAN /\ eos \in BOOLEAN
        /\ initDone \in BOOLEAN /\ fresh \in BOOLEAN
    BY Zenon
  <2>2. working \in Nat /\ created \subseteq Workers /\ frames \in 0..MaxFrames
    BY PoolAssumption, RowsAssumption
  <2>3. pc \in [Threads -> Inside \cup WorkerIdle \cup MainOutside \cup {"out"}]
    BY DEF WorkerIdle, MainOutside
  <2> QED
    BY <1>1, <1>2, <2>1, <2>2, <2>3 DEF TypeOK, MainOutside
<1> QED
  BY <1>2, <1>3, <1>4, <1>5 DEF PoolInv, NoLostWakeup

\* The parts of PoolInv that mention Busy follow when the same workers are inside.
LEMMA SameBusy ==
  ASSUME WorkingCount, working' = working,
         \A w \in Workers : InProcess(w)' <=> InProcess(w)
  PROVE  Busy' = Busy /\ WorkingCount'
BY DEF Busy, WorkingCount

\* A step that leaves the pool's own variables alone and moves a thread that is
\* inside ih264e_process_thread, within it or out of it.
LEMMA RowsKeepPoolInv ==
  ASSUME PoolInv, NEW t \in Threads, Rows(t)
  PROVE  PoolInv'
<1> USE DEF Rows, poolVars, Threads
<1>1. pc \in [Threads -> Places] /\ RowsTypeOK
  BY DEF PoolInv, TypeOK, Places
<1>2. RowsTypeOK'
  BY <1>1, RowsTypeStep
<1>3. PICK p \in Inside \cup {"out"} : pc' = [pc EXCEPT ![t] = p]
  BY <1>1, ThreadMoves
<1>4. pc[t] \in Inside
  BY <1>1, ThreadMoves
<1>5. \A u \in Threads : pc'[u] = (IF u = t THEN p ELSE pc[u])
  BY <1>1, <1>3
<1>6. /\ \A x \in {"none", "check", "exit", "sleep", "app", "activate", "post", "join"} :
           x \notin Inside \cup {"out"}
  BY DEF Inside, RowPlaces, EntropyPlaces
<1>7. TypeOK'
  <2>1. pc' \in [Threads -> Places]
    BY <1>1, <1>3 DEF Places
  <2>2. pc'[Main] \notin {"none", "check", "exit"}
    BY <1>5, <1>6 DEF PoolInv, TypeOK
  <2>3. \A w \in Workers : pc'[w] \notin MainOutside
    BY <1>5, <1>6 DEF PoolInv, TypeOK, MainOutside
  <2> QED
    BY <1>2, <2>1, <2>2, <2>3 DEF PoolInv, TypeOK, Places
<1>8. \A w \in Workers : InProcess(w)' <=> InProcess(w)
  BY <1>4, <1>5 DEF InProcess
<1>9. Busy' = Busy /\ WorkingCount'
  BY <1>8, SameBusy DEF PoolInv
<1>10. NoLostWakeup'
  BY <1>5, <1>6 DEF PoolInv, NoLostWakeup
<1>11. pc'[Main] \in MainOutside => pc[Main] \in MainOutside
  BY <1>5, <1>6 DEF MainOutside
<1>12. \A w \in Workers : pc'[w] = "none" <=> pc[w] = "none"
  BY <1>4, <1>5, <1>6
<1>13. pc'[Main] = "join" <=> pc[Main] = "join"
  BY <1>4, <1>5, <1>6
<1> QED
  BY <1>7, <1>9, <1>10, <1>11, <1>12, <1>13 DEF PoolInv

\* Where a thread is inside and where it is not.
LEMMA PlaceFacts ==
  /\ \A x \in WorkerIdle \cup MainOutside : x \notin Inside \cup {"out"}
  /\ "enter" \in Inside
BY DEF Inside, RowPlaces, EntropyPlaces, WorkerIdle, MainOutside

\* Creating the workers keeps it.
LEMMA PoolInitKeepsPoolInv ==
  ASSUME PoolInv, PoolInit
  PROVE  PoolInv'
<1> USE DEF Threads
<1>1. pc \in [Threads -> Places] /\ RowsTypeOK
  BY DEF PoolInv, TypeOK, Places
<1>2. RowsTypeOK'
  BY <1>1 DEF PoolInit, picVars, jobVars, RowsTypeOK
<1>3. Busy = {} /\ ~hasFrame /\ pc[Main] = "app"
  BY DEF PoolInv, PoolInit, MainOutside
<1>4. CASE initDone
  <2>1. TypeOK'
    BY <1>2, <1>4 DEF PoolInit, PoolInv, TypeOK
  <2>2. Busy' = Busy /\ WorkingCount'
    BY <1>4, SameBusy DEF PoolInit, PoolInv, InProcess
  <2> QED
    BY <1>4, <2>1, <2>2 DEF PoolInit, PoolInv, NoLostWakeup
<1>5. CASE ~initDone
  <2>1. created = {} /\ \A w \in Workers : pc[w] = "none"
    BY <1>5 DEF PoolInv
  <2>2. /\ created' \in SUBSET Workers
        /\ pc' = [t \in Threads |-> IF t \in created' THEN "check" ELSE pc[t]]
        /\ initDone' = TRUE /\ eos' = FALSE /\ working' = 0 /\ hasFrame' = FALSE
        /\ fresh' \in BOOLEAN /\ frames' = frames
    BY <1>5 DEF PoolInit
  <2>3. pc'[Main] = "app"
    BY <1>3, <2>2, RowsAssumption
  <2>4. \A w \in Workers : pc'[w] = IF w \in created' THEN "check" ELSE "none"
    BY <2>1, <2>2
  <2>5. Busy' = {}
    BY <2>4, PlaceFacts DEF Busy, InProcess, WorkerIdle
  <2>6. WorkingCount'
    BY <2>2, <2>5, FS_EmptySet DEF WorkingCount
  <2>7. TypeOK'
    <3>1. pc' \in [Threads -> Places]
      BY <1>1, <2>2 DEF Places, WorkerIdle
    <3>2. initDone' \in BOOLEAN /\ eos' \in BOOLEAN /\ hasFrame' \in BOOLEAN
      BY <2>2, Zenon
    <3>3. frames' \in 0..MaxFrames
      BY <2>2 DEF PoolInv, TypeOK
    <3>4. \A w \in Workers : pc'[w] \notin MainOutside
      BY <2>4 DEF MainOutside
    <3> QED
      BY <1>2, <2>2, <2>3, <3>1, <3>2, <3>3, <3>4 DEF TypeOK, Places
  <2> QED
    BY <2>2, <2>3, <2>4, <2>5, <2>6, <2>7 DEF PoolInv, NoLostWakeup
<1> QED
  BY <1>4, <1>5

\* Preparing a picture keeps it: nobody is inside.
LEMMA BeginFrameKeepsPoolInv ==
  ASSUME PoolInv, BeginFrame
  PROVE  PoolInv'
<1> USE DEF Threads
<1>1. pc \in [Threads -> Places] /\ RowsTypeOK
  BY DEF PoolInv, TypeOK, Places
<1>2. RowsTypeOK'
  <2> USE DEF BeginFrame, FillRows
  <2>1. procq' \in Fifo(Row)
    <3>1. [i \in 1..Ht |-> i - 1] \in Seq(Row)
      BY RowsAssumption DEF Row
    <3> QED
      BY <3>1 DEF Fifo
  <2>2. meMap' \in [Row -> SUBSET Col] /\ procMap' \in [Row -> SUBSET Col]
    OBVIOUS
  <2>3. strm' \in Seq(Row \X Col)
    OBVIOUS
  <2>4. err' \in [Threads -> BOOLEAN]
    OBVIOUS
  <2> QED
    BY <1>1, <2>1, <2>2, <2>3, <2>4 DEF RowsTypeOK
<1>3. ~hasFrame /\ pc[Main] = "app" /\ ~eos
  BY DEF PoolInv, BeginFrame, MainOutside
<1>4. /\ pc'[Main] = "activate" /\ pc' \in [Threads -> Places]
      /\ \A w \in Workers : pc'[w] = pc[w]
  BY <1>1, GotoMoves, RowsAssumption DEF BeginFrame, Places, MainOutside
<1>5. Busy' = Busy /\ WorkingCount'
  BY <1>4, SameBusy DEF BeginFrame, PoolInv, InProcess
<1>6. TypeOK'
  <2>1. frames' \in 0..MaxFrames
    BY RowsAssumption DEF BeginFrame, PoolInv, TypeOK
  <2> QED
    BY <1>2, <1>4, <2>1 DEF BeginFrame, PoolInv, TypeOK, Places
<1> QED
  BY <1>3, <1>4, <1>5, <1>6 DEF BeginFrame, PoolInv, NoLostWakeup

\* The count is set to 0 while nobody is inside.
LEMMA ActivateKeepsPoolInv ==
  ASSUME PoolInv, Activate
  PROVE  PoolInv'
<1> USE DEF Threads
<1>1. pc \in [Threads -> Places] /\ RowsTypeOK
  BY DEF PoolInv, TypeOK, Places
<1>2. RowsTypeOK'
  BY <1>1 DEF Activate, picVars, jobVars, RowsTypeOK
<1>3. ~hasFrame /\ Busy = {} /\ pc[Main] = "activate" /\ ~eos
  BY DEF PoolInv, Activate, MainOutside
<1>4. "enter" \in Places
  BY PlaceFacts DEF Places
<1>5. CASE created = {}
  <2>1. /\ pc'[Main] = "enter" /\ pc' \in [Threads -> Places]
        /\ \A w \in Workers : pc'[w] = pc[w]
    BY <1>1, <1>4, <1>5, GotoMoves, RowsAssumption DEF Activate
  <2>2. Busy' = Busy /\ WorkingCount'
    BY <1>5, <2>1, SameBusy DEF Activate, PoolInv, InProcess
  <2>3. TypeOK'
    BY <1>2, <1>5, <2>1 DEF Activate, PoolInv, TypeOK, Places
  <2> QED
    BY <1>3, <1>5, <2>1, <2>2, <2>3, PlaceFacts
       DEF Activate, PoolInv, NoLostWakeup, MainOutside
<1>6. CASE created # {}
  <2>1. WakeAndGoto(Sleepers, Main, "enter") /\ hasFrame' = TRUE /\ working' = 0
    BY <1>6 DEF Activate
  <2>2. /\ pc'[Main] = "enter" /\ pc' \in [Threads -> Places]
        /\ \A w \in Workers : \/ pc'[w] = pc[w] /\ pc[w] # "sleep"
                              \/ pc[w] = "sleep" /\ pc'[w] = "check"
    <3>1. Sleepers \in SUBSET Sleepers /\ Main \in Threads
      OBVIOUS
    <3>2. /\ pc'[Main] = "enter" /\ pc' \in [Threads -> Places]
          /\ \A u \in Threads : u # Main /\ u \notin Sleepers => pc'[u] = pc[u]
          /\ \A u \in Sleepers : u # Main => pc[u] = "sleep" /\ pc'[u] = Woken(u)
      BY <1>1, <1>4, <2>1, <3>1, WakeMoves
    <3> QED
      BY <3>2, RowsAssumption DEF Woken, Sleepers
  <2>3. Busy' = {}
    BY <1>3, <2>2, PlaceFacts DEF Busy, InProcess, WorkerIdle
  <2>4. WorkingCount'
    BY <2>1, <2>3, FS_EmptySet DEF WorkingCount
  <2>5. TypeOK'
    <3>1. hasFrame' \in BOOLEAN
      BY <2>1, Zenon
    <3>2. \A w \in Workers : pc'[w] \notin MainOutside
      BY <2>2 DEF PoolInv, TypeOK, MainOutside
    <3> QED
      BY <1>2, <2>1, <2>2, <3>1, <3>2 DEF Activate, PoolInv, TypeOK, Places
  <2>6. NoLostWakeup'
    BY <2>1, <2>2 DEF NoLostWakeup
  <2>7. \A w \in Workers : pc'[w] = "none" <=> pc[w] = "none"
    BY <2>2
  <2>8. UNCHANGED <<eos, created, initDone>>
    BY DEF Activate
  <2> QED
    BY <1>3, <1>6, <2>1, <2>2, <2>3, <2>4, <2>5, <2>6, <2>7, <2>8
       DEF PoolInv, MainOutside
<1> QED
  BY <1>5, <1>6

\* Synchronising with the workers and ending the frame keep it.
LEMMA SyncKeepsPoolInv ==
  ASSUME PoolInv, Sync \/ EndFrame
  PROVE  PoolInv'
<1> USE DEF Threads
<1>1. pc \in [Threads -> Places] /\ RowsTypeOK
  BY DEF PoolInv, TypeOK, Places
<1>2. CASE Sync
  <2> USE DEF Sync, picVars, jobVars, poolVars
  <2>1. RowsTypeOK'
    BY <1>1, <1>2 DEF RowsTypeOK
  <2>2. PICK p \in {"sleep", "post"} :
          Goto(Main, p) /\ (p = "sleep" => hasFrame) /\ (p = "post" => ~hasFrame)
    BY <1>2 DEF PoolInv
  <2>3. /\ pc'[Main] = p /\ pc' \in [Threads -> Places]
        /\ \A w \in Workers : pc'[w] = pc[w]
    BY <1>1, <2>2, GotoMoves, RowsAssumption DEF Places, MainOutside, WorkerIdle
  <2>4. Busy' = Busy /\ WorkingCount'
    BY <1>2, <2>3, SameBusy DEF PoolInv, InProcess
  <2>5. TypeOK'
    BY <1>2, <2>1, <2>3 DEF PoolInv, TypeOK, Places
  <2> QED
    BY <1>2, <2>2, <2>3, <2>4, <2>5 DEF PoolInv, NoLostWakeup, MainOutside
<1>3. CASE EndFrame
  <2> USE DEF EndFrame, picVars, poolVars
  <2>1. RowsTypeOK'
    BY <1>1, <1>3, FifoTypes DEF RowsTypeOK, ResetLists
  <2>2. /\ pc[Main] = "post" /\ pc'[Main] = "app" /\ pc' \in [Threads -> Places]
        /\ \A w \in Workers : pc'[w] = pc[w]
    BY <1>1, <1>3, GotoMoves, RowsAssumption DEF Places, MainOutside
  <2>3. Busy' = Busy /\ WorkingCount'
    BY <1>3, <2>2, SameBusy DEF PoolInv, InProcess
  <2>4. TypeOK'
    BY <1>3, <2>1, <2>2 DEF PoolInv, TypeOK, Places
  <2> QED
    BY <1>3, <2>2, <2>3, <2>4 DEF PoolInv, NoLostWakeup, MainOutside
<1> QED
  BY <1>2, <1>3

\* Waking the workers to leave keeps it.
LEMMA ShutdownKeepsPoolInv ==
  ASSUME PoolInv, Shutdown
  PROVE  PoolInv'
<1> USE DEF Threads
<1>1. pc \in [Threads -> Places] /\ RowsTypeOK
  BY DEF PoolInv, TypeOK, Places
<1>2. RowsTypeOK'
  BY <1>1 DEF Shutdown, picVars, jobVars, RowsTypeOK
<1>3. ~hasFrame /\ pc[Main] = "app"
  BY DEF PoolInv, Shutdown, MainOutside
<1>4. /\ pc'[Main] = "join" /\ pc' \in [Threads -> Places]
      /\ \A w \in Workers : \/ pc'[w] = pc[w] /\ pc[w] # "sleep"
                            \/ pc[w] = "sleep" /\ pc'[w] = "check"
  <2>1. /\ WakeAndGoto(Sleepers, Main, "join") /\ Sleepers \in SUBSET Sleepers
        /\ Main \in Threads /\ "join" \in Places
    BY DEF Shutdown, Places, MainOutside
  <2>2. /\ pc'[Main] = "join" /\ pc' \in [Threads -> Places]
        /\ \A u \in Threads : u # Main /\ u \notin Sleepers => pc'[u] = pc[u]
        /\ \A u \in Sleepers : u # Main => pc[u] = "sleep" /\ pc'[u] = Woken(u)
    BY <1>1, <2>1, WakeMoves
  <2> QED
    BY <2>2, RowsAssumption DEF Woken, Sleepers
<1>5. Busy' = Busy /\ WorkingCount'
  BY <1>4, SameBusy, PlaceFacts DEF Shutdown, PoolInv, InProcess, WorkerIdle
<1>6. UNCHANGED <<hasFrame, working, created, initDone, fresh, frames>> /\ eos' = TRUE
  BY DEF Shutdown
<1>7. TypeOK'
  <2>1. eos' \in BOOLEAN
    BY <1>6, Zenon
  <2>2. \A w \in Workers : pc'[w] \notin MainOutside
    BY <1>4 DEF PoolInv, TypeOK, MainOutside
  <2> QED
    BY <1>2, <1>4, <1>6, <2>1, <2>2 DEF PoolInv, TypeOK, Places
<1>8. NoLostWakeup'
  BY <1>4 DEF NoLostWakeup
<1>9. \A w \in Workers : pc'[w] = "none" <=> pc[w] = "none"
  BY <1>4
<1> QED
  BY <1>3, <1>4, <1>5, <1>6, <1>7, <1>8, <1>9 DEF PoolInv

\* Joining them keeps it: all have left.
LEMMA JoinKeepsPoolInv ==
  ASSUME PoolInv, Join
  PROVE  PoolInv'
<1> USE DEF Threads
<1>1. RowsTypeOK'
  <2>1. RowsTypeOK
    BY DEF PoolInv, TypeOK
  <2>2. entActive' \in BOOLEAN
    <3>1. entActive' = entActive \/ entActive' = FALSE
      BY DEF Join
    <3>2. FALSE \in BOOLEAN
      BY Zenon
    <3> QED
      BY <2>1, <3>1, <3>2, Zenon DEF RowsTypeOK
  <2>3. procq' \in Fifo(Row) /\ entq' \in Fifo(Row)
    BY <2>1, FifoTypes DEF Join, ResetLists, RowsTypeOK
  <2> QED
    BY <2>1, <2>2, <2>3 DEF Join, picVars, RowsTypeOK
<1>2. /\ pc' = [t \in Threads |-> IF t = Main THEN "app" ELSE "none"]
      /\ created' = {} /\ initDone' = FALSE /\ eos' = FALSE
      /\ working' = 0 /\ hasFrame' = FALSE
      /\ fresh' = fresh \/ fresh' = TRUE
      /\ frames' = frames
  BY DEF Join
<1>3. pc'[Main] = "app" /\ \A w \in Workers : pc'[w] = "none"
  BY <1>2, RowsAssumption
<1>4. Busy' = {}
  BY <1>3, PlaceFacts DEF Busy, InProcess, WorkerIdle
<1>5. WorkingCount'
  BY <1>2, <1>4, FS_EmptySet DEF WorkingCount
<1>6. TypeOK'
  <2>1. /\ initDone' \in BOOLEAN /\ eos' \in BOOLEAN /\ hasFrame' \in BOOLEAN
    BY <1>2, Zenon
  <2>2. fresh' \in BOOLEAN
    <3>1. TRUE \in BOOLEAN
      BY Zenon
    <3> QED
      BY <1>2, <3>1, Zenon DEF PoolInv, TypeOK
  <2>3. working' \in Nat /\ created' \subseteq Workers /\ frames' \in 0..MaxFrames
    BY <1>2 DEF PoolInv, TypeOK
  <2>4. pc' \in [Threads -> Inside \cup WorkerIdle \cup MainOutside \cup {"out"}]
    BY <1>2 DEF WorkerIdle, MainOutside
  <2> QED
    BY <1>1, <1>3, <2>1, <2>2, <2>3, <2>4 DEF TypeOK, MainOutside
<1> QED
  BY <1>2, <1>3, <1>4, <1>5, <1>6 DEF PoolInv, NoLostWakeup

\* A worker that enters is one more inside; it enters only a frame.
LEMMA WorkerCheckKeepsPoolInv ==
  ASSUME PoolInv, NEW w \in Workers, WorkerCheck(w)
  PROVE  PoolInv'
<1> USE DEF Threads
<1>1. pc \in [Threads -> Places] /\ RowsTypeOK
  BY DEF PoolInv, TypeOK, Places
<1>2. RowsTypeOK'
  BY <1>1 DEF WorkerCheck, picVars, jobVars, RowsTypeOK
<1>3. w # Main /\ pc[w] = "check" /\ UNCHANGED <<hasFrame, eos, created, initDone, fresh, frames>>
  BY RowsAssumption DEF WorkerCheck
<1>4. PICK p \in {"sleep", "exit", "enter"} :
        /\ Goto(w, p)
        /\ p = "sleep" => ~hasFrame /\ ~eos
        /\ p = "enter" => hasFrame /\ working' = working + 1
        /\ p # "enter" => working' = working
  BY DEF WorkerCheck
<1>5. /\ pc'[w] = p /\ pc' \in [Threads -> Places]
      /\ \A u \in Threads : u # w => pc'[u] = pc[u]
  <2>1. p \in Places
    BY PlaceFacts DEF Places, WorkerIdle
  <2> QED
    BY <1>1, <1>4, <2>1, GotoMoves
<1>6. w \notin Busy /\ IsFiniteSet(Busy)
  <2>1. Busy \subseteq Workers
    BY DEF Busy
  <2> QED
    BY <1>3, <2>1, PlaceFacts, PoolAssumption, FS_Subset
       DEF Busy, InProcess, WorkerIdle
<1>7. Busy' = IF p = "enter" THEN Busy \cup {w} ELSE Busy
  <2>1. "enter" \in Inside /\ p # "enter" => p \notin Inside \cup {"out"}
    BY PlaceFacts DEF WorkerIdle
  <2> QED
    BY <1>5, <1>6, <2>1, PlaceFacts DEF Busy, InProcess
<1>8. WorkingCount'
  BY <1>4, <1>6, <1>7, FS_AddElement DEF PoolInv, WorkingCount
<1>9. working' \in Nat
  BY <1>4 DEF PoolInv, TypeOK
<1>10. pc'[Main] = pc[Main]
  BY <1>3, <1>5
<1>11. TypeOK'
  BY <1>2, <1>3, <1>5, <1>9, <1>10 DEF PoolInv, TypeOK, Places, MainOutside
<1>12. NoLostWakeup'
  BY <1>3, <1>4, <1>5, <1>10 DEF PoolInv, NoLostWakeup
<1>13. \A x \in Workers : pc'[x] = "none" <=> pc[x] = "none"
  BY <1>3, <1>5
<1> QED
  BY <1>3, <1>4, <1>7, <1>8, <1>10, <1>11, <1>12, <1>13 DEF PoolInv

\* While a worker is inside no worker sleeps, so the thread the last one wakes is
\* Main, if it sleeps.
LEMMA WorkerDoneKeepsPoolInv ==
  ASSUME PoolInv, NEW w \in Workers, WorkerDone(w)
  PROVE  PoolInv'
<1> USE DEF Threads
<1>1. pc \in [Threads -> Places] /\ RowsTypeOK
  BY DEF PoolInv, TypeOK, Places
<1>2. RowsTypeOK'
  BY <1>1 DEF WorkerDone, picVars, jobVars, RowsTypeOK
<1>3. /\ w # Main /\ pc[w] = "out" /\ working' = working - 1
      /\ UNCHANGED <<eos, created, initDone, fresh, frames>>
  BY RowsAssumption DEF WorkerDone
<1>4. w \in Busy /\ IsFiniteSet(Busy) /\ hasFrame
  <2>1. Busy \subseteq Workers /\ w \in Busy
    BY <1>3 DEF Busy, InProcess
  <2> QED
    BY <2>1, PoolAssumption, FS_Subset DEF PoolInv
<1>5. Sleepers \subseteq {Main}
  BY <1>4 DEF PoolInv, NoLostWakeup, Sleepers
<1>6. pc[Main] \notin MainOutside
  BY <1>4 DEF PoolInv
<1>7. /\ pc' \in [Threads -> Places] /\ pc'[w] = "check"
      /\ \A u \in Workers : u # w => pc'[u] = pc[u]
      /\ \/ hasFrame' = hasFrame /\ pc'[Main] = pc[Main]
         \/ /\ hasFrame' = FALSE /\ working' = 0
            /\ pc'[Main] \in {pc[Main], "out"} /\ pc'[Main] # "sleep"
  <2>1. "check" \in Places
    BY DEF Places, WorkerIdle
  <2>2. CASE Goto(w, "check") /\ UNCHANGED hasFrame
    BY <1>1, <1>3, <2>1, <2>2, GotoMoves
  <2>3. CASE Goto(w, "check") /\ Sleepers = {} /\ hasFrame' = FALSE /\ working' = 0
    BY <1>1, <1>3, <2>1, <2>3, GotoMoves DEF Sleepers
  <2>4. ASSUME NEW t \in Sleepers, WakeAndGoto({t}, w, "check"),
               hasFrame' = FALSE, working' = 0
        PROVE  /\ pc' \in [Threads -> Places] /\ pc'[w] = "check"
               /\ \A u \in Workers : u # w => pc'[u] = pc[u]
               /\ pc'[Main] = "out"
    <3>1. t = Main /\ {t} \in SUBSET Sleepers
      BY <1>5
    <3> QED
      BY <1>1, <1>3, <2>1, <2>4, <3>1, WakeMoves, RowsAssumption DEF Woken
  <2> QED
    BY <2>2, <2>3, <2>4 DEF WorkerDone
<1>8. Busy' = Busy \ {w}
  BY <1>7, PlaceFacts DEF Busy, InProcess, WorkerIdle
<1>9. WorkingCount' /\ working' \in Nat
  <2>1. Cardinality(Busy \ {w}) = Cardinality(Busy) - 1 /\ IsFiniteSet(Busy \ {w})
    BY <1>4, FS_RemoveElement
  <2>2. Cardinality(Busy \ {w}) \in Nat
    BY <2>1, FS_CardinalityType
  <2> QED
    BY <1>3, <1>8, <2>1, <2>2 DEF PoolInv, WorkingCount
<1>10. ~hasFrame' => Busy' = {}
  <2>1. SUFFICES ASSUME ~hasFrame' PROVE Busy' = {}
    OBVIOUS
  <2>2. Cardinality(Busy') = 0
    BY <1>4, <1>7, <1>9, <2>1 DEF WorkingCount
  <2>3. IsFiniteSet(Busy')
    BY <1>4, <1>8, FS_RemoveElement
  <2> QED
    BY <2>2, <2>3, FS_EmptySet
<1>11. pc'[Main] \notin MainOutside /\ pc'[Main] \notin {"none", "check", "exit"}
  BY <1>6, <1>7 DEF PoolInv, TypeOK, MainOutside
<1>12. TypeOK'
  <2>1. hasFrame' \in BOOLEAN
    <3>1. FALSE \in BOOLEAN
      BY Zenon
    <3>2. hasFrame' = hasFrame \/ hasFrame' = FALSE
      BY <1>7
    <3> QED
      BY <3>1, <3>2, Zenon DEF PoolInv, TypeOK
  <2>2. \A u \in Workers : pc'[u] \notin MainOutside
    BY <1>7 DEF PoolInv, TypeOK, MainOutside
  <2> QED
    BY <1>2, <1>3, <1>7, <1>9, <1>11, <2>1, <2>2 DEF PoolInv, TypeOK, Places
<1>13. NoLostWakeup'
  BY <1>3, <1>4, <1>7 DEF PoolInv, NoLostWakeup
<1>14. created # {}
  BY <1>3 DEF PoolInv
<1>15. \A x \in Workers : pc'[x] = "none" <=> pc[x] = "none"
  BY <1>3, <1>7
<1>16. pc'[Main] = "join" <=> pc[Main] = "join"
  BY <1>6, <1>11 DEF MainOutside
<1> QED
  BY <1>3, <1>9, <1>10, <1>11, <1>12, <1>13, <1>14, <1>15, <1>16 DEF PoolInv

\* A wakeup without a signal keeps it: the condition is looked at again.
LEMMA SpuriousKeepsPoolInv ==
  ASSUME PoolInv, NEW t \in Threads, SpuriousWakeup(t)
  PROVE  PoolInv'
<1> USE DEF SpuriousWakeup, poolVars
<1>1. pc \in [Threads -> Places] /\ RowsTypeOK
  BY DEF PoolInv, TypeOK, Places
<1>2. RowsTypeOK'
  BY <1>1 DEF picVars, jobVars, RowsTypeOK
<1>3. /\ pc[t] = "sleep" /\ pc'[t] = Woken(t) /\ pc' \in [Threads -> Places]
      /\ \A u \in Threads : u # t => pc'[u] = pc[u]
  BY <1>1, GotoMoves DEF Woken, Places, WorkerIdle
<1>4. Woken(t) = IF t = Main THEN "out" ELSE "check"
  BY DEF Woken
<1>5. \A w \in Workers : InProcess(w)' <=> InProcess(w)
  BY <1>3, <1>4, PlaceFacts, RowsAssumption DEF InProcess, WorkerIdle, Threads
<1>6. Busy' = Busy /\ WorkingCount'
  BY <1>5, SameBusy DEF PoolInv
<1>7. TypeOK'
  <2>1. Main \in Threads /\ Workers \subseteq Threads /\ Main \notin Workers
    BY RowsAssumption DEF Threads
  <2>2. pc'[Main] \notin {"none", "check", "exit"}
    BY <1>3, <1>4, <2>1 DEF PoolInv, TypeOK
  <2>3. \A w \in Workers : pc'[w] \notin MainOutside
    BY <1>3, <1>4, <2>1 DEF PoolInv, TypeOK, MainOutside
  <2> QED
    BY <1>2, <1>3, <2>2, <2>3 DEF PoolInv, TypeOK, Places
<1>8. NoLostWakeup'
  BY <1>3, <1>4 DEF PoolInv, NoLostWakeup, Threads
<1>9. \A w \in Workers : pc'[w] = "none" <=> pc[w] = "none"
  BY <1>3, <1>4 DEF Threads
<1>10. /\ pc'[Main] \in MainOutside <=> pc[Main] \in MainOutside
       /\ pc'[Main] = "join" <=> pc[Main] = "join"
  BY <1>3, <1>4 DEF Threads, MainOutside
<1> QED
  BY <1>6, <1>7, <1>8, <1>9, <1>10 DEF PoolInv

\* A step of the pool leaves its invariant true.
LEMMA NextPoolInv == PoolInv /\ [Next]_vars => PoolInv'
<1> SUFFICES ASSUME PoolInv, [Next]_vars PROVE PoolInv'
  OBVIOUS
<1>1. CASE PoolInit \/ BeginFrame \/ Shutdown
  BY <1>1, PoolInitKeepsPoolInv, BeginFrameKeepsPoolInv, ShutdownKeepsPoolInv
<1>2. CASE MainStep
  <2>1. Main \in Threads
    BY DEF Threads
  <2> QED
    BY <1>2, <2>1, RowsKeepPoolInv, ActivateKeepsPoolInv, SyncKeepsPoolInv,
       JoinKeepsPoolInv DEF MainStep
<1>3. ASSUME NEW w \in Workers, WorkerStep(w) PROVE PoolInv'
  <2>1. w \in Threads
    BY DEF Threads
  <2> QED
    BY <1>3, <2>1, RowsKeepPoolInv, WorkerCheckKeepsPoolInv,
       WorkerDoneKeepsPoolInv DEF WorkerStep
<1>4. ASSUME NEW t \in Threads, SpuriousWakeup(t) PROVE PoolInv'
  BY <1>4, SpuriousKeepsPoolInv
<1>5. CASE UNCHANGED vars
  BY <1>5 DEF vars, rowsVars, picVars, jobVars, thrVars, poolVars, PoolInv,
     TypeOK, RowsTypeOK, WorkingCount, NoLostWakeup, Busy, InProcess
<1> QED
  BY <1>1, <1>2, <1>3, <1>4, <1>5 DEF Next

\* The pool is safe for any number of workers: when the application thread
\* prepares a picture, resets the lists or has returned from the encoder, no
\* worker is inside ih264e_process_thread, and the count of the workers inside is
\* exact (ih264e_thread_pool_sync, ih264e_thread_worker).
THEOREM PoolSafe == Spec => [](TypeOK /\ Quiescent /\ WorkingCount)
<1>1. PoolInv => TypeOK /\ Quiescent /\ WorkingCount
  BY DEF PoolInv, Quiescent
<1> QED
  BY <1>1, InitPoolInv, NextPoolInv, PTL DEF Spec

\* Nobody sleeps through the event it waits for, however often threads are woken
\* for nothing: the application thread sleeps only while a frame is in work, and no
\* worker sleeps while there is a frame or it is told to end
\* (ih264e_thread_pool_activate, ih264e_thread_worker).
THEOREM WakeupsSeen == Spec => []NoLostWakeup
<1>1. PoolInv => NoLostWakeup
  BY DEF PoolInv
<1> QED
  BY <1>1, InitPoolInv, NextPoolInv, PTL DEF Spec

-----------------------------------------------------------------------------
(* The bitstream. *)

\* Outside ih264e_process_thread nobody entropy codes or waits for a job.
LEMMA EntPlaceFacts ==
  \A x \in WorkerIdle \cup MainOutside \cup {"enter", "out"} :
    x # "wait" /\ x \notin EntropyPlaces
BY DEF WorkerIdle, MainOutside, EntropyPlaces

\* The steps of the pool move no thread to or from those places.
LEMMA PoolStepsKeepEntInv ==
  ASSUME PoolInv, EntInv,
         NEW t \in Threads, NEW p \in WorkerIdle \cup MainOutside \cup {"enter", "out"},
         pc[t] \in WorkerIdle \cup MainOutside \cup {"enter", "out"},
         \/ Goto(t, p)
         \/ \E W \in SUBSET Sleepers : WakeAndGoto(W, t, p),
         UNCHANGED <<entMutex, entActive>>
  PROVE  EntInv'
<1>1. pc \in [Threads -> Places]
  BY DEF PoolInv, TypeOK, Places
<1>2. pc'[t] = p
  BY <1>1, GotoMoves, WakeMoves
<1>3. ASSUME NEW u \in Threads, u # t
      PROVE  pc'[u] = pc[u] \/ (pc[u] = "sleep" /\ pc'[u] = Woken(u))
  <2>1. CASE Goto(t, p)
    BY <1>1, <1>3, <2>1, GotoMoves
  <2>2. ASSUME NEW W \in SUBSET Sleepers, WakeAndGoto(W, t, p)
        PROVE  pc'[u] = pc[u] \/ (pc[u] = "sleep" /\ pc'[u] = Woken(u))
    BY <1>1, <1>3, <2>2, WakeMoves
  <2> QED
    BY <2>1, <2>2
<1>4. \A u \in Threads : Woken(u) \in WorkerIdle \cup MainOutside \cup {"enter", "out"}
  BY DEF Woken, WorkerIdle
<1>5. "sleep" \in WorkerIdle
  BY DEF WorkerIdle
<1>6. \A u \in Threads : /\ pc'[u] = "wait" <=> pc[u] = "wait"
                         /\ pc'[u] \in EntropyPlaces <=> pc[u] \in EntropyPlaces
  BY <1>2, <1>3, <1>4, <1>5, EntPlaceFacts
<1> QED
  BY <1>6, SamePlacesKeepEntInv

\* Every step keeps the mutex, the flag and the one entropy coder in agreement.
LEMMA NextEntInv == PoolInv /\ EntInv /\ [Next]_vars => EntInv'
<1> SUFFICES ASSUME PoolInv, EntInv, [Next]_vars PROVE EntInv'
  OBVIOUS
<1> DEFINE Away == WorkerIdle \cup MainOutside \cup {"enter", "out"}
<1>1. Main \in Threads /\ Workers \subseteq Threads /\ Main \notin Workers
  BY RowsAssumption DEF Threads
<1>2. pc \in [Threads -> Places]
  BY DEF PoolInv, TypeOK, Places
<1>3. /\ {"app", "activate", "post", "join", "sleep", "check", "exit", "enter", "out"}
           \subseteq Away
      /\ \A u \in Threads : Woken(u) \in Away
  BY DEF WorkerIdle, MainOutside, Woken
<1>4. CASE PoolInit
  <2>1. UNCHANGED <<entMutex, entActive>>
    BY <1>4 DEF PoolInit, jobVars
  <2>2. \A u \in Threads : \/ pc'[u] = pc[u]
                           \/ pc[u] = "none" /\ pc'[u] = "check"
    BY <1>2, <1>4 DEF PoolInit, PoolInv, Threads
  <2>3. "none" \in Away /\ "check" \in Away
    BY DEF WorkerIdle
  <2>4. \A u \in Threads : /\ pc'[u] = "wait" <=> pc[u] = "wait"
                           /\ pc'[u] \in EntropyPlaces <=> pc[u] \in EntropyPlaces
    BY <2>2, <2>3, EntPlaceFacts
  <2> QED
    BY <2>1, <2>4, SamePlacesKeepEntInv
<1>5. CASE BeginFrame
  <2>1. UNCHANGED <<entMutex, entActive>> /\ Goto(Main, "activate") /\ pc[Main] = "app"
    BY <1>5 DEF BeginFrame
  <2> QED
    BY <1>1, <1>3, <2>1, PoolStepsKeepEntInv
<1>6. CASE Shutdown
  <2>1. /\ UNCHANGED <<entMutex, entActive>> /\ pc[Main] = "app"
        /\ WakeAndGoto(Sleepers, Main, "join")
    BY <1>6 DEF Shutdown, jobVars
  <2> QED
    BY <1>1, <1>3, <2>1, PoolStepsKeepEntInv
<1>7. CASE Activate
  <2>1. /\ UNCHANGED <<entMutex, entActive>> /\ pc[Main] = "activate"
        /\ Goto(Main, "enter") \/ WakeAndGoto(Sleepers, Main, "enter")
    BY <1>7 DEF Activate, jobVars
  <2> QED
    BY <1>1, <1>3, <2>1, PoolStepsKeepEntInv
<1>8. CASE Sync \/ EndFrame
  <2>1. PICK p \in {"sleep", "post", "app"} :
          /\ UNCHANGED <<entMutex, entActive>> /\ pc[Main] \in {"out", "post"}
          /\ Goto(Main, p)
    BY <1>8 DEF Sync, EndFrame, jobVars
  <2> QED
    BY <1>1, <1>3, <2>1, PoolStepsKeepEntInv
\* Nobody is inside when the workers are joined, so the flag may be reset.
<1>9. CASE Join
  <2>1. Busy = {} /\ pc[Main] = "join"
    BY <1>9 DEF Join, PoolInv, MainOutside
  <2>2. \A u \in Threads : pc[u] \notin Inside
    BY <1>1, <2>1, PlaceFacts DEF Busy, InProcess, Threads, MainOutside
  <2>3. \A u \in Threads : pc[u] # "wait" /\ pc[u] \notin EntropyPlaces
    BY <2>2 DEF Inside
  <2>4. \A u \in Threads : pc'[u] # "wait" /\ pc'[u] \notin EntropyPlaces
    BY <1>9 DEF Join, EntropyPlaces
  <2>5. entMutex' = entMutex /\ (entActive' = entActive \/ entActive' = FALSE)
    BY <1>9 DEF Join
  <2> QED
    BY <2>3, <2>4, <2>5, SamePlacesKeepEntInv
<1>10. ASSUME NEW w \in Workers, WorkerCheck(w) PROVE EntInv'
  <2>1. PICK p \in {"sleep", "exit", "enter"} :
          /\ UNCHANGED <<entMutex, entActive>> /\ pc[w] = "check"
          /\ Goto(w, p)
    BY <1>10 DEF WorkerCheck, jobVars
  <2> QED
    BY <1>1, <1>3, <2>1, PoolStepsKeepEntInv
<1>11. ASSUME NEW w \in Workers, WorkerDone(w) PROVE EntInv'
  <2>1. UNCHANGED <<entMutex, entActive>> /\ pc[w] = "out"
    BY <1>11 DEF WorkerDone, jobVars
  <2>2. \/ Goto(w, "check")
        \/ \E W \in SUBSET Sleepers : WakeAndGoto(W, w, "check")
    BY <1>11 DEF WorkerDone
  <2> QED
    BY <1>1, <1>3, <2>1, <2>2, PoolStepsKeepEntInv
<1>12. ASSUME NEW t \in Threads, SpuriousWakeup(t) PROVE EntInv'
  <2>1. UNCHANGED <<entMutex, entActive>> /\ pc[t] = "sleep" /\ Goto(t, Woken(t))
    BY <1>12 DEF SpuriousWakeup, jobVars
  <2> QED
    BY <1>3, <2>1, PoolStepsKeepEntInv
<1>13. ASSUME NEW t \in Threads, Rows(t) PROVE EntInv'
  BY <1>2, <1>13, RowsKeepEntInv DEF Rows
<1>14. CASE UNCHANGED vars
  BY <1>14 DEF vars, rowsVars, jobVars, thrVars, EntInv, EntropyExclusive
<1> QED
  BY <1>1, <1>4, <1>5, <1>6, <1>7, <1>8, <1>9, <1>10, <1>11, <1>12, <1>13, <1>14
     DEF Next, MainStep, WorkerStep

\* Before the first call nobody entropy codes.
LEMMA InitEntInv == Init => EntInv
<1> SUFFICES ASSUME Init PROVE EntInv
  OBVIOUS
<1>1. \A t \in Threads : pc[t] \in {"app", "none"}
  BY DEF Init
<1>2. entMutex = NoThread /\ NoThread \notin Threads
  BY RowsAssumption DEF Init, RowsInit, Threads
<1> QED
  BY <1>1, <1>2 DEF EntInv, EntropyExclusive, EntropyPlaces

\* At most one thread writes the bitstream at any time, for any number of
\* workers, although the flag that announces it is cleared without the mutex.
THEOREM EntropySafe == Spec => []EntropyExclusive
<1>1. EntInv => EntropyExclusive
  BY DEF EntInv
<1> QED
  BY <1>1, InitPoolInv, NextPoolInv, InitEntInv, NextEntInv, PTL DEF Spec

-----------------------------------------------------------------------------
(* The steps outside ih264e_process_thread. *)

Outside == WorkerIdle \cup MainOutside \cup {"enter", "out"}

PoolStep ==
  \/ PoolInit \/ BeginFrame \/ Shutdown \/ Activate \/ Sync \/ EndFrame \/ Join
  \/ \E w \in Workers : WorkerCheck(w) \/ WorkerDone(w)
  \/ \E t \in Threads : SpuriousWakeup(t)

\* A step is one of the pool, or of a thread inside ih264e_process_thread.
LEMMA NextSteps == Next => PoolStep \/ \E t \in Threads : Rows(t)
BY DEF Next, MainStep, WorkerStep, PoolStep, Threads

\* Outside nobody has a row or an entropy job.
LEMMA OutsideFacts ==
  \A x \in Outside : x \notin RowPlaces \cup EntropyPlaces \cup {"wait"}
BY DEF Outside, WorkerIdle, MainOutside, RowPlaces, EntropyPlaces

\* They move threads only among the places outside.
LEMMA PoolMoves ==
  ASSUME PoolInv, PoolStep
  PROVE  \A t \in Threads : pc'[t] = pc[t] \/ (pc[t] \in Outside /\ pc'[t] \in Outside)
<1>0. pc \in [Threads -> Places]
  BY DEF PoolInv, TypeOK, Places
<1>1. /\ {"app", "activate", "post", "join", "none", "sleep", "check", "exit", "enter", "out"}
           \subseteq Outside
      /\ \A u \in Threads : Woken(u) \in Outside
  BY DEF Outside, WorkerIdle, MainOutside, Woken
<1>2. Main \in Threads /\ Workers \subseteq Threads
  BY DEF Threads
<1>3. ASSUME NEW u \in Threads, NEW x \in Outside, pc[u] \in Outside, Goto(u, x)
      PROVE  \A t \in Threads : pc'[t] = pc[t] \/ (pc[t] \in Outside /\ pc'[t] \in Outside)
  BY <1>0, <1>3, GotoMoves
<1>4. ASSUME NEW u \in Threads, NEW x \in Outside, pc[u] \in Outside,
             NEW W \in SUBSET Sleepers, WakeAndGoto(W, u, x)
      PROVE  \A t \in Threads : pc'[t] = pc[t] \/ (pc[t] \in Outside /\ pc'[t] \in Outside)
  <2>1. /\ pc'[u] = x
        /\ \A v \in Threads : v # u /\ v \notin W => pc'[v] = pc[v]
        /\ \A v \in W : v # u => pc[v] = "sleep" /\ pc'[v] = Woken(v)
    BY <1>0, <1>4, WakeMoves
  <2> QED
    BY <1>1, <1>4, <2>1
<1>5. CASE PoolInit
  BY <1>0, <1>1, <1>5 DEF PoolInit, PoolInv
<1>6. CASE BeginFrame
  BY <1>1, <1>2, <1>3, <1>6 DEF BeginFrame
<1>7. CASE Shutdown
  <2>1. pc[Main] = "app" /\ WakeAndGoto(Sleepers, Main, "join")
    BY <1>7 DEF Shutdown
  <2> QED
    BY <1>1, <1>2, <1>4, <2>1
<1>8. CASE Activate
  <2>1. pc[Main] = "activate" /\ (Goto(Main, "enter") \/ WakeAndGoto(Sleepers, Main, "enter"))
    BY <1>8 DEF Activate
  <2> QED
    BY <1>1, <1>2, <1>3, <1>4, <2>1
<1>9. CASE Sync \/ EndFrame
  <2>1. PICK x \in {"sleep", "post", "app"} : Goto(Main, x) /\ pc[Main] \in {"out", "post"}
    BY <1>9 DEF Sync, EndFrame
  <2> QED
    BY <1>1, <1>2, <1>3, <2>1
<1>10. CASE Join
  <2>1. \A w \in Workers : pc[w] = "none" \/ pc[w] = "exit"
    BY <1>10 DEF Join, PoolInv
  <2>2. \A t \in Threads : pc'[t] \in {"app", "none"}
    BY <1>10 DEF Join
  <2> QED
    BY <1>1, <1>10, <2>1, <2>2 DEF Join, Threads
<1>11. ASSUME NEW w \in Workers, WorkerCheck(w)
       PROVE  \A t \in Threads : pc'[t] = pc[t] \/ (pc[t] \in Outside /\ pc'[t] \in Outside)
  <2>1. PICK x \in {"sleep", "exit", "enter"} : Goto(w, x) /\ pc[w] = "check"
    BY <1>11 DEF WorkerCheck
  <2> QED
    BY <1>1, <1>2, <1>3, <2>1
<1>12. ASSUME NEW w \in Workers, WorkerDone(w)
       PROVE  \A t \in Threads : pc'[t] = pc[t] \/ (pc[t] \in Outside /\ pc'[t] \in Outside)
  <2>1. /\ pc[w] = "out"
        /\ Goto(w, "check") \/ \E W \in SUBSET Sleepers : WakeAndGoto(W, w, "check")
    BY <1>12 DEF WorkerDone
  <2> QED
    BY <1>1, <1>2, <1>3, <1>4, <2>1
<1>13. ASSUME NEW u \in Threads, SpuriousWakeup(u)
       PROVE  \A t \in Threads : pc'[t] = pc[t] \/ (pc[t] \in Outside /\ pc'[t] \in Outside)
  BY <1>1, <1>3, <1>13 DEF SpuriousWakeup
<1> QED
  BY <1>5, <1>6, <1>7, <1>8, <1>9, <1>10, <1>11, <1>12, <1>13 DEF PoolStep

\* Where they take Main, and what they leave alone.
LEMMA PoolStepOfMain ==
  ASSUME PoolInv, PoolStep
  PROVE  \/ BeginFrame
         \/ /\ EndFrame /\ pc[Main] = "post" /\ pc'[Main] = "app"
            /\ entq' = EmptyFifo /\ UNCHANGED <<picVars, row, col, err>>
         \/ /\ Join /\ pc[Main] = "join" /\ pc'[Main] = "app"
            /\ entq' \in {entq, EmptyFifo} /\ UNCHANGED <<picVars, row, col, err>>
         \/ /\ UNCHANGED <<picVars, procq, entq, row, col, err>>
            /\ \/ pc'[Main] = pc[Main]
               \/ pc[Main] = "app" /\ pc'[Main] = "join"
               \/ pc[Main] = "activate" /\ pc'[Main] = "enter"
               \/ pc[Main] = "out" /\ pc'[Main] = "sleep"
               \/ pc[Main] = "out" /\ ~hasFrame /\ pc'[Main] = "post"
               \/ pc[Main] = "sleep" /\ pc'[Main] = "out"
<1>0. pc \in [Threads -> Places]
  BY DEF PoolInv, TypeOK, Places
<1>1. Main \in Threads /\ Workers \subseteq Threads /\ Main \notin Workers
  BY RowsAssumption DEF Threads
<1> USE DEF picVars, jobVars, poolVars
<1>2. CASE PoolInit
  <2>1. pc'[Main] = pc[Main]
    BY <1>1, <1>2 DEF PoolInit
  <2> QED
    BY <1>2, <2>1 DEF PoolInit
<1>3. CASE BeginFrame
  BY <1>3
<1>4. CASE Shutdown
  BY <1>0, <1>1, <1>4, WakeMoves DEF Shutdown, WakeAndGoto
<1>5. CASE Activate
  BY <1>0, <1>1, <1>5 DEF Activate, WakeAndGoto, Goto
<1>6. CASE Sync
  BY <1>0, <1>1, <1>6 DEF Sync, Goto, PoolInv
<1>7. CASE EndFrame
  BY <1>0, <1>1, <1>7 DEF EndFrame, Goto, ResetLists
<1>8. CASE Join
  BY <1>1, <1>8 DEF Join, ResetLists
<1>9. ASSUME NEW w \in Workers, WorkerCheck(w)
      PROVE  UNCHANGED <<picVars, procq, entq, row, col, err>> /\ pc'[Main] = pc[Main]
  BY <1>0, <1>1, <1>9 DEF WorkerCheck, Goto
<1>10. ASSUME NEW w \in Workers, WorkerDone(w)
       PROVE  /\ UNCHANGED <<picVars, procq, entq, row, col, err>>
              /\ pc'[Main] = pc[Main] \/ (pc[Main] = "sleep" /\ pc'[Main] = "out")
  <2>1. UNCHANGED <<picVars, procq, entq, row, col, err>>
    BY <1>10 DEF WorkerDone
  <2>2. Goto(w, "check") \/ \E t \in Sleepers : WakeAndGoto({t}, w, "check")
    BY <1>10 DEF WorkerDone
  <2> QED
    BY <1>0, <1>1, <2>1, <2>2 DEF Goto, WakeAndGoto, Woken, Sleepers
<1>11. ASSUME NEW t \in Threads, SpuriousWakeup(t)
       PROVE  /\ UNCHANGED <<picVars, procq, entq, row, col, err>>
              /\ pc'[Main] = pc[Main] \/ (pc[Main] = "sleep" /\ pc'[Main] = "out")
  BY <1>0, <1>1, <1>11 DEF SpuriousWakeup, Goto, Woken
<1> QED
  BY <1>2, <1>3, <1>4, <1>5, <1>6, <1>7, <1>8, <1>9, <1>10, <1>11 DEF PoolStep

\* A step inside finds Main inside or waiting, and leaves it so.
LEMMA RowsStepOfMain ==
  ASSUME PoolInv, NEW t \in Threads, Rows(t)
  PROVE  /\ pc[Main] \notin MainOutside /\ pc'[Main] \notin MainOutside
         /\ pc'[t] \in Inside \cup {"out"}
<1>1. pc \in [Threads -> Places]
  BY DEF PoolInv, TypeOK, Places
<1>2. PICK x \in Inside \cup {"out"} : pc' = [pc EXCEPT ![t] = x]
  BY <1>1, ThreadMoves DEF Rows
<1>3. pc[t] \in Inside
  BY <1>1, ThreadMoves DEF Rows
<1>4. pc[Main] \notin MainOutside
  <2>1. CASE t = Main
    BY <1>3, <2>1, PlaceFacts
  <2>2. CASE t # Main
    <3>1. t \in Busy
      BY <1>3, <2>2 DEF Busy, InProcess, Threads
    <3> QED
      BY <3>1 DEF PoolInv
  <2> QED
    BY <2>1, <2>2
<1> QED
  BY <1>1, <1>2, <1>4, PlaceFacts DEF Threads

-----------------------------------------------------------------------------
(* The deblocking lags behind the coding. *)

\* Every step keeps the deblocking behind the coding.
LEMMA NextLagInv == PoolInv /\ LagInv /\ [Next]_vars => LagInv'
<1> SUFFICES ASSUME PoolInv, LagInv, [Next]_vars PROVE LagInv'
  OBVIOUS
<1> USE DEF LagInv, DeblockLags, Coded
<1>1. ASSUME NEW t \in Threads, Rows(t) PROVE LagInv'
  <2>1. RowsTypeOK /\ pc \in [Threads -> Places] /\ ThreadStep(t)
    BY <1>1 DEF PoolInv, TypeOK, Places, Rows
  <2> QED
    BY <2>1, RowsKeepLagInv
<1>2. CASE BeginFrame
  <2>1. Busy = {} /\ pc[Main] = "app"
    BY <1>2 DEF PoolInv, BeginFrame, MainOutside
  <2>2. \A t \in Threads : pc[t] \notin Inside
    BY <2>1, PlaceFacts DEF Busy, InProcess, Threads, MainOutside
  <2>3. \A t \in Threads : pc'[t] \notin RowPlaces
    BY <1>2, <2>2 DEF BeginFrame, Goto, Inside, RowPlaces, PoolInv, TypeOK
  <2>4. deblocked' = {}
    BY <1>2 DEF BeginFrame, FillRows
  <2> QED
    BY <2>3, <2>4 DEF RowPlaces
<1>3. CASE PoolStep /\ ~BeginFrame
  <2>1. UNCHANGED <<procMap, deblocked, row, col>>
    BY <1>3, PoolStepOfMain DEF picVars
  <2>2. \A t \in Threads : pc'[t] = pc[t] \/ (pc[t] \notin RowPlaces /\ pc'[t] \notin RowPlaces)
    BY <1>3, PoolMoves, OutsideFacts
  <2>3. \A t \in Threads : pc[t] \in RowPlaces \/ pc'[t] \in RowPlaces => pc'[t] = pc[t]
    BY <2>2
  <2> QED
    BY <2>1, <2>3 DEF RowPlaces
<1>4. CASE UNCHANGED vars
  BY <1>4 DEF vars, rowsVars, picVars, thrVars
<1> QED
  BY <1>1, <1>2, <1>3, <1>4, NextSteps

\* A row is deblocked only after the row below it is coded, so that intra
\* prediction never sees deblocked samples: for any number of workers.
THEOREM DeblockingSafe == Spec => []DeblockLags
<1>1. Init => LagInv
  <2> SUFFICES ASSUME Init PROVE LagInv
    OBVIOUS
  <2>1. /\ \A t \in Threads : pc[t] \in {"app", "none"}
        /\ deblocked = {}
    BY DEF Init, RowsInit
  <2> QED
    BY <2>1 DEF LagInv, DeblockLags, Coded
<1>2. LagInv => DeblockLags
  BY DEF LagInv
<1> QED
  BY <1>1, <1>2, InitPoolInv, NextPoolInv, NextLagInv, PTL DEF Spec

-----------------------------------------------------------------------------
(* The frames. *)

\* Between the application's calls the entropy list is empty; during one the
\* picture is in order.  A job that does not fit leaves a gap in the bitstream, so
\* that what is written is only known when none can fail.
FrameInv ==
  /\ pc[Main] \notin {"app", "join"} =>
       \E p, q, e \in Nat : Pic(p, q, e) /\ (MayOverflow \/ Written(e))
  /\ pc[Main] \in {"app", "join"} => entq = EmptyFifo
  /\ MainDone
  /\ ~MayOverflow => \A t \in Threads : pc[t] # "fail" /\ ~err[t]

\* The invariant of the frames holds before the first call.
LEMMA InitFrameInv == Init => FrameInv
<1> SUFFICES ASSUME Init PROVE FrameInv
  OBVIOUS
<1>1. Main \in Threads /\ pc[Main] = "app" /\ \A t \in Threads : pc[t] \in {"app", "none"}
  BY DEF Init, Threads
<1>2. entq = EmptyFifo /\ \A t \in Threads : ~err[t]
  BY DEF Init, RowsInit
<1> QED
  BY <1>1, <1>2 DEF FrameInv, MainDone

\* A step inside keeps it.
LEMMA RowsKeepFrameInv ==
  ASSUME PoolInv, EntInv, FrameInv, NEW t \in Threads, Rows(t)
  PROVE  FrameInv'
<1>1. RowsTypeOK /\ pc \in [Threads -> Places] /\ ThreadStep(t)
  BY DEF PoolInv, TypeOK, Places, Rows
<1>2. pc[Main] \notin {"app", "join"} /\ pc'[Main] \notin {"app", "join"}
  BY RowsStepOfMain DEF MainOutside
<1>3. PICK p \in Nat, q \in Nat, e \in Nat : Pic(p, q, e) /\ (MayOverflow \/ Written(e))
  BY <1>2 DEF FrameInv
<1>4. MainDone'
  BY <1>1, <1>3, RowsKeepMainDone DEF FrameInv
<1>5. ~MayOverflow => \A u \in Threads : pc'[u] # "fail" /\ ~err'[u]
  <2> SUFFICES ASSUME ~MayOverflow PROVE \A u \in Threads : pc'[u] # "fail" /\ ~err'[u]
    OBVIOUS
  <2>1. \A u \in Threads : pc[u] # "fail" /\ ~err[u]
    BY DEF FrameInv
  <2>2. \A u \in Threads : u # t => pc'[u] = pc[u]
    BY <1>1, MapGrows
  <2> USE DEF Goto
  <2>3. CASE Enter(t)
    BY <1>1, <2>1, <2>2, <2>3 DEF Enter, RowsTypeOK
  <2>4. CASE EndEntropy(t)
    BY <1>1, <2>1, <2>2, <2>4 DEF EndEntropy
  <2>5. CASE TopEntropy(t) \/ TopNoEntropy(t) \/ WaitEntropy(t)
    BY <1>1, <2>1, <2>2, <2>5 DEF TopEntropy, TopNoEntropy, WaitEntropy, TakeEntropy
  <2>6. CASE TakeRow(t) \/ NoRow(t) \/ MotionEstimate(t)
    BY <1>1, <2>1, <2>2, <2>6 DEF TakeRow, NoRow, MotionEstimate
  <2>7. CASE CodeMb(t) \/ DeblockRow(t) \/ QueueEntropy(t)
    BY <1>1, <2>1, <2>2, <2>7 DEF CodeMb, DeblockRow, QueueEntropy
  <2>8. CASE TerminateEntropy(t) \/ MarkLastMb(t) \/ WriteMb(t) \/ Overflow(t)
    BY <1>1, <2>1, <2>2, <2>8 DEF TerminateEntropy, MarkLastMb, WriteMb, Overflow
  <2> QED
    BY <1>1, <2>3, <2>4, <2>5, <2>6, <2>7, <2>8 DEF ThreadStep
<1>6. PICK p2 \in Nat, q2 \in Nat, e2 \in Nat :
        Pic(p2, q2, e2)' /\ (Written(e) /\ pc'[t] # "fail" => Written(e2)')
  BY <1>1, <1>3, RowsKeepPicture
<1>7. MayOverflow \/ Written(e2)'
  BY <1>3, <1>5, <1>6
<1> QED
  BY <1>2, <1>4, <1>5, <1>6, <1>7 DEF FrameInv

\* A step of the pool keeps it: a picture begins with nobody inside.
LEMMA PoolStepKeepsFrameInv ==
  ASSUME PoolInv, FrameInv, PoolStep
  PROVE  FrameInv'
<1>1. Main \in Threads
  BY DEF Threads
<1>2. \A t \in Threads :
        \/ pc'[t] = pc[t]
        \/ /\ pc[t] \notin RowPlaces \cup EntropyPlaces
           /\ pc'[t] \notin RowPlaces \cup EntropyPlaces
  BY PoolMoves, OutsideFacts
<1>3. ASSUME ~MayOverflow, \A t \in Threads : ~err'[t]
      PROVE  \A t \in Threads : pc'[t] # "fail" /\ ~err'[t]
  BY <1>2, <1>3 DEF FrameInv, EntropyPlaces
<1>4. CASE BeginFrame
  <2>1. pc[Main] = "app" /\ Busy = {}
    BY <1>4 DEF BeginFrame, PoolInv, MainOutside
  <2>2. \A t \in Threads : pc[t] \notin Inside
    BY <2>1, PlaceFacts DEF Busy, InProcess, Threads, MainOutside
  <2>3. \A t \in Threads : pc'[t] \notin RowPlaces \cup EntropyPlaces
    BY <1>2, <2>2 DEF Inside
  <2>4. FillRows /\ entq' = EmptyFifo
    BY <1>4, <2>1 DEF BeginFrame, FrameInv
  <2>5. Pic(0, 0, 0)' /\ Written(0)'
    BY <2>3, <2>4, PicBegins
  <2>6. pc'[Main] = "activate"
    BY <1>1, <1>4 DEF BeginFrame, Goto, PoolInv, TypeOK
  <2>7. \A t \in Threads : ~err'[t]
    BY <2>4 DEF FillRows
  <2>8. 0 \in Nat
    OBVIOUS
  <2> QED
    BY <1>3, <2>5, <2>6, <2>7, <2>8 DEF FrameInv, MainDone
<1>5. CASE pc'[Main] = "app" /\ entq' = EmptyFifo /\ err' = err
  BY <1>1, <1>3, <1>5 DEF FrameInv, MainDone
<1>6. CASE /\ UNCHANGED <<picVars, procq, entq, row, col, err>>
           /\ \/ pc'[Main] = pc[Main]
              \/ pc[Main] = "app" /\ pc'[Main] = "join"
              \/ pc[Main] = "activate" /\ pc'[Main] = "enter"
              \/ pc[Main] = "out" /\ pc'[Main] = "sleep"
              \/ pc[Main] = "out" /\ pc'[Main] = "post"
              \/ pc[Main] = "sleep" /\ pc'[Main] = "out"
  <2>1. /\ pc'[Main] \in {"app", "join"} <=> pc[Main] \in {"app", "join"}
        /\ pc'[Main] \in {"out", "sleep", "post"} => pc[Main] \in {"out", "sleep", "post"}
    BY <1>6
  <2>2. ASSUME NEW p \in Nat, NEW q \in Nat, NEW e \in Nat, Pic(p, q, e)
        PROVE  Pic(p, q, e)' /\ (Written(e) => Written(e)')
    BY <1>2, <1>6, <2>2, PicStays
  <2>3. MainDone'
    BY <1>6, <2>1 DEF FrameInv, MainDone
  <2>4. pc'[Main] \in {"app", "join"} => entq' = EmptyFifo
    BY <1>6, <2>1 DEF FrameInv
  <2>5. pc'[Main] \notin {"app", "join"} =>
          \E p, q, e \in Nat : Pic(p, q, e)' /\ (MayOverflow \/ Written(e)')
    BY <2>1, <2>2 DEF FrameInv
  <2>6. ~MayOverflow => \A t \in Threads : pc'[t] # "fail" /\ ~err'[t]
    BY <1>3, <1>6 DEF FrameInv
  <2> QED
    BY <2>3, <2>4, <2>5, <2>6 DEF FrameInv
<1>7. CASE pc[Main] = "join" /\ pc'[Main] = "app" /\ entq' \in {entq, EmptyFifo} /\ err' = err
  BY <1>5, <1>7 DEF FrameInv
<1> QED
  BY <1>4, <1>5, <1>6, <1>7, PoolStepOfMain

\* Every step keeps it.
LEMMA NextFrameInv == PoolInv /\ EntInv /\ FrameInv /\ [Next]_vars => FrameInv'
<1> SUFFICES ASSUME PoolInv, EntInv, FrameInv, [Next]_vars PROVE FrameInv'
  OBVIOUS
<1>1. CASE UNCHANGED vars
  BY <1>1 DEF vars, rowsVars, picVars, jobVars, thrVars, FrameInv, MainDone, Pic, Lists,
     Work, OneEach, Deblocking, Written
<1> QED
  BY <1>1, NextSteps, RowsKeepFrameInv, PoolStepKeepsFrameInv

\* What the invariant says of a frame the threads are done with.
LEMMA DoneFrame == PoolInv /\ FrameInv => FrameDone
<1> SUFFICES ASSUME PoolInv, FrameInv, pc[Main] = "post"
             PROVE  /\ ~MayOverflow => strm = Raster
                    /\ deblocked = Row \/ \E t \in Threads : err[t]
  BY DEF FrameDone
<1>1. Main \in Threads /\ RowsTypeOK
  BY DEF Threads, PoolInv, TypeOK
<1>2. \A t \in Threads : pc[t] \notin EntropyPlaces
  <2>1. Busy = {}
    BY DEF PoolInv, MainOutside
  <2>2. \A t \in Threads : t # Main => pc[t] \notin Inside
    BY <2>1 DEF Busy, InProcess, Threads
  <2> QED
    BY <2>2 DEF Inside, EntropyPlaces
<1>3. PICK p \in Nat, q \in Nat, e \in Nat : Pic(p, q, e) /\ (MayOverflow \/ Written(e))
  BY DEF FrameInv
<1>4. CASE err[Main]
  BY <1>1, <1>4 DEF FrameInv
<1>5. CASE ~err[Main]
  <2>1. entq.jobs = <<>> /\ entq.closed
    BY <1>5 DEF FrameInv, MainDone
  <2> QED
    BY <1>1, <1>2, <1>3, <2>1, PicComplete
<1> QED
  BY <1>4, <1>5

\* A frame handed back to the application is complete, if no job can fail to fit,
\* and it is deblocked, unless its error is reported: no row is lost, coded out of
\* order or left undeblocked, for any number of workers and any size.
THEOREM FramesComplete == Spec => []FrameDone
BY InitPoolInv, NextPoolInv, InitEntInv, NextEntInv, InitFrameInv, NextFrameInv,
   DoneFrame, PTL DEF Spec

-----------------------------------------------------------------------------
(* The threads together are one sequential coder. *)

\* The coder is idle before the first call.
LEMMA FrameCoderInit == Init => Picture!FCInit
<1> SUFFICES ASSUME Init PROVE Picture!FCInit
  OBVIOUS
<1>1. pc[Main] = "app" /\ strm = <<>>
  BY DEF Init, RowsInit, Threads
<1> QED
  BY <1>1 DEF Picture!FCInit, Phase

\* Only WriteMb is visible of the steps inside.
LEMMA RowsStepOfFrameCoder ==
  ASSUME ~MayOverflow, PoolInv, EntInv, FrameInv, NEW t \in Threads, Rows(t)
  PROVE  [Picture!FCNext]_(Picture!fcVars)
<1>1. RowsTypeOK /\ pc \in [Threads -> Places] /\ ThreadStep(t)
  BY DEF PoolInv, TypeOK, Places, Rows
<1>2. Phase = "coding" /\ Phase' = "coding"
  BY RowsStepOfMain DEF Phase, MainOutside
<1>3. CASE WriteMb(t)
  <2>1. PICK e \in Nat : Written(e)
    BY RowsStepOfMain DEF FrameInv, MainOutside
  <2>2. Len(strm) \in 0..Ht*Wd-1 /\ strm' = Append(strm, Raster[Len(strm)+1])
    BY <1>1, <1>3, <2>1, WriteMbAppends
  <2>3. Ht*Wd \in Nat
    BY RowsAssumption
  <2>4. Len(strm) < Ht*Wd
    <3> DEFINE n == Ht*Wd
    <3>1. n \in Nat /\ Len(strm) \in 0..n-1
      BY <2>2, <2>3
    <3> HIDE DEF n
    <3>2. Len(strm) < n
      BY <3>1
    <3> QED
      BY <3>2 DEF n
  <2> QED
    BY <1>2, <2>2, <2>4 DEF Picture!FCNext, Picture!FCWrite
<1>4. CASE ~WriteMb(t)
  <2>1. strm' = strm
    BY <1>1, <1>4, OnlyWriteMbWrites
  <2> QED
    BY <1>2, <2>1 DEF Picture!fcVars
<1> QED
  BY <1>3, <1>4

\* Of the steps outside, the beginning, the synchronisation and the end are.
LEMMA PoolStepOfFrameCoder ==
  ASSUME ~MayOverflow, PoolInv, FrameInv, FrameDone', PoolStep
  PROVE  [Picture!FCNext]_(Picture!fcVars)
<1>1. CASE BeginFrame
  <2>1. pc[Main] = "app" /\ pc'[Main] = "activate" /\ strm' = <<>>
    BY <1>1 DEF BeginFrame, FillRows, Goto, PoolInv, TypeOK, Threads
  <2>2. Phase = "idle" /\ Phase' = "coding"
    BY <2>1 DEF Phase
  <2> QED
    BY <2>1, <2>2 DEF Picture!FCNext, Picture!FCStart
<1>2. CASE pc[Main] = "post" /\ pc'[Main] = "app" /\ strm' = strm
  <2>1. Phase = "done" /\ Phase' = "idle"
    BY <1>2 DEF Phase
  <2> QED
    BY <1>2, <2>1 DEF Picture!FCNext, Picture!FCReturn
<1>3. CASE pc[Main] = "out" /\ pc'[Main] = "post" /\ strm' = strm
  <2>1. Phase = "coding" /\ Phase' = "done"
    BY <1>3 DEF Phase
  <2>2. strm = Raster
    BY <1>3 DEF FrameDone
  <2>3. Len(strm) = Ht*Wd
    <3>1. Ht*Wd \in Nat
      BY RowsAssumption
    <3> QED
      BY <2>2, <3>1 DEF Raster
  <2> QED
    BY <1>3, <2>1, <2>3 DEF Picture!FCNext, Picture!FCFinish
<1>4. ASSUME strm' = strm,
             \/ pc'[Main] = pc[Main]
             \/ pc[Main] = "app" /\ pc'[Main] = "join"
             \/ pc[Main] = "join" /\ pc'[Main] = "app"
             \/ pc[Main] = "activate" /\ pc'[Main] = "enter"
             \/ pc[Main] = "out" /\ pc'[Main] = "sleep"
             \/ pc[Main] = "sleep" /\ pc'[Main] = "out"
      PROVE  UNCHANGED Picture!fcVars
  <2>1. Phase' = Phase
    BY <1>4 DEF Phase
  <2> QED
    BY <1>4, <2>1 DEF Picture!fcVars
<1> QED
  BY <1>1, <1>2, <1>3, <1>4, PoolStepOfMain DEF picVars

\* The row pipeline is one sequential coder, for any number of workers and any
\* size: the bitstream grows by the next macroblock in raster order and by nothing
\* else, and a frame is handed back when it holds all of them.
THEOREM FramesImplementCoder ==
  ASSUME MayOverflow = FALSE
  PROVE  Spec => ImplementsFrameCoder
<1>1. Init => Picture!FCInit
  BY FrameCoderInit
<1>2. /\ PoolInv /\ EntInv /\ FrameInv /\ FrameDone' /\ [Next]_vars
      => [Picture!FCNext]_(Picture!fcVars)
  <2> SUFFICES ASSUME PoolInv, EntInv, FrameInv, FrameDone', [Next]_vars
               PROVE  [Picture!FCNext]_(Picture!fcVars)
    OBVIOUS
  <2>1. CASE UNCHANGED vars
    BY <2>1 DEF vars, rowsVars, picVars, thrVars, Picture!fcVars, Phase
  <2> QED
    BY <2>1, NextSteps, RowsStepOfFrameCoder, PoolStepOfFrameCoder
<1> QED
  BY <1>1, <1>2, InitPoolInv, NextPoolInv, InitEntInv, NextEntInv, InitFrameInv,
     NextFrameInv, DoneFrame, PTL DEF Spec, ImplementsFrameCoder, Picture!FCSpec

-----------------------------------------------------------------------------
(* EncSpawn: threads that live for one frame. *)

\* An error is reported, or about to be.
Failed == \E t \in Threads : err[t] \/ pc[t] = "fail"

\* No error of the frame is forgotten when a thread clears its own on entry.
NoErrorBefore ==
  /\ \A t \in Threads : pc[t] \in {"enter", "create"} => ~err[t]
  /\ \A w \in Workers : pc[Main] = "create" /\ pc[w] = "none" => ~err[w]

\* The inductive invariant.  Once a job has failed nothing is known of the
\* bitstream, but the failure stays visible until the frame is handed back.
SpawnInv ==
  /\ SpawnTypeOK
  /\ EntInv
  /\ pc[Main] # "none"
  /\ \A w \in Workers : pc[w] \notin {"app", "create", "post"}
  /\ pc[Main] \in {"app", "post"} => \A w \in Workers : pc[w] = "none"
  /\ pc[Main] = "app" => entq = EmptyFifo
  /\ pc[Main] # "app" => \E p, q, e \in Nat : Pic(p, q, e) /\ (Failed \/ Written(e))
  /\ MainDone
  /\ NoErrorBefore

SpawnPlaces == Inside \cup {"out", "none", "app", "create", "post"}

\* Places inside ih264e_process_thread and outside.
LEMMA SpawnPlaceFacts ==
  /\ \A x \in {"out", "none", "app", "create", "post"} :
       x \notin Inside /\ x \notin RowPlaces \cup EntropyPlaces \cup {"wait", "enter"}
  /\ "enter" \in Inside /\ "enter" \notin RowPlaces \cup EntropyPlaces \cup {"wait"}
  /\ RowPlaces \cup EntropyPlaces \subseteq Inside
BY DEF Inside, RowPlaces, EntropyPlaces

\* The invariant holds before the first frame.
LEMMA InitSpawnInv == SpawnInit => SpawnInv
<1> SUFFICES ASSUME SpawnInit PROVE SpawnInv
  OBVIOUS
<1> USE RowsAssumption DEF SpawnInit, Threads
<1>1. pc[Main] = "app" /\ \A w \in Workers : pc[w] = "none"
  OBVIOUS
<1>2. RowsTypeOK
  <2> USE DEF RowsInit, RowsTypeOK
  <2>1. procq \in Fifo(Row) /\ entq \in Fifo(Row)
    BY DEF Fifo, EmptyFifo
  <2>2. row \in [Threads -> Row] /\ col \in [Threads -> Col]
    BY RowFacts
  <2>3. entActive \in BOOLEAN
    BY Zenon
  <2>4. /\ entMutex \in Threads \cup {NoThread}
        /\ meMap \in [Row -> SUBSET Col] /\ procMap \in [Row -> SUBSET Col]
        /\ deblkMap \subseteq Row /\ deblocked \subseteq Row
        /\ strm \in Seq(Row \X Col)
    OBVIOUS
  <2>5. blocking \in [Threads -> BOOLEAN] /\ err \in [Threads -> BOOLEAN]
    OBVIOUS
  <2> QED
    BY <2>1, <2>2, <2>3, <2>4, <2>5 DEF RowsTypeOK
<1>3. SpawnTypeOK
  BY <1>2, RowsAssumption DEF SpawnTypeOK
<1>4. EntInv
  BY <1>1, SpawnPlaceFacts DEF RowsInit, EntInv, EntropyExclusive
<1>5. \A t \in Threads : ~err[t]
  BY DEF RowsInit
<1> QED
  BY <1>1, <1>3, <1>4, <1>5 DEF RowsInit, SpawnInv, MainDone, NoErrorBefore

-----------------------------------------------------------------------------
(* A step inside ih264e_process_thread. *)

\* It keeps an error that is there, since a thread at the entry has none.
LEMMA RowsKeepFailed ==
  ASSUME RowsTypeOK, pc \in [Threads -> SpawnPlaces], NoErrorBefore, NEW t \in Threads,
         ThreadStep(t)
  PROVE  /\ Failed => Failed'
         /\ pc'[t] # "enter" /\ \A u \in Threads : u # t => pc'[u] = pc[u] /\ err'[u] = err[u]
         /\ pc'[t] = "fail" => Failed'
<1> USE DEF Goto
<1>1. \A u \in Threads : u # t => pc'[u] = pc[u]
  BY MapGrows
<1>2. ASSUME pc[t] # "fail", err' = err, pc'[t] # "enter"
      PROVE  /\ Failed => Failed'
             /\ pc'[t] # "enter"
             /\ \A u \in Threads : u # t => pc'[u] = pc[u] /\ err'[u] = err[u]
  BY <1>1, <1>2 DEF Failed
<1>3. CASE Enter(t)
  <2>1. /\ ~err[t] /\ pc[t] = "enter" /\ pc'[t] = "top"
        /\ \A u \in Threads : u # t => err'[u] = err[u]
    BY <1>3 DEF Enter, NoErrorBefore, RowsTypeOK
  <2> QED
    BY <1>1, <2>1 DEF Failed
<1>4. CASE EndEntropy(t)
  <2>1. CASE pc[t] = "fail"
    <3>1. err'[t] /\ pc'[t] = "out" /\ \A u \in Threads : u # t => err'[u] = err[u]
      BY <1>4, <2>1 DEF EndEntropy, RowsTypeOK
    <3> QED
      BY <1>1, <3>1 DEF Failed
  <2>2. CASE pc[t] # "fail"
    BY <1>2, <1>4, <2>2 DEF EndEntropy
  <2> QED
    BY <2>1, <2>2 DEF Failed
<1>5. CASE TopEntropy(t) \/ TopNoEntropy(t) \/ WaitEntropy(t)
  BY <1>2, <1>5 DEF TopEntropy, TopNoEntropy, WaitEntropy, TakeEntropy, Failed
<1>6. CASE TakeRow(t) \/ NoRow(t) \/ MotionEstimate(t)
  BY <1>2, <1>6 DEF TakeRow, NoRow, MotionEstimate, Failed
<1>7. CASE CodeMb(t) \/ DeblockRow(t) \/ QueueEntropy(t)
  BY <1>2, <1>7 DEF CodeMb, DeblockRow, QueueEntropy, Failed
<1>8. CASE TerminateEntropy(t) \/ MarkLastMb(t) \/ WriteMb(t) \/ Overflow(t)
  BY <1>2, <1>8 DEF TerminateEntropy, MarkLastMb, WriteMb, Overflow, Failed
<1> QED
  BY <1>3, <1>4, <1>5, <1>6, <1>7, <1>8 DEF ThreadStep

\* A step inside ih264e_process_thread keeps it.
LEMMA RowsKeepSpawnInv ==
  ASSUME SpawnInv, NEW t \in Threads, SpawnRows(t)
  PROVE  SpawnInv'
<1>1. RowsTypeOK /\ pc \in [Threads -> SpawnPlaces] /\ ThreadStep(t) /\ frames' = frames
  BY DEF SpawnInv, SpawnTypeOK, SpawnPlaces, SpawnRows
<1>2. Main \in Threads /\ Workers \subseteq Threads /\ Main \notin Workers
  BY RowsAssumption DEF Threads
<1>3. PICK x \in Inside \cup {"out"} : pc' = [pc EXCEPT ![t] = x]
  BY <1>1, ThreadMoves
<1>4. pc[t] \in Inside /\ pc'[t] = x /\ \A u \in Threads : u # t => pc'[u] = pc[u]
  BY <1>1, <1>3, ThreadMoves
<1>5. pc[Main] \notin {"app", "post"}
  BY <1>2, <1>4, SpawnPlaceFacts DEF SpawnInv, Threads
<1>6. SpawnTypeOK'
  <2>1. RowsTypeOK'
    BY <1>1, RowsTypeStep
  <2>2. pc' \in [Threads -> SpawnPlaces]
    BY <1>1, <1>3 DEF SpawnPlaces
  <2> QED
    BY <1>1, <2>1, <2>2 DEF SpawnTypeOK, SpawnPlaces, SpawnInv
<1>7. EntInv'
  BY <1>1, RowsKeepEntInv DEF SpawnInv
<1>8. /\ Failed => Failed'
      /\ pc'[t] # "enter" /\ \A u \in Threads : u # t => pc'[u] = pc[u] /\ err'[u] = err[u]
      /\ pc'[t] = "fail" => Failed'
  BY <1>1, RowsKeepFailed DEF SpawnInv
<1>9. PICK p \in Nat, q \in Nat, e \in Nat : Pic(p, q, e) /\ (Failed \/ Written(e))
  BY <1>5 DEF SpawnInv
<1>10. \E p2, q2, e2 \in Nat : Pic(p2, q2, e2)' /\ (Failed' \/ Written(e2)')
  <2>1. PICK p2 \in Nat, q2 \in Nat, e2 \in Nat :
          Pic(p2, q2, e2)' /\ (Written(e) /\ pc'[t] # "fail" => Written(e2)')
    BY <1>1, <1>9, RowsKeepPicture DEF SpawnInv
  <2> QED
    BY <1>8, <1>9, <2>1
<1>11. MainDone'
  BY <1>1, <1>9, RowsKeepMainDone DEF SpawnInv
<1>12. NoErrorBefore'
  <2>1. \A u \in Threads : pc'[u] \in {"enter", "create"} => u # t
    BY <1>4, <1>8, SpawnPlaceFacts
  <2>2. \A w \in Workers : pc'[Main] = "create" /\ pc'[w] = "none"
                           => Main # t /\ w # t
    BY <1>4, SpawnPlaceFacts
  <2> QED
    BY <1>2, <1>8, <2>1, <2>2 DEF SpawnInv, NoErrorBefore
<1>13. /\ pc'[Main] \notin {"none", "app", "post"}
       /\ \A w \in Workers : pc'[w] \notin {"app", "create", "post"}
  BY <1>2, <1>4, <1>5, SpawnPlaceFacts DEF SpawnInv
<1> QED
  BY <1>6, <1>7, <1>10, <1>11, <1>12, <1>13 DEF SpawnInv

-----------------------------------------------------------------------------
(* The steps of ih264e_encode. *)

\* They keep the picture and its errors while it is coded.
LEMMA PicAndErrorsStay ==
  ASSUME pc[Main] # "app", SpawnInv, UNCHANGED <<picVars, procq, entq, row, col, err>>,
         \A t \in Threads : \/ pc'[t] = pc[t]
                             \/ /\ pc[t] \notin RowPlaces \cup EntropyPlaces
                                /\ pc'[t] \notin RowPlaces \cup EntropyPlaces
  PROVE  \E p, q, e \in Nat : Pic(p, q, e)' /\ (Failed' \/ Written(e)')
<1>1. PICK p \in Nat, q \in Nat, e \in Nat : Pic(p, q, e) /\ (Failed \/ Written(e))
  BY DEF SpawnInv
<1>2. Pic(p, q, e)' /\ (Written(e) => Written(e)')
  BY <1>1, PicStays
<1>3. Failed => Failed'
  BY DEF Failed, EntropyPlaces
<1> QED
  BY <1>1, <1>2, <1>3

\* Preparing a picture keeps it: no thread is alive.
LEMMA BeginFrameKeepsSpawnInv ==
  ASSUME SpawnInv, BeginSpawnFrame
  PROVE  SpawnInv'
<1>1. Main \in Threads /\ Workers \subseteq Threads /\ Main \notin Workers
  BY RowsAssumption DEF Threads
<1>2. pc \in [Threads -> SpawnPlaces] /\ RowsTypeOK
  BY DEF SpawnInv, SpawnTypeOK, SpawnPlaces
<1>3. /\ pc[Main] = "app" /\ \A w \in Workers : pc[w] = "none"
      /\ pc'[Main] = "create" /\ \A w \in Workers : pc'[w] = "none"
      /\ entq' = EmptyFifo /\ FillRows /\ UNCHANGED <<entMutex, entActive, row, col, blocking>>
  BY <1>1, <1>2 DEF BeginSpawnFrame, SpawnInv, Goto
<1>4. RowsTypeOK'
  <2> USE DEF FillRows
  <2>1. procq' \in Fifo(Row)
    <3>1. [i \in 1..Ht |-> i - 1] \in Seq(Row)
      BY RowsAssumption DEF Row
    <3> QED
      BY <1>3, <3>1 DEF Fifo
  <2>2. meMap' \in [Row -> SUBSET Col] /\ procMap' \in [Row -> SUBSET Col]
    BY <1>3
  <2>3. strm' \in Seq(Row \X Col)
    BY <1>3
  <2>4. err' \in [Threads -> BOOLEAN]
    BY <1>3
  <2>5. entq' \in Fifo(Row)
    BY <1>3, FifoTypes, <1>2 DEF RowsTypeOK
  <2> QED
    BY <1>2, <1>3, <2>1, <2>2, <2>3, <2>4, <2>5 DEF RowsTypeOK
<1>5. SpawnTypeOK'
  <2>1. frames' \in 0..MaxFrames
    BY RowsAssumption DEF BeginSpawnFrame, SpawnInv, SpawnTypeOK
  <2>2. pc' \in [Threads -> SpawnPlaces]
    BY <1>2 DEF BeginSpawnFrame, Goto, SpawnPlaces
  <2> QED
    BY <1>4, <2>1, <2>2 DEF SpawnTypeOK, SpawnPlaces
<1>6. \A t \in Threads : pc[t] \in {"app", "none"} /\ pc'[t] \in {"create", "none"}
  BY <1>1, <1>3 DEF Threads
<1>7. EntInv'
  <2>1. \A t \in Threads : /\ pc'[t] = "wait" <=> pc[t] = "wait"
                           /\ pc'[t] \in EntropyPlaces <=> pc[t] \in EntropyPlaces
    BY <1>6, SpawnPlaceFacts
  <2> QED
    BY <1>3, <2>1, SamePlacesKeepEntInv DEF SpawnInv
<1>8. \E p, q, e \in Nat : Pic(p, q, e)' /\ (Failed' \/ Written(e)')
  <2>1. \A t \in Threads : pc'[t] \notin RowPlaces \cup EntropyPlaces
    BY <1>6, SpawnPlaceFacts
  <2>2. Pic(0, 0, 0)' /\ Written(0)'
    BY <1>3, <2>1, PicBegins
  <2>3. 0 \in Nat
    OBVIOUS
  <2> QED
    BY <2>2, <2>3
<1>9. \A t \in Threads : ~err'[t]
  BY <1>3 DEF FillRows
<1> QED
  BY <1>1, <1>3, <1>5, <1>7, <1>8, <1>9 DEF SpawnInv, MainDone, NoErrorBefore

\* Creating and joining the threads and ending the frame keep it.
LEMMA EncodeKeepsSpawnInv ==
  ASSUME SpawnInv,
         Launch \/ JoinThreads \/ EndSpawnFrame \/ \E w \in Workers : CreateThread(w)
  PROVE  SpawnInv'
<1>1. Main \in Threads /\ Workers \subseteq Threads /\ Main \notin Workers
  BY RowsAssumption DEF Threads
<1>2. pc \in [Threads -> SpawnPlaces] /\ RowsTypeOK
  BY DEF SpawnInv, SpawnTypeOK, SpawnPlaces
<1>3. UNCHANGED <<picVars, entMutex, entActive, row, col, blocking, err, frames>>
  BY DEF Launch, JoinThreads, EndSpawnFrame, CreateThread, jobVars
<1>4. ASSUME pc' \in [Threads -> SpawnPlaces], UNCHANGED jobVars
      PROVE  SpawnTypeOK'
  BY <1>2, <1>3, <1>4 DEF SpawnTypeOK, RowsTypeOK, SpawnPlaces, SpawnInv, picVars, jobVars
<1>5. ASSUME \A t \in Threads :
               \/ pc'[t] = pc[t]
               \/ /\ pc[t] \notin RowPlaces \cup EntropyPlaces \cup {"wait"}
                  /\ pc'[t] \notin RowPlaces \cup EntropyPlaces \cup {"wait"}
      PROVE  EntInv'
  <2>1. \A t \in Threads : /\ pc'[t] = "wait" <=> pc[t] = "wait"
                           /\ pc'[t] \in EntropyPlaces <=> pc[t] \in EntropyPlaces
    BY <1>5
  <2> QED
    BY <1>3, <2>1, SamePlacesKeepEntInv DEF SpawnInv
<1>6. CASE Launch
  <2>1. /\ pc[Main] = "create" /\ pc'[Main] = "enter" /\ UNCHANGED jobVars
        /\ \A w \in Workers : pc'[w] = pc[w] /\ pc[w] # "none"
        /\ pc' \in [Threads -> SpawnPlaces]
    BY <1>1, <1>2, <1>6, SpawnPlaceFacts DEF Launch, Goto, SpawnPlaces
  <2>2. \A t \in Threads : pc'[t] = pc[t] \/ t = Main
    BY <2>1 DEF Threads
  <2>3. SpawnTypeOK' /\ EntInv'
    BY <1>4, <1>5, <2>1, <2>2, SpawnPlaceFacts
  <2>4. \E p, q, e \in Nat : Pic(p, q, e)' /\ (Failed' \/ Written(e)')
    BY <1>3, <2>1, <2>2, PicAndErrorsStay, SpawnPlaceFacts DEF jobVars
  <2>5. MainDone' /\ NoErrorBefore'
    BY <1>1, <1>3, <2>1, <2>2 DEF MainDone, NoErrorBefore, SpawnInv
  <2> QED
    BY <1>1, <2>1, <2>3, <2>4, <2>5 DEF SpawnInv
<1>7. ASSUME NEW w \in Workers, CreateThread(w) PROVE SpawnInv'
  <2>1. /\ pc[Main] = "create" /\ pc'[Main] = "create" /\ pc[w] = "none" /\ pc'[w] = "enter"
        /\ UNCHANGED jobVars /\ pc' \in [Threads -> SpawnPlaces]
    BY <1>1, <1>2, <1>7, SpawnPlaceFacts DEF CreateThread, Goto, SpawnPlaces
  <2>2. \A t \in Threads : pc'[t] = pc[t] \/ t = w
    BY <1>1, <1>2, <1>7 DEF CreateThread, Goto
  <2>3. SpawnTypeOK' /\ EntInv'
    BY <1>4, <1>5, <2>1, <2>2, SpawnPlaceFacts
  <2>4. \E p, q, e \in Nat : Pic(p, q, e)' /\ (Failed' \/ Written(e)')
    BY <1>3, <2>1, <2>2, PicAndErrorsStay, SpawnPlaceFacts DEF jobVars
  <2>5. MainDone' /\ NoErrorBefore'
    BY <1>1, <1>3, <2>1, <2>2 DEF MainDone, NoErrorBefore, SpawnInv
  <2>6. \A v \in Workers : pc'[v] \notin {"app", "create", "post"}
    BY <1>1, <2>1, <2>2 DEF SpawnInv
  <2> QED
    BY <2>1, <2>3, <2>4, <2>5, <2>6 DEF SpawnInv
<1>8. CASE JoinThreads
  <2>1. /\ \A t \in Threads : pc[t] = "out"
        /\ pc'[Main] = "post" /\ \A w \in Workers : pc'[w] = "none"
        /\ UNCHANGED jobVars /\ pc' \in [Threads -> SpawnPlaces]
    BY <1>1, <1>8 DEF JoinThreads, SpawnPlaces
  <2>2. \A t \in Threads : pc[t] = "out" /\ pc'[t] \in {"post", "none"}
    BY <2>1 DEF Threads
  <2>3. SpawnTypeOK' /\ EntInv'
    BY <1>4, <1>5, <2>1, <2>2, SpawnPlaceFacts
  <2>4. \E p, q, e \in Nat : Pic(p, q, e)' /\ (Failed' \/ Written(e)')
    BY <1>1, <1>3, <2>1, <2>2, PicAndErrorsStay, SpawnPlaceFacts DEF jobVars
  <2>5. MainDone' /\ NoErrorBefore'
    BY <1>1, <1>3, <2>1, <2>2 DEF MainDone, NoErrorBefore, SpawnInv, jobVars
  <2> QED
    BY <2>1, <2>3, <2>4, <2>5 DEF SpawnInv
<1>9. CASE EndSpawnFrame
  <2>1. /\ pc[Main] = "post" /\ pc'[Main] = "app" /\ \A w \in Workers : pc'[w] = "none"
        /\ procq' = EmptyFifo /\ entq' = EmptyFifo /\ pc' \in [Threads -> SpawnPlaces]
    BY <1>1, <1>2, <1>9 DEF EndSpawnFrame, ResetLists, SpawnInv, Goto, SpawnPlaces
  <2>2. \A t \in Threads : pc[t] \in {"post", "none"} /\ pc'[t] \in {"app", "none"}
    BY <1>1, <2>1 DEF Threads, SpawnInv
  <2>3. EntInv'
    BY <1>5, <2>2, SpawnPlaceFacts
  <2>4. SpawnTypeOK'
    <3>1. procq' \in Fifo(Row) /\ entq' \in Fifo(Row)
      BY <1>2, <2>1, FifoTypes DEF RowsTypeOK
    <3> QED
      BY <1>2, <1>3, <2>1, <3>1 DEF SpawnTypeOK, RowsTypeOK, SpawnPlaces, SpawnInv, picVars
  <2>5. MainDone' /\ NoErrorBefore'
    BY <1>1, <2>1, <2>2 DEF MainDone, NoErrorBefore
  <2> QED
    BY <2>1, <2>3, <2>4, <2>5 DEF SpawnInv
<1> QED
  BY <1>6, <1>7, <1>8, <1>9

\* Every step keeps it.
LEMMA NextSpawnInv == SpawnInv /\ [SpawnNext]_spawnVars => SpawnInv'
<1> SUFFICES ASSUME SpawnInv, [SpawnNext]_spawnVars PROVE SpawnInv'
  OBVIOUS
<1>1. CASE UNCHANGED spawnVars
  BY <1>1 DEF spawnVars, rowsVars, picVars, jobVars, thrVars, SpawnInv, SpawnTypeOK, RowsTypeOK,
     EntInv, EntropyExclusive, MainDone, NoErrorBefore, Failed, Pic, Lists, Work, OneEach,
     Deblocking, Written
<1> QED
  BY <1>1, RowsKeepSpawnInv, BeginFrameKeepsSpawnInv, EncodeKeepsSpawnInv
     DEF SpawnNext, SpawnMainStep, Threads

\* A frame reported as a success is complete, for any number of threads, also when
\* a write that does not fit can end any entropy job early: the error is kept until
\* the frame is handed back.
THEOREM SuccessComplete == SpawnSpec => []SuccessIsComplete
<1>1. SpawnInv => SuccessIsComplete
  <2> SUFFICES ASSUME SpawnInv, pc[Main] = "post", \A t \in Threads : ~err[t]
               PROVE  strm = Raster
    BY DEF SuccessIsComplete
  <2>1. Main \in Threads /\ RowsTypeOK
    BY DEF Threads, SpawnInv, SpawnTypeOK
  <2>2. \A t \in Threads : pc[t] \in {"post", "none"}
    BY DEF SpawnInv, Threads
  <2>3. ~Failed /\ \A t \in Threads : pc[t] \notin EntropyPlaces
    BY <2>2, SpawnPlaceFacts DEF Failed
  <2>4. PICK p \in Nat, q \in Nat, e \in Nat : Pic(p, q, e) /\ (Failed \/ Written(e))
    BY DEF SpawnInv
  <2>5. entq.jobs = <<>> /\ entq.closed
    BY <2>1 DEF SpawnInv, MainDone
  <2> QED
    BY <2>1, <2>3, <2>4, <2>5, PicComplete
<1> QED
  BY <1>1, InitSpawnInv, NextSpawnInv, PTL DEF SpawnSpec
=============================================================================
