-------------------------- MODULE DecThreadsProofs --------------------------
(***************************************************************************)
(* Proofs about DecThreads for every picture size, every way slices are    *)
(* cut, lost, refused or skipped, and any number of calls: between calls   *)
(* the decoder's threads are at rest; in a picture no macroblock is        *)
(* deblocked too early, every macroblock is reconstructed once, and only   *)
(* entries of the picture are used.                                        *)
(***************************************************************************)
EXTENDS DecThreads, WellFoundedInduction, TLAPS

-----------------------------------------------------------------------------
(* The threads between calls. *)


\* Where the calling thread is before it waits for the recon thread.
InPicture ==
  Passing \cup {"nal", "header", "slice", "lost", "end", "deblock", "waitDec"}

Places == Inside \cup {"none", "idle", "exited"}

SyncTyped ==
  /\ tpc \in [Threads -> Places]
  /\ start \in [Threads -> {"init", "start", "progress"}]
  /\ done \in [Threads -> {"init", "done"}]
  /\ created \in [Threads -> BOOLEAN]
  /\ main \in InPicture \cup {"out", "waitRecon", "joinDec", "joinRecon"}
  /\ after \in InPicture

\* A kept thread waits for its start, or works, or has said that it is done;
\* a thread that was waited for or told to end has started before.
Kept(t) ==
  \/ start[t] \in {"init", "start"} /\ tpc[t] = "idle" /\ done[t] = "init"
  \/ start[t] = "progress" /\ tpc[t] \in Inside \cup {"exited"} /\ done[t] = "init"
  \/ start[t] = "progress" /\ tpc[t] = "idle"

\* The three states of a thread: not there, kept, or made for one picture.
Thread(t) ==
  /\ ~created[t] => tpc[t] = "none" /\ start[t] # "start" /\ done[t] = "init"
  /\ created[t] /\ keep => Kept(t)
  /\ created[t] /\ ~keep => tpc[t] \in Inside \cup {"exited"} /\ done[t] = "init"
  /\ ~keep => start[t] = "init"

\* A thread that has nothing to do and that nobody waits for.
Rest(t) ==
  created[t] => keep /\ tpc[t] = "idle" /\ start[t] # "start" /\ done[t] = "init"

\* Which threads are at rest is a matter of where the call is: one after the
\* other is waited for at its end, and none is started before its first slice.
\* The recon thread is waited for because it exists only with three cores.
DInv ==
  /\ SyncTyped
  /\ \A t \in Threads : Thread(t)
  /\ created[ReconThread] => cores = 3
  /\ main = "out" => \A t \in Threads : Rest(t)
  /\ main = "waitRecon" => Rest(DecThread)
  /\ main = "joinDec" => Rest(ReconThread)
  /\ main = "joinRecon" => ~created[DecThread]
  /\ first /\ main \in InPicture => \A t \in Threads : Rest(t) /\ start[t] # "progress"

-----------------------------------------------------------------------------
\* The two threads.
LEMMA TwoThreads == Threads = {0, 1} /\ DecThread = 0 /\ ReconThread = 1
BY DEF Threads, DecThread, ReconThread

\* What is at rest satisfies Quiescent.
LEMMA DInvQuiescent == DInv => Quiescent
BY DEF DInv, Quiescent, Rest, Thread

\* At first there are no threads.
LEMMA DInvInit == Init => DInv
BY TwoThreads DEF Init, RowsInit, DInv, SyncTyped, Thread, Rest, Places, InPicture

\* What all the steps of parsing have in common: they stay inside the picture and
\* touch no thread.
LEMMA PictureStep ==
  ASSUME DInv, main \in InPicture, main' \in InPicture, first' = first,
         after' \in InPicture,
         UNCHANGED <<tpc, start, done, created, keep, cores>>
  PROVE  DInv'
BY TwoThreads DEF DInv, SyncTyped, Thread, Kept, Rest, InPicture, Passing

\* No step of parsing but the first slice touches a thread.
LEMMA ParseKeeps ==
  ASSUME DInv, ParseStep, ~\E m \in 0..NumMbs : FirstSlice(m)
  PROVE  DInv'
<1>1. /\ UNCHANGED <<tpc, start, done, created, keep, cores>>
      /\ first' = first /\ main \in InPicture
      /\ main' \in InPicture /\ after' \in InPicture
  <2>0. after \in InPicture
    BY DEF DInv, SyncTyped
  <2>1. CASE NextSlice
    BY <2>0, <2>1 DEF NextSlice, rowsVars, callVars, parserVars, syncVars, InPicture, Passing
  <2>2. CASE SliceHeader
    BY <2>0, <2>2 DEF SliceHeader, callVars, syncVars, InPicture, Passing
  <2>3. CASE BadHeader
    BY <2>0, <2>3 DEF BadHeader, callVars, syncVars, InPicture, Passing
  <2>4. CASE SkipSlice
    BY <2>0, <2>4 DEF SkipSlice, syncVars, InPicture, Passing
  <2>5. CASE ParseGroup
    BY <2>0, <2>5 DEF ParseGroup, rowsVars, callVars, syncVars, InPicture, Passing
  <2>6. CASE FailSlice
    BY <2>0, <2>6 DEF FailSlice, rowsVars, callVars, syncVars, InPicture, Passing
  <2>7. CASE \E m \in Mb \cup {NumMbs} : LostSlice(m)
    BY <2>0, <2>7 DEF LostSlice, rowsVars, callVars, parserVars, syncVars, InPicture, Passing
  <2>8. CASE LeaveLoop
    BY <2>0, <2>8 DEF LeaveLoop, rowsVars, callVars, syncVars, InPicture, Passing
  <2>9. CASE Missing
    BY <2>0, <2>9 DEF Missing, rowsVars, callVars, syncVars, InPicture, Passing
  <2>10. CASE Conceal
    BY <2>0, <2>10 DEF Conceal, callVars, syncVars, InPicture, Passing
  <2>11. CASE PassNumber
    BY <2>0, <2>11 DEF PassNumber, callVars, syncVars, InPicture, Passing
  <2>12. CASE PassMark
    BY <2>0, <2>12 DEF PassMark, callVars, syncVars, InPicture, Passing
  <2>13. QED
    BY <2>1, <2>2, <2>3, <2>4, <2>5, <2>6, <2>7, <2>8, <2>9, <2>10, <2>11, <2>12
       DEF ParseStep
<1>2. QED
  BY <1>1, PictureStep

\* The first slice creates the threads that are not there and starts the others:
\* all of them were at rest.
LEMMA StartKeeps ==
  ASSUME DInv, NEW m \in 0..NumMbs, FirstSlice(m)
  PROVE  DInv'
<1> DEFINE runs == {DecThread}
              \cup (IF cores = 3 \/ created[ReconThread] THEN {ReconThread} ELSE {})
<1>1. /\ first /\ main \in InPicture /\ main' \in InPicture \ {"out"}
      /\ ~first' /\ after' \in InPicture
      /\ UNCHANGED <<cores, keep>>
  BY DEF FirstSlice, InPicture, callVars
<1>2. /\ created' = [t \in Threads |-> t \in runs \/ created[t]]
      /\ tpc' = [t \in Threads |-> IF t \notin runs \/ created[t] THEN tpc[t]
                                   ELSE IF keep THEN "idle" ELSE "slice"]
      /\ start' = [t \in Threads |-> IF keep /\ t \in runs THEN "start" ELSE start[t]]
      /\ done' = done
  BY DEF FirstSlice, StartThreads, DInv, SyncTyped
<1>3. SyncTyped'
  BY <1>1, <1>2, TwoThreads DEF DInv, SyncTyped, Places, Inside
<1>4. ASSUME NEW t \in Threads PROVE Thread(t)'
  <2>1. Thread(t) /\ Rest(t) /\ start[t] # "progress" /\ start[t] \in {"init", "start", "progress"}
    BY <1>1 DEF DInv, SyncTyped
  <2>2. CASE t \in runs
    BY <1>1, <1>2, <2>1, <2>2 DEF Thread, Kept, Rest, Inside
  <2>3. CASE t \notin runs
    BY <1>1, <1>2, <2>1, <2>3 DEF Thread, Kept, Rest
  <2>4. QED
    BY <2>2, <2>3
<1>5. (created[ReconThread] => cores = 3)'
  BY <1>1, <1>2, TwoThreads DEF DInv, SyncTyped
<1>6. QED
  BY <1>1, <1>3, <1>4, <1>5 DEF DInv, InPicture, Passing

\* The call does not begin before everything is at rest.
LEMMA CallKeeps == ASSUME DInv, Call PROVE DInv'
<1>1. /\ main = "out" /\ main' = "nal" /\ first'
      /\ UNCHANGED <<cores, keep, tpc, done, after>>
      /\ IF keep THEN start' = [t \in Threads |-> "init"] /\ created' = created
                 ELSE created' = [t \in Threads |-> FALSE] /\ start' = start
  BY DEF Call
<1>2. \A t \in Threads : Thread(t) /\ Rest(t)
  BY <1>1 DEF DInv
<1>3. SyncTyped'
  <2>1. start' \in [Threads -> {"init", "start", "progress"}]
    BY <1>1 DEF DInv, SyncTyped
  <2>2. CASE keep
    BY <1>1, <2>1, <2>2 DEF DInv, SyncTyped, InPicture
  <2>3. CASE ~keep
    <3>1. created' = [t \in Threads |-> FALSE]
      BY <1>1, <2>3
    <3>2. created' \in [Threads -> BOOLEAN]
      BY <3>1, Zenon
    <3>3. QED
      BY <1>1, <2>1, <3>2 DEF DInv, SyncTyped, InPicture
  <2>4. QED
    BY <2>2, <2>3
<1>4. ASSUME NEW t \in Threads
      PROVE  Thread(t)' /\ Rest(t)' /\ start[t]' # "progress"
  BY <1>1, <1>2 DEF Thread, Kept, Rest
<1>5. (created[ReconThread] => cores = 3)'
  BY <1>1, TwoThreads DEF DInv
<1>6. QED
  BY <1>1, <1>3, <1>4, <1>5 DEF DInv

\* The number of cores is not lowered while there is a recon thread.
LEMMA CoresKeep ==
  ASSUME MayLower = FALSE, DInv, NEW n \in {2, 3}, SetNumCores(n)
  PROVE  DInv'
<1>1. /\ UNCHANGED <<tpc, start, done, created, keep, main, first, after>>
      /\ main = "out" /\ cores' = n
      /\ n >= cores \/ ~created[ReconThread]
  BY DEF SetNumCores, callVars, parserVars, syncVars
<1>2. (created[ReconThread] => cores = 3)'
  BY <1>1 DEF DInv
<1>3. QED
  BY <1>1, <1>2 DEF DInv, SyncTyped, Thread, Kept, Rest

\* Waiting for a thread leaves it at rest and the other one alone.
LEMMA WaitRests ==
  ASSUME DInv, NEW t \in Threads, WaitFor(t), UNCHANGED <<start, keep>>
  PROVE  /\ Thread(t)' /\ Rest(t)'
         /\ \A u \in Threads \ {t} : Thread(u)' /\ (Rest(u) => Rest(u)')
         /\ tpc' \in [Threads -> Places]
         /\ done' \in [Threads -> {"init", "done"}]
         /\ created' \in [Threads -> BOOLEAN]
         /\ \A u \in Threads : created[u]' => created[u]
<1>1. Thread(t) /\ SyncTyped
  BY DEF DInv
<1>2. CASE ~created[t] \/ (keep /\ start[t] = "init")
  <2>1. UNCHANGED <<done, created, tpc>>
    BY <1>2 DEF WaitFor
  <2>2. QED
    BY <1>1, <1>2, <2>1 DEF DInv, SyncTyped, Thread, Kept, Rest
<1>3. CASE created[t] /\ keep /\ start[t] # "init"
  <2>1. /\ done[t] = "done" /\ done' = [done EXCEPT ![t] = "init"]
        /\ UNCHANGED <<created, tpc>>
    BY <1>3 DEF WaitFor
  <2>2. QED
    BY <1>1, <1>3, <2>1 DEF DInv, SyncTyped, Thread, Kept, Rest
<1>4. CASE created[t] /\ ~keep
  <2>1. /\ created' = [created EXCEPT ![t] = FALSE]
        /\ tpc' = [tpc EXCEPT ![t] = "none"]
        /\ done' = done
    BY <1>4 DEF WaitFor, TGoto
  <2>2. QED
    BY <1>1, <1>4, <2>1 DEF DInv, SyncTyped, Thread, Kept, Rest, Places
<1>5. QED
  BY <1>1, <1>2, <1>3, <1>4 DEF SyncTyped

\* The wait for the decode thread ends at the wait for the recon thread, or outside
\* when there is none.
LEMMA WaitDecodeKeeps == ASSUME DInv, WaitDecode PROVE DInv'
<1>1. /\ main = "waitDec" /\ WaitFor(DecThread)
      /\ main' = IF cores = 3 THEN "waitRecon" ELSE "out"
      /\ UNCHANGED <<start, keep, cores, first, after>>
  BY DEF WaitDecode, callVars, parserVars
<1>2. /\ \A t \in Threads : Thread(t)'
      /\ Rest(DecThread)'
      /\ Rest(ReconThread) => Rest(ReconThread)'
      /\ created[ReconThread]' => created[ReconThread]
      /\ SyncTyped'
  BY <1>1, WaitRests, TwoThreads DEF DInv, SyncTyped
<1>3. (created[ReconThread] => cores = 3)' /\ (main' = "out" => Rest(ReconThread)')
  BY <1>1, <1>2 DEF DInv, Rest
<1>4. main' \notin InPicture
  BY <1>1 DEF InPicture, Passing
<1>5. QED
  BY <1>1, <1>2, <1>3, <1>4, TwoThreads DEF DInv

\* The wait for the recon thread ends with both at rest.
LEMMA WaitReconKeeps == ASSUME DInv, WaitRecon PROVE DInv'
<1>1. /\ main = "waitRecon" /\ WaitFor(ReconThread)
      /\ main' = "out"
      /\ UNCHANGED <<start, keep, cores, first, after>>
  BY DEF WaitRecon, callVars, parserVars
<1>2. /\ \A t \in Threads : Thread(t)' /\ Rest(t)'
      /\ created[ReconThread]' => created[ReconThread]
      /\ SyncTyped'
  BY <1>1, WaitRests, TwoThreads DEF DInv, SyncTyped
<1>3. QED
  BY <1>1, <1>2 DEF DInv, InPicture, Passing

\* A thread that was joined is gone, and not about to start.
LEMMA JoinedGone ==
  ASSUME DInv, NEW t \in Threads, Joined(t), UNCHANGED <<keep, done>>,
         start'[t] = start[t]
  PROVE  /\ ~created'[t] /\ Thread(t)'
         /\ \A u \in Threads \ {t} : tpc'[u] = tpc[u] /\ created'[u] = created[u]
         /\ tpc' \in [Threads -> Places]
         /\ created' \in [Threads -> BOOLEAN]
<1>1. Thread(t) /\ SyncTyped
  BY DEF DInv
<1>2. CASE ~created[t] /\ UNCHANGED <<created, tpc>>
  BY <1>1, <1>2 DEF SyncTyped, Thread
<1>3. CASE /\ tpc[t] = "exited"
           /\ created' = [created EXCEPT ![t] = FALSE]
           /\ tpc' = [tpc EXCEPT ![t] = "none"]
  BY <1>1, <1>3 DEF SyncTyped, Thread, Kept, Places, Inside
<1>4. QED
  BY <1>2, <1>3 DEF Joined, TGoto

\* A thread at rest may be told to start, to see that it is to end.
LEMMA BreakStarts ==
  ASSUME DInv, NEW t \in Threads, Rest(t), BreakThread(t), UNCHANGED <<keep, done>>,
         tpc'[t] = tpc[t], created'[t] = created[t]
  PROVE  /\ Thread(t)'
         /\ \A u \in Threads \ {t} : start'[u] = start[u]
         /\ start' \in [Threads -> {"init", "start", "progress"}]
<1>1. Thread(t) /\ SyncTyped
  BY DEF DInv
<1>2. CASE created[t] /\ start' = [start EXCEPT ![t] = "start"]
  BY <1>1, <1>2 DEF SyncTyped, Thread, Kept, Rest
<1>3. CASE ~created[t] /\ start' = start
  BY <1>1, <1>3 DEF SyncTyped, Thread
<1>4. QED
  BY <1>2, <1>3 DEF BreakThread

\* Joining begins with both at rest.
LEMMA JoinKeeps == ASSUME DInv, Join PROVE DInv'
<1>1. /\ main = "out" /\ main' = "joinDec" /\ BreakThread(DecThread)
      /\ UNCHANGED <<tpc, done, created, keep, cores, first, after>>
  BY DEF Join, rowsVars, callVars, parserVars
<1>2. \A t \in Threads : Thread(t) /\ Rest(t)
  BY <1>1 DEF DInv
<1>3. /\ Thread(DecThread)' /\ start'[ReconThread] = start[ReconThread]
      /\ start' \in [Threads -> {"init", "start", "progress"}]
  BY <1>1, <1>2, BreakStarts, TwoThreads
<1>4. Thread(ReconThread)' /\ Rest(ReconThread)'
  BY <1>1, <1>2, <1>3, TwoThreads DEF Thread, Kept, Rest
<1>5. QED
  BY <1>1, <1>3, <1>4, TwoThreads DEF DInv, SyncTyped, InPicture, Passing

\* ... goes on when the decode thread is gone,
LEMMA JoinDecodeKeeps == ASSUME DInv, JoinDecode PROVE DInv'
<1>1. /\ main = "joinDec" /\ main' = "joinRecon"
      /\ Joined(DecThread) /\ BreakThread(ReconThread)
      /\ UNCHANGED <<done, keep, cores, first, after>>
  BY DEF JoinDecode, callVars, parserVars
<1>2. start' = [start EXCEPT ![ReconThread] = "start"] \/ start' = start
  BY <1>1 DEF BreakThread
<1>3. start'[DecThread] = start[DecThread]
  BY <1>2, TwoThreads DEF DInv, SyncTyped
<1>4. /\ ~created'[DecThread] /\ Thread(DecThread)'
      /\ tpc'[ReconThread] = tpc[ReconThread]
      /\ created'[ReconThread] = created[ReconThread]
      /\ tpc' \in [Threads -> Places] /\ created' \in [Threads -> BOOLEAN]
  BY <1>1, <1>3, JoinedGone, TwoThreads
<1>5. /\ Thread(ReconThread)'
      /\ start' \in [Threads -> {"init", "start", "progress"}]
  BY <1>1, <1>4, BreakStarts, TwoThreads DEF DInv
<1>6. QED
  BY <1>1, <1>4, <1>5, TwoThreads DEF DInv, SyncTyped, InPicture, Passing

\* ... and ends when both are.
LEMMA JoinReconKeeps == ASSUME DInv, JoinRecon PROVE DInv'
<1>1. /\ main = "joinRecon" /\ main' = "out" /\ Joined(ReconThread)
      /\ UNCHANGED <<start, done, keep, cores, first, after>>
  BY DEF JoinRecon, callVars, parserVars
<1>2. /\ ~created'[ReconThread] /\ Thread(ReconThread)'
      /\ tpc'[DecThread] = tpc[DecThread] /\ created'[DecThread] = created[DecThread]
      /\ tpc' \in [Threads -> Places] /\ created' \in [Threads -> BOOLEAN]
  BY <1>1, JoinedGone, TwoThreads
<1>3. Thread(DecThread)' /\ ~created'[DecThread]
  BY <1>1, <1>2, TwoThreads DEF DInv, Thread
<1>4. QED
  BY <1>1, <1>2, <1>3, TwoThreads DEF DInv, SyncTyped, Rest, InPicture, Passing

\* The steps of the end of a call and of joining.
LEMMA EndKeeps == ASSUME DInv, EndStep PROVE DInv'
<1>1. CASE EndOfPic \/ DeblockMb \/ Deblocked
  <2>1. /\ UNCHANGED <<tpc, start, done, created, keep, cores, first, after>>
        /\ main \in InPicture /\ main' \in InPicture
    BY <1>1 DEF EndOfPic, DeblockMb, Deblocked, rowsVars, callVars, parserVars, syncVars,
                InPicture, Passing
  <2>2. QED
    BY <2>1, PictureStep DEF DInv, SyncTyped
<1>2. QED
  BY <1>1, WaitDecodeKeeps, WaitReconKeeps, JoinDecodeKeeps, JoinReconKeeps DEF EndStep

-----------------------------------------------------------------------------
(* The threads. *)

\* A thread moves only when it was started and nobody has waited for it, so that
\* it was not at rest; what it does is its own.
LEMMA ThreadKeeps ==
  ASSUME DInv, NEW t \in Threads,
         ~Rest(t), Thread(t)', created[t],
         UNCHANGED <<keep, created, cores, main, first, after>>,
         NEW s \in {"init", "start", "progress"}, start' = [start EXCEPT ![t] = s],
         NEW d \in {"init", "done"}, done' = [done EXCEPT ![t] = d],
         NEW p \in Places, tpc' = [tpc EXCEPT ![t] = p]
  PROVE  DInv'
<1>1. SyncTyped'
  BY DEF DInv, SyncTyped
<1>2. \A u \in Threads \ {t} : (Thread(u) => Thread(u)') /\ (Rest(u) => Rest(u)')
                               /\ start'[u] = start[u]
  BY DEF DInv, SyncTyped, Thread, Kept, Rest
<1>3. main = "waitRecon" => t # DecThread
  BY DEF DInv
<1>4. main = "joinDec" => t # ReconThread
  BY DEF DInv
<1>5. main # "out" /\ ~(first /\ main \in InPicture)
  BY DEF DInv
<1>6. (\A u \in Threads : Thread(u)) /\ DecThread \in Threads /\ ReconThread \in Threads
  BY TwoThreads DEF DInv
<1>7. QED
  BY <1>1, <1>2, <1>3, <1>4, <1>5, <1>6 DEF DInv

\* A thread takes the picture it was told to start.
LEMMA TakePictureKeeps == ASSUME DInv, NEW t \in Threads, TakePicture(t) PROVE DInv'
<1> DEFINE p == IF breakAll THEN "exited" ELSE "slice"
<1>1. /\ tpc[t] = "idle" /\ start[t] = "start"
      /\ start' = [start EXCEPT ![t] = "progress"]
      /\ tpc' = [tpc EXCEPT ![t] = p]
      /\ UNCHANGED <<done, keep, created, cores, main, first, after>>
  BY DEF TakePicture, TGoto, callVars, parserVars
<1>2. Thread(t) /\ SyncTyped
  BY DEF DInv
<1>3. created[t] /\ keep /\ done[t] = "init" /\ ~Rest(t)
  BY <1>1, <1>2 DEF Thread, Kept, Rest, Inside
<1>4. p \in Inside \cup {"exited"} /\ p \in Places
  BY DEF Inside, Places
<1>5. Thread(t)'
  BY <1>1, <1>2, <1>3, <1>4 DEF SyncTyped, Thread, Kept
<1>6. done' = [done EXCEPT ![t] = "init"]
  BY <1>1, <1>2, <1>3 DEF SyncTyped
<1>7. QED
  BY <1>1, <1>3, <1>4, <1>5, <1>6, ThreadKeeps

\* A thread inside a picture is not at rest.
LEMMA InsideThread ==
  ASSUME DInv, NEW t \in Threads, tpc[t] \in Inside
  PROVE  /\ created[t] /\ ~Rest(t) /\ done[t] = "init"
         /\ start[t] = IF keep THEN "progress" ELSE "init"
BY DEF DInv, Thread, Kept, Rest, Inside

\* A thread that has finished says so, or exits.
LEMMA FinishPictureKeeps ==
  ASSUME DInv, NEW t \in Threads, FinishPicture(t) PROVE DInv'
<1>1. /\ tpc[t] = "last" /\ tpc[t] \in Inside
      /\ UNCHANGED <<start, keep, created, cores, main, first, after>>
  BY DEF FinishPicture, Inside, callVars, parserVars
<1>2. created[t] /\ ~Rest(t) /\ done[t] = "init" /\ SyncTyped
      /\ start[t] = IF keep THEN "progress" ELSE "init"
  BY <1>1, InsideThread DEF DInv
<1>3. start' = [start EXCEPT ![t] = start[t]]
  BY <1>1, <1>2 DEF SyncTyped
<1>4. CASE keep
  <2>1. done' = [done EXCEPT ![t] = "done"] /\ tpc' = [tpc EXCEPT ![t] = "idle"]
    BY <1>4 DEF FinishPicture, TGoto
  <2>2. Thread(t)'
    BY <1>1, <1>2, <1>4, <2>1 DEF SyncTyped, Thread, Kept
  <2>3. QED
    BY <1>1, <1>2, <1>3, <2>1, <2>2, ThreadKeeps DEF SyncTyped, Places
<1>5. CASE ~keep
  <2>1. done' = [done EXCEPT ![t] = "init"] /\ tpc' = [tpc EXCEPT ![t] = "exited"]
    BY <1>2, <1>5 DEF FinishPicture, TGoto, SyncTyped
  <2>2. Thread(t)'
    BY <1>1, <1>2, <1>5, <2>1 DEF SyncTyped, Thread
  <2>3. QED
    BY <1>1, <1>2, <1>3, <2>1, <2>2, ThreadKeeps DEF SyncTyped, Places
<1>6. QED
  BY <1>4, <1>5

\* Inside a picture a thread goes from place to place.
LEMMA RowStepMoves ==
  ASSUME DInv, NEW t \in Threads, RowStep(t)
  PROVE  /\ tpc[t] \in Inside
         /\ \E p \in Inside : tpc' = [tpc EXCEPT ![t] = p]
<1>0. SyncTyped /\ tpc = [tpc EXCEPT ![t] = tpc[t]]
  BY DEF DInv, SyncTyped
<1>1. CASE t = DecThread
  <2>1. CASE DecodeSlice
    BY <1>1, <2>1 DEF DecodeSlice, TGoto, Inside
  <2>2. CASE DecodeRow
    BY <1>1, <2>2 DEF DecodeRow, DecodeNextSlice, TGoto, Inside
  <2>3. CASE DecodeMb
    BY <1>0, <1>1, <2>3 DEF DecodeMb, DecodeNextSlice, TGoto, Inside
  <2>4. QED
    BY <1>1, <2>1, <2>2, <2>3 DEF RowStep, DecodeStep
<1>2. CASE t = ReconThread
  <2>1. CASE ReconSlice
    BY <1>2, <2>1 DEF ReconSlice, TGoto, Inside
  <2>2. CASE ReconRow
    BY <1>2, <2>2 DEF ReconRow, TGoto, Inside
  <2>3. CASE DeblockGroup
    BY <1>2, <2>3 DEF DeblockGroup, TGoto, Inside
  <2>4. QED
    BY <1>2, <2>1, <2>2, <2>3, TwoThreads DEF RowStep, ReconStep
<1>3. QED
  BY <1>1, <1>2, TwoThreads

\* A thread goes on inside a picture.
LEMMA RowKeeps == ASSUME DInv, NEW t \in Threads, RowStep(t) PROVE DInv'
<1>1. UNCHANGED <<start, done, keep, created, main, first, after>>
  BY DEF RowStep, callVars, parserVars, syncVars
<1>2. cores' = cores
  BY DEF RowStep, DecodeStep, DecodeSlice, DecodeRow, DecodeMb, ReconStep, ReconSlice,
         ReconRow, DeblockGroup
<1>3. tpc[t] \in Inside
  BY RowStepMoves
<1>4. PICK p \in Inside : tpc' = [tpc EXCEPT ![t] = p]
  BY RowStepMoves
<1>5. /\ created[t] /\ ~Rest(t) /\ done[t] = "init" /\ SyncTyped
      /\ start[t] = IF keep THEN "progress" ELSE "init"
  BY <1>3, InsideThread DEF DInv
<1>6. start' = [start EXCEPT ![t] = start[t]] /\ done' = [done EXCEPT ![t] = "init"]
  BY <1>1, <1>5 DEF SyncTyped
<1>7. Thread(t)'
  BY <1>1, <1>4, <1>5 DEF SyncTyped, Thread, Kept, Inside
<1>8. QED
  BY <1>1, <1>2, <1>4, <1>5, <1>6, <1>7, ThreadKeeps DEF SyncTyped, Places

-----------------------------------------------------------------------------
\* Every step keeps the invariant.
LEMMA DInvStep == MayLower = FALSE /\ DInv /\ [Next]_vars => DInv'
<1> SUFFICES ASSUME MayLower = FALSE, DInv, [Next]_vars PROVE DInv'
  OBVIOUS
<1>1. CASE \E n \in {2, 3} : SetNumCores(n)
  BY <1>1, CoresKeep
<1>2. CASE Call \/ Join
  BY <1>2, CallKeeps, JoinKeeps
<1>3. CASE MainStep
  BY <1>3, ParseKeeps, StartKeeps, EndKeeps DEF MainStep
<1>4. CASE \E t \in Threads : ThreadStep(t)
  BY <1>4, TakePictureKeeps, RowKeeps, FinishPictureKeeps DEF ThreadStep
<1>5. CASE UNCHANGED vars
  BY <1>5 DEF vars, rowsVars, callVars, parserVars, syncVars, DInv, SyncTyped, Thread,
              Kept, Rest
<1>6. QED
  BY <1>1, <1>2, <1>3, <1>4, <1>5 DEF Next

(* As long as the application does not lower the number of cores while there is
   a recon thread, no decoder thread works, or is told to, between two calls, and
   no completion is left over for the next picture (ih264d_signal_decode_thread,
   ih264d_signal_bs_deblk_thread, ih264d_join_threads). *)
THEOREM ThreadsAtRest == MayLower = FALSE => (Spec => []Quiescent)
<1> SUFFICES ASSUME MayLower = FALSE PROVE Spec => []Quiescent
  OBVIOUS
<1>1. DInv /\ [Next]_vars => DInv'
  BY DInvStep
<1>2. QED
  BY <1>1, DInvInit, DInvQuiescent, PTL DEF Spec

-----------------------------------------------------------------------------
(* The invariant of a picture. *)

\* Every slice has an entry of the table: one slice per macroblock, and one for
\* each slice that was skipped.
Fits == NumMbs + skips <= MaxSlices

\* Where the calling thread is between the first NAL unit and its return, and when
\* it has a picture there.
InCall == InPicture \cup {"waitRecon"}
Active == ~first /\ main \in InCall

\* The types, as far as the proofs need them.
Typed ==
  /\ coded \in 0..NumMbs /\ cur \in Slice
  /\ sliceStart \in [Slice -> Nat] /\ sliceMap \in [Mb -> Slice]
  /\ decMap \in [Mb -> BOOLEAN] /\ reconMap \in [Mb -> BOOLEAN]
  /\ decMb \in Nat /\ decSlice \in Slice /\ todo \in Nat
  /\ reconMb \in Nat /\ reconSlice \in Slice /\ bsMb \in Nat
  /\ deblkMb \in 0..NumMbs /\ deblkAt \in Nat
  /\ recon \in [Mb -> Nat]
  /\ entry \in [Slice -> {"old", "header", "lost"}]
  /\ pend \in Nat /\ upto \in Nat /\ missing \in Nat
  /\ cores \in {2, 3}

\* Where the parser is.
Control ==
  /\ numbered => main \in Passing
  /\ main \in InCall /\ first =>
       /\ main \in {"nal", "end", "waitDec", "waitRecon"}
       /\ coded = 0 /\ cur = 0 /\ decMb = 0 /\ reconMb = 0 /\ bsMb = 0
       /\ ~header /\ ~seen
  /\ main \in Passing => header /\ coded < upto /\ upto <= NumMbs
  /\ main = "slice" => header
  /\ main \in {"header", "slice", "lost"} => coded < NumMbs
  /\ main \in {"lost", "pending"} => missing > 0
  /\ main \in {"lost", "pending", "conceal"} => after \in {"header", "end"}
  /\ main = "group" => after \in {"slice", "nal"}
  /\ Active /\ pend > 0 => /\ header /\ ~next /\ main \in {"nal", "end", "pending"}
                           /\ coded + pend <= NumMbs
  /\ main = "pending" => pend > 0 /\ upto = coded + pend
  /\ Active /\ main \in {"deblock", "waitDec", "waitRecon"} => coded = NumMbs
  /\ main = "deblock" => cores = 2
  /\ main = "waitRecon" => cores = 3

\* What is known of the macroblocks that are parsed: their slice has its entry,
\* which says where it starts, and their slices are in order.  The entry of a
\* number in between belongs to a slice that was skipped; an earlier picture, or
\* one that was refused, left it, and it starts before.
Ordered ==
  /\ \A m \in Mb : decMap[m] <=> m < coded
  /\ \A m \in Mb : m < coded =>
       entry[sliceMap[m]] # "old" /\ sliceStart[sliceMap[m]] <= m /\ sliceMap[m] <= cur
  /\ \A m, k \in Mb : m < coded /\ k <= m =>
       /\ sliceMap[k] <= sliceMap[m]
       /\ sliceStart[sliceMap[m]] <= k => sliceMap[k] = sliceMap[m]
  /\ \A m \in Mb, s \in Slice :
       0 < m /\ m < coded /\ sliceMap[m-1] < s /\ s < sliceMap[m] =>
         sliceStart[s] < m /\ skips > 0
  /\ coded > 0 => sliceMap[0] = 0

\* What is known of the slice that is parsed next.
Begun ==
  /\ sliceStart[0] = 0
  /\ coded = 0 => cur = 0
  /\ \A s \in Slice : s < cur /\ (coded > 0 => sliceMap[coded-1] < s) =>
       sliceStart[s] < coded /\ skips > 0
  /\ \A s \in Slice : s > cur => entry[s] = "old"
  /\ entry[cur] # "old" =>
       /\ sliceStart[cur] <= coded /\ cur <= sliceStart[cur] + skips
       /\ \A k \in Mb : sliceStart[cur] <= k /\ k < coded => sliceMap[k] = cur
  /\ entry[cur] = "old" => (cur = 0 /\ coded = 0) \/ (skips > 0 /\ cur + 1 <= coded + skips)
  /\ header => entry[cur] # "old"
  /\ ~header => \A m \in Mb : m < coded => sliceMap[m] # cur
  /\ numbered => sliceMap[coded] = cur

Numbers == Ordered /\ Begun

\* A thread that has done the first f macroblocks and looks for slice s: none of
\* what it has done belongs to the slice or a later one.
AtSlice(mb, s, f) ==
  /\ f < NumMbs /\ mb <= f
  /\ \A m \in Mb : m < f => sliceMap[m] < s
  /\ f = 0 => s = 0
  /\ f > 0 => f < coded /\ s <= sliceMap[f]

\* ... that is in slice s, at macroblock f, or at an earlier one that it will find
\* not to be of the slice because the slice was skipped,
AtRow(mb, s, f) ==
  /\ f < NumMbs
  /\ \/ /\ mb = f /\ entry[s] # "old"
        /\ \A m \in Mb : m < f => sliceMap[m] <= s
        /\ f < coded => s <= sliceMap[f]
        /\ f >= coded => f = coded /\ f > 0 /\ sliceMap[f-1] = s
     \/ /\ mb < f /\ f < coded
        /\ \A m \in Mb : m < f => sliceMap[m] < s
        /\ s < sliceMap[f] /\ skips > 0

\* ... and that has n macroblocks of slice s before it.
AtMbs(mb, s, f, n) ==
  /\ mb = f /\ f < NumMbs /\ entry[s] # "old"
  /\ n >= 1 /\ f + n <= RowEnd(f) + 1 /\ RowEnd(f) < coded
  /\ \A m \in Mb : m < f => sliceMap[m] <= s
  /\ \A m \in Mb : f <= m /\ m < f + n => sliceMap[m] = s
  /\ f + n <= RowEnd(f) => sliceMap[f+n] # s

\* A thread that has been told to begin, and one that has ended.
Told(t) == tpc[t] = "idle" /\ start[t] = "start"
Finished(t) == tpc[t] \in {"none", "idle", "exited"} /\ ~Told(t)

\* The decode thread has done the first f macroblocks, and is somewhere after them.
DecPlace(f) ==
  /\ f <= coded
  /\ \A m \in Mb : reconMap[m] <=> m < f
  /\ Told(DecThread) => f = 0 /\ decMb = 0 /\ decSlice = 0
  /\ tpc[DecThread] = "slice" => AtSlice(decMb, decSlice, f)
  /\ tpc[DecThread] = "row" => AtRow(decMb, decSlice, f)
  /\ tpc[DecThread] = "mbs" => AtMbs(decMb, decSlice, f, todo)
  /\ tpc[DecThread] = "last" \/ Finished(DecThread) => f = NumMbs
  /\ tpc[DecThread] \notin {"deblock", "deblockrow"}
  /\ cores = 2 => \A m \in Mb : recon[m] = IF m < f THEN 1 ELSE 0

\* f macroblocks are whole rows.
RowStart(f) == f = 0 \/ EndOfRow(f - 1)

\* The recon thread has reconstructed the first r macroblocks, and deblocked all
\* of them at the end of a row, or else all but the last one.
ReconPlace(r) ==
  /\ \A m \in Mb : m < r => reconMap[m]
  /\ \A m \in Mb : recon[m] = IF m < r THEN 1 ELSE 0
  /\ deblkMb <= r /\ (deblkMb = r => RowStart(r))
  /\ Told(ReconThread) => r = 0 /\ reconMb = 0 /\ reconSlice = 0
  /\ tpc[ReconThread] = "slice" =>
       /\ AtSlice(reconMb, reconSlice, r) /\ deblkMb >= r - 1
       /\ skips = 0 /\ r > 0 => deblkAt = deblkMb
  /\ tpc[ReconThread] = "row" =>
       AtRow(reconMb, reconSlice, r) /\ deblkMb >= r - 1 /\ reconMb = bsMb
  /\ tpc[ReconThread] = "deblock" =>
       /\ AtSlice(reconMb, reconSlice + 1, r) /\ reconMb = bsMb /\ r > 0
       /\ bsMb = r \/ (deblkMb >= r - 1 /\ skips > 0)
       /\ skips = 0 => entry[reconSlice] # "old"
  /\ tpc[ReconThread] = "deblockrow" =>
       /\ reconMb = r /\ bsMb = r /\ RowStart(r) /\ r > 0
       /\ r < NumMbs => AtRow(r, reconSlice, r)
       /\ entry[reconSlice] # "old"
  /\ tpc[ReconThread] = "last" \/ Finished(ReconThread) => r = NumMbs /\ deblkMb = NumMbs
  /\ tpc[ReconThread] # "mbs"
  /\ skips = 0 /\ tpc[ReconThread] \in {"row", "deblock", "deblockrow"} => deblkAt = deblkMb

\* The threads of a picture were made or told to begin; the caller deblocks
\* when it has seen a header.
Running ==
  /\ created[DecThread] \/ main = "waitRecon"
  /\ main # "waitRecon" /\ keep => start[DecThread] # "init"
  /\ cores = 3 => created[ReconThread] /\ (keep => start[ReconThread] # "init")
  /\ main \in InPicture \ {"waitDec"} /\ (\E s \in Slice : entry[s] = "header") => seen
  /\ main = "waitDec" /\ cores = 2 /\ (\E s \in Slice : entry[s] = "header") =>
       deblkMb = NumMbs

\* A picture that is worked on.
Picture ==
  Active => /\ Numbers /\ Running
            /\ \E f \in 0..NumMbs : DecPlace(f)
            /\ cores = 3 => \E r \in 0..NumMbs : ReconPlace(r)

\* Nobody works outside of a picture, and threads are told to end only when their
\* picture is done.
Away ==
  /\ ~keep \/ main \in InCall => ~breakAll
  /\ main \in {"joinDec", "joinRecon"} => breakAll
  /\ main \notin InCall \/ first => \A t \in Threads : tpc[t] \notin Inside
  /\ main = "waitRecon" /\ first => ~Told(ReconThread)

\* Nothing is claimed when the table has run out of entries.
PicInv == /\ skips \in Nat
          /\ Fits => /\ Typed /\ Control /\ sliceStart[0] = 0 /\ Away
                     /\ Picture /\ DeblockLags

-----------------------------------------------------------------------------
(* Rows of macroblocks. *)

\* The row of a macroblock.
LEMMA RowFacts ==
  ASSUME NEW mb \in Mb
  PROVE  /\ RowEnd(mb) \in Mb /\ mb <= RowEnd(mb) /\ RowEnd(mb) < mb + Wd
         /\ \A m \in Mb : mb <= m /\ m <= RowEnd(mb) => RowEnd(m) = RowEnd(mb)
<1> DEFINE q == mb \div Wd
           r == mb % Wd
<1>1. /\ Wd \in Nat /\ Ht \in Nat /\ Wd > 0 /\ mb \in Nat /\ mb < Wd * Ht
  BY DecRowsAssumption DEF Mb, NumMbs
<1>2. q \in Nat /\ r \in 0..Wd-1 /\ mb = Wd * q + r
  BY <1>1
<1>3. q < Ht
  <2>1. SUFFICES ASSUME Ht <= q PROVE FALSE
    BY <1>1, <1>2
  <2>2. Wd * Ht <= Wd * q
    BY <1>1, <1>2, <2>1
  <2>3. QED
    BY <1>1, <1>2, <2>2
<1>4. Wd * (q + 1) <= Wd * Ht
  BY <1>1, <1>2, <1>3
<1>5. RowEnd(mb) = Wd * q + Wd - 1 /\ Wd * (q + 1) = Wd * q + Wd
  BY <1>1, <1>2 DEF RowEnd
<1>6. RowEnd(mb) \in Mb /\ mb <= RowEnd(mb) /\ RowEnd(mb) < mb + Wd
  BY <1>1, <1>2, <1>4, <1>5 DEF Mb, NumMbs
<1>7. ASSUME NEW m \in Mb, mb <= m, m <= RowEnd(mb) PROVE RowEnd(m) = RowEnd(mb)
  <2>1. m \in Nat /\ m - Wd * q \in 0..Wd-1
    BY <1>1, <1>2, <1>5, <1>7 DEF Mb
  <2>2. m \div Wd = q
    <3> DEFINE p == m \div Wd
    <3>1. p \in Nat /\ m - Wd * p \in 0..Wd-1
      BY <1>1, <2>1
    <3>2. Wd * p < Wd * (q + 1) /\ Wd * q < Wd * (p + 1)
      BY <1>1, <1>2, <2>1, <3>1
    <3>3. p < q + 1 /\ q < p + 1
      <4> HIDE DEF p, q
      <4>1. p >= q + 1 => Wd * p >= Wd * (q + 1)
        BY <1>1, <1>2, <3>1
      <4>2. q >= p + 1 => Wd * q >= Wd * (p + 1)
        BY <1>1, <1>2, <3>1
      <4>3. QED
        BY <1>1, <1>2, <3>1, <3>2, <4>1, <4>2
    <3>4. QED
      BY <1>2, <3>1, <3>3
  <2>3. QED
    BY <1>1, <1>2, <1>5, <2>2 DEF RowEnd
<1>8. QED
  BY <1>6, <1>7

\* A set of numbers that is not empty has a first.
LEMMA FirstExists ==
  ASSUME NEW S, S \subseteq Nat, S # {}
  PROVE  \E i \in S : \A j \in S : i <= j
<1>1. \E i \in S : \A j \in S : ~ (<<j, i>> \in OpToRel(<, Nat))
  BY NatLessThanWellFounded, WFMin
<1>2. PICK i \in S : \A j \in S : ~ (<<j, i>> \in OpToRel(<, Nat))
  BY <1>1
<1>3. ASSUME NEW j \in S PROVE i <= j
  <2>1. i \in Nat /\ j \in Nat
    OBVIOUS
  <2>2. j < i => <<j, i>> \in OpToRel(<, Nat)
    BY <2>1 DEF OpToRel
  <2>3. ~ (j < i)
    BY <1>2, <2>2
  <2>4. QED
    BY <2>1, <2>3
<1>4. QED
  BY <1>3

\* The macroblocks that a group takes of its row.
LEMMA LeadingFacts ==
  ASSUME NEW mb \in Mb, NEW s
  PROVE  LET n == LeadingMbs(mb, s) IN
         /\ n \in 0..Wd /\ mb + n <= RowEnd(mb) + 1
         /\ \A m \in Mb : mb <= m /\ m < mb + n => sliceMap[m] = s
         /\ mb + n <= RowEnd(mb) => sliceMap[mb + n] # s
         /\ n = 0 => sliceMap[mb] # s
<1> DEFINE P(n) == /\ \A m \in mb..mb+n-1 : m <= RowEnd(mb) /\ sliceMap[m] = s
                   /\ mb + n > RowEnd(mb) \/ sliceMap[mb + n] # s
           S == {n \in 0..Wd : mb + n > RowEnd(mb) \/ sliceMap[mb + n] # s}
<1>1. /\ Wd \in Nat /\ mb \in Nat /\ RowEnd(mb) \in Nat /\ mb <= RowEnd(mb)
      /\ RowEnd(mb) < mb + Wd /\ RowEnd(mb) <= NumMbs - 1 /\ NumMbs \in Nat
  BY RowFacts, DecRowsAssumption DEF Mb, NumMbs
<1>2. Wd \in S /\ S \subseteq Nat
  BY <1>1
<1>3. PICK n \in S : \A j \in S : n <= j
  BY <1>2, FirstExists
<1>4. P(n)
  <2>1. n \in 0..Wd /\ (mb + n > RowEnd(mb) \/ sliceMap[mb + n] # s)
    BY <1>3
  <2>2. ASSUME NEW m \in mb..mb+n-1 PROVE m <= RowEnd(mb) /\ sliceMap[m] = s
    <3>1. m - mb \in 0..Wd /\ m - mb < n /\ mb + (m - mb) = m
      BY <1>1, <2>1, <2>2
    <3>2. m - mb \notin S
      BY <1>1, <1>3, <2>1, <3>1
    <3>3. QED
      BY <1>1, <3>1, <3>2
  <2>3. QED
    BY <2>1, <2>2
<1>5. LeadingMbs(mb, s) \in 0..Wd /\ P(LeadingMbs(mb, s))
  <2>1. \E k \in 0..Wd : P(k)
    BY <1>3, <1>4
  <2>2. LeadingMbs(mb, s) = CHOOSE k \in 0..Wd : P(k)
    BY DEF LeadingMbs
  <2> HIDE DEF P
  <2>3. QED
    BY <2>1, <2>2
<1> DEFINE l == LeadingMbs(mb, s)
<1> HIDE DEF l
<1>6. l \in 0..Wd /\ P(l)
  BY <1>5 DEF l
<1>7. mb + l <= RowEnd(mb) + 1
  <2>1. CASE l = 0
    BY <1>1, <2>1
  <2>2. CASE l > 0
    <3>1. mb + l - 1 \in mb..mb+l-1
      BY <1>1, <1>6, <2>2
    <3>2. mb + l - 1 <= RowEnd(mb)
      BY <1>6, <3>1
    <3>3. QED
      BY <1>1, <1>6, <3>2
  <2>3. QED
    BY <1>6, <2>1, <2>2
<1>8. \A m \in Mb : mb <= m /\ m < mb + l => sliceMap[m] = s
  <2>1. \A m \in Mb : mb <= m /\ m < mb + l => m \in mb..mb+l-1
    BY <1>1, <1>6 DEF Mb
  <2>2. QED
    BY <1>6, <2>1
<1>9. (mb + l <= RowEnd(mb) => sliceMap[mb + l] # s) /\ (l = 0 => sliceMap[mb] # s)
  BY <1>1, <1>6
<1>10. QED
  BY <1>6, <1>7, <1>8, <1>9 DEF l

-----------------------------------------------------------------------------
(* A thread finds its place. *)

\* Some numbers.
LEMMA MbFacts ==
  /\ NumMbs \in Nat /\ NumMbs >= 1 /\ Wd \in Nat /\ Wd >= 1 /\ MaxSlices \in Nat
  /\ Mb \subseteq Nat /\ 0 \in Mb /\ \A m : m \in Mb <=> m \in Nat /\ m < NumMbs
  /\ 0 \in Slice /\ \A s : s \in Slice <=> s \in Nat /\ s < MaxSlices
<1>1. Wd \in Nat \ {0} /\ Ht \in Nat \ {0} /\ MaxSlices \in Nat \ {0}
  BY DecRowsAssumption
<1>2. NumMbs \in Nat /\ NumMbs >= 1
  BY <1>1 DEF NumMbs
<1>3. QED
  BY <1>1, <1>2 DEF Mb, Slice

\* A thread takes its place from the entry of the slice: where the slice starts
\* when it is there, before that when it was skipped.
LEMMA TakesPlace ==
  ASSUME Typed, Ordered, sliceStart[0] = 0, NEW mb \in Nat, NEW s \in Slice,
         NEW f \in 0..NumMbs, AtSlice(mb, s, f), mb < coded
  PROVE  /\ AtRow(sliceStart[s], s, f)
         /\ sliceStart[s] \in Nat
         /\ skips = 0 \/ s = sliceMap[f] => sliceStart[s] = f
<1> USE MbFacts DEF Typed
<1>1. f \in Mb /\ f \in Nat /\ f < coded /\ sliceMap[f] \in Slice /\ s <= sliceMap[f]
      /\ s \in Nat /\ sliceMap[f] \in Nat
  BY DEF AtSlice, Ordered
<1>2. \A m \in Mb : m < f => sliceMap[m] < s
  BY DEF AtSlice
<1>3. sliceStart[s] \in Nat
  OBVIOUS
<1>4. CASE s = sliceMap[f]
  <2>1. entry[s] # "old" /\ sliceStart[s] <= f
    BY <1>1, <1>4 DEF Ordered
  <2>2. ~ (sliceStart[s] < f)
    <3>1. SUFFICES ASSUME sliceStart[s] < f PROVE FALSE
      OBVIOUS
    <3>2. sliceStart[s] \in Mb
      BY <1>1, <1>3, <3>1
    <3>3. sliceMap[sliceStart[s]] = s
      BY <1>1, <1>3, <1>4, <3>1, <3>2 DEF Ordered
    <3>4. QED
      BY <1>1, <1>2, <3>1, <3>2, <3>3
  <2>3. sliceStart[s] = f
    BY <1>1, <1>3, <2>1, <2>2
  <2>4. \A m \in Mb : m < f => sliceMap[m] <= s
    BY <1>1, <1>2
  <2>5. QED
    BY <1>1, <1>3, <2>1, <2>3, <2>4 DEF AtRow
<1>5. CASE s < sliceMap[f]
  <2>1. f > 0
    BY <1>1, <1>5 DEF AtSlice, Ordered
  <2>2. f - 1 \in Mb /\ sliceMap[f - 1] < s
    BY <1>1, <1>2, <2>1
  <2>3. sliceStart[s] < f /\ skips > 0
    BY <1>1, <1>5, <2>1, <2>2 DEF Ordered
  <2>4. QED
    BY <1>1, <1>2, <1>3, <1>5, <2>3 DEF AtRow
<1>6. QED
  BY <1>1, <1>4, <1>5

\* The row of a thread is parsed: it has some macroblocks of its slice before it,
\* or else the slice is a later one.
LEMMA CutsRow ==
  ASSUME Typed, Ordered, NEW mb \in Nat, NEW s \in Slice, NEW f \in 0..NumMbs,
         AtRow(mb, s, f), RowEnd(mb) < coded
  PROVE  LET n == LeadingMbs(mb, s) IN
         /\ mb \in Mb /\ n \in 0..Wd /\ n <= RowEnd(mb) - mb + 1
         /\ n = 0 => /\ AtSlice(mb, s + 1, f) /\ s + 1 \in Slice /\ f > 0 /\ mb < NumMbs
                     /\ mb = f \/ skips > 0
         /\ n > 0 => AtMbs(mb, s, f, n)
         /\ skips = 0 => entry[s] # "old"
<1> USE MbFacts DEF Typed
<1> DEFINE n == LeadingMbs(mb, s)
<1>1. mb \in Mb /\ f \in Mb /\ mb <= f
  BY DEF AtRow
<1>2. /\ n \in 0..Wd /\ mb + n <= RowEnd(mb) + 1
      /\ \A m \in Mb : mb <= m /\ m < mb + n => sliceMap[m] = s
      /\ mb + n <= RowEnd(mb) => sliceMap[mb + n] # s
      /\ n = 0 => sliceMap[mb] # s
  BY <1>1, LeadingFacts
<1>3. RowEnd(mb) \in Mb /\ mb <= RowEnd(mb)
  BY <1>1, RowFacts
<1> HIDE DEF n
<1>4. n \in Nat /\ n <= RowEnd(mb) - mb + 1
  BY <1>1, <1>2, <1>3
<1>5. CASE /\ mb < f /\ f < coded
           /\ \A m \in Mb : m < f => sliceMap[m] < s
           /\ s < sliceMap[f] /\ skips > 0
  <2>1. sliceMap[mb] < s
    BY <1>1, <1>5
  <2>2. n = 0
    <3>1. n > 0 => sliceMap[mb] = s
      BY <1>1, <1>2, <1>4
    <3>2. QED
      BY <1>1, <1>4, <2>1, <3>1
  <2>3. AtSlice(mb, s + 1, f) /\ s + 1 \in Slice /\ f > 0
    BY <1>1, <1>5 DEF AtSlice
  <2>4. QED
    BY <1>1, <1>2, <1>4, <1>5, <2>2, <2>3 DEF n
<1>6. CASE /\ mb = f /\ entry[s] # "old"
           /\ \A m \in Mb : m < f => sliceMap[m] <= s
           /\ f < coded => s <= sliceMap[f]
  <2>1. f < coded /\ s <= sliceMap[f]
    BY <1>1, <1>3, <1>6
  <2>2. CASE n = 0
    <3>1. s < sliceMap[f]
      BY <1>1, <1>2, <1>6, <2>1, <2>2
    <3>2. f > 0
      BY <1>1, <2>1, <3>1 DEF Ordered
    <3>3. AtSlice(mb, s + 1, f) /\ s + 1 \in Slice
      BY <1>1, <1>6, <2>1, <3>1, <3>2 DEF AtSlice
    <3>4. QED
      BY <1>1, <1>2, <1>4, <1>6, <2>2, <3>2, <3>3 DEF n
  <2>3. CASE n > 0
    <3>1. AtMbs(mb, s, f, n)
      BY <1>1, <1>2, <1>3, <1>4, <1>6, <2>1, <2>3 DEF AtMbs
    <3>2. QED
      BY <1>1, <1>2, <1>4, <1>6, <2>3, <3>1 DEF n
  <2>4. QED
    BY <1>4, <2>2, <2>3
<1>7. QED
  BY <1>5, <1>6 DEF AtRow

\* ... goes on to the next macroblock of the group,
LEMMA PassesMb ==
  ASSUME Typed, NEW s \in Slice, NEW f \in 0..NumMbs, NEW n \in Nat, n > 1,
         AtMbs(f, s, f, n)
  PROVE  AtMbs(f + 1, s, f + 1, n - 1) /\ f + 1 <= RowEnd(f)
<1> USE MbFacts DEF Typed
<1>0. f \in Mb /\ f + n <= RowEnd(f) + 1
  BY DEF AtMbs
<1>1. f + 1 <= RowEnd(f) /\ RowEnd(f) \in Mb /\ f + 1 \in Mb
  <2>1. RowEnd(f) \in Mb /\ RowEnd(f) \in Nat
    BY <1>0, RowFacts
  <2>2. QED
    BY <1>0, <2>1
<1>2. RowEnd(f + 1) = RowEnd(f)
  <2>1. f <= f + 1
    BY <1>0
  <2>2. QED
    BY <1>0, <1>1, <2>1, RowFacts
<1>3. \A m \in Mb : m < f + 1 => sliceMap[m] <= s
  BY <1>1 DEF AtMbs
<1>4. \A m \in Mb : f + 1 <= m /\ m < f + 1 + (n - 1) => sliceMap[m] = s
  BY <1>1 DEF AtMbs
<1>5. f + 1 + (n - 1) = f + n
  BY <1>1
<1>6. QED
  BY <1>1, <1>2, <1>3, <1>4, <1>5 DEF AtMbs

\* ... and behind the group to the next row or the next slice.
LEMMA PassesGroup ==
  ASSUME Typed, Ordered, NEW s \in Slice, NEW f \in 0..NumMbs, NEW n \in Nat,
         AtMbs(f, s, f, n)
  PROVE  /\ f + n \in 0..NumMbs /\ f + n > 0 /\ f + n <= coded
         /\ f + n <= RowEnd(f) =>
              f + n < NumMbs /\ AtSlice(f + n, s + 1, f + n) /\ s + 1 \in Slice
         /\ f + n > RowEnd(f) =>
              f + n = RowEnd(f) + 1 /\ (f + n < NumMbs => AtRow(f + n, s, f + n))
<1> USE MbFacts DEF Typed
<1>1. /\ f \in Mb /\ RowEnd(f) \in Mb /\ f <= RowEnd(f) /\ RowEnd(f) < coded
      /\ n >= 1 /\ f + n <= RowEnd(f) + 1 /\ RowEnd(f) \in Nat /\ f \in Nat
  <2>1. f \in Mb
    BY DEF AtMbs
  <2>2. QED
    BY <2>1, RowFacts DEF AtMbs
<1>2. f + n - 1 \in Mb /\ sliceMap[f + n - 1] = s
  BY <1>1 DEF AtMbs
<1>3. ASSUME NEW m \in Mb, m < f + n PROVE sliceMap[m] <= s
  BY <1>1, <1>2, <1>3 DEF Ordered
<1>4. CASE f + n <= RowEnd(f)
  <2>1. f + n \in Mb /\ f + n < coded
    BY <1>1, <1>4
  <2>2. sliceMap[f + n] # s /\ s <= sliceMap[f + n] /\ sliceMap[f + n] \in Slice
    BY <1>1, <1>2, <1>4, <2>1 DEF AtMbs, Ordered
  <2>3. s \in Nat /\ s + 1 <= sliceMap[f + n] /\ s + 1 \in Slice
    BY <2>1, <2>2
  <2>4. \A m \in Mb : m < f + n => sliceMap[m] < s + 1
    BY <1>3, <2>3
  <2>5. QED
    BY <1>1, <1>4, <2>1, <2>3, <2>4 DEF AtSlice
<1>5. CASE f + n > RowEnd(f)
  <2>1. f + n = RowEnd(f) + 1 /\ f + n <= coded
    BY <1>1, <1>5
  <2>2. f + n < coded => s <= sliceMap[f + n]
    BY <1>1, <1>2, <2>1 DEF Ordered
  <2>3. f + n < NumMbs => AtRow(f + n, s, f + n)
    BY <1>1, <1>2, <1>3, <2>1, <2>2 DEF AtRow, AtMbs
  <2>4. QED
    BY <1>1, <1>5, <2>1, <2>3
<1>6. QED
  BY <1>1, <1>4, <1>5

-----------------------------------------------------------------------------
(* The parser numbers its slices. *)

\* What the parser knows of its number before it takes one for the next slice.
LEMMA NumberFacts ==
  ASSUME Typed, Numbers, skips \in Nat
  PROVE  /\ ~header \/ ~(sliceStart[cur] < coded) => \A m \in Mb : m < coded => sliceMap[m] # cur
         /\ sliceStart[cur] < coded => cur + 1 <= coded + skips
         /\ sliceStart[cur] < coded /\ sliceMap[coded - 1] < cur => skips > 0
         /\ ~(sliceStart[cur] < coded) /\ entry[cur] # "old" => sliceStart[cur] = coded
         /\ cur <= coded + skips
         /\ cur = 0 => coded = 0 \/ \E m \in Mb : m < coded /\ sliceMap[m] = cur
<1> USE MbFacts DEF Typed
<1>1. cur \in Nat /\ coded \in Nat /\ sliceStart[cur] \in Nat
  OBVIOUS
<1>2. ASSUME ~header \/ ~(sliceStart[cur] < coded), NEW m \in Mb, m < coded
      PROVE  sliceMap[m] # cur
  BY <1>1, <1>2 DEF Numbers, Ordered, Begun
<1>3. sliceStart[cur] < coded => cur + 1 <= coded + skips
  BY <1>1 DEF Numbers, Begun
<1>4. ASSUME sliceStart[cur] < coded, sliceMap[coded - 1] < cur PROVE skips > 0
  <2>1. coded - 1 \in Mb /\ sliceStart[cur] <= coded - 1 /\ sliceMap[coded - 1] # cur
    BY <1>1, <1>4
  <2>2. entry[cur] = "old"
    BY <1>1, <2>1 DEF Numbers, Begun
  <2>3. QED
    BY <1>1, <1>4, <2>2 DEF Numbers, Begun
<1>5. /\ ~(sliceStart[cur] < coded) /\ entry[cur] # "old" => sliceStart[cur] = coded
      /\ cur <= coded + skips
  <2>1. CASE entry[cur] # "old"
    <3>1. sliceStart[cur] <= coded /\ cur <= sliceStart[cur] + skips
      BY <2>1 DEF Numbers, Begun
    <3>2. ~(sliceStart[cur] < coded) => sliceStart[cur] = coded
      BY <1>1, <3>1
    <3>3. cur <= coded + skips
      BY <1>1, <3>1
    <3>4. QED
      BY <3>2, <3>3
  <2>2. CASE entry[cur] = "old"
    <3>1. (cur = 0 /\ coded = 0) \/ cur + 1 <= coded + skips
      BY <2>2 DEF Numbers, Begun
    <3>2. QED
      BY <1>1, <2>2, <3>1
  <2>3. QED
    BY <2>1, <2>2
<1>6. cur = 0 => coded = 0 \/ \E m \in Mb : m < coded /\ sliceMap[m] = cur
  BY <1>1 DEF Numbers, Ordered
<1>7. QED
  BY <1>2, <1>3, <1>4, <1>5, <1>6

\* A slice takes a number that no macroblock has.
LEMMA EntersNumber ==
  ASSUME Typed, Numbers, skips \in Nat, Fits, coded < NumMbs, ~numbered,
         NEW how \in {"header", "lost"},
         NEW num, num = NextNum \/ (num = cur /\ ~header),
         EnterSlice(num, how), ~numbered',
         UNCHANGED <<coded, sliceMap, decMap, skips>>
  PROVE  /\ Numbers' /\ cur' \in Slice /\ sliceStart' \in [Slice -> Nat]
         /\ entry' \in [Slice -> {"old", "header", "lost"}]
         /\ \A s \in Slice : entry[s] # "old" => entry'[s] # "old"
         /\ \A s \in Slice : how = "lost" /\ entry'[s] = "header" => entry[s] = "header"
<1> USE MbFacts DEF Typed
<1>1. /\ cur' = num
      /\ sliceStart' = [sliceStart EXCEPT ![num] = coded]
      /\ entry' = [entry EXCEPT ![num] = how]
  BY DEF EnterSlice
<1>2. cur \in Nat /\ coded \in Nat /\ \A s \in Slice : s \in Nat /\ sliceStart[s] \in Nat
  OBVIOUS
<1>3. /\ num \in Slice /\ num \in Nat
      /\ \A m \in Mb : m < coded => sliceMap[m] # num /\ sliceMap[m] <= num
      /\ num <= coded + skips
      /\ num = cur \/ (num = cur + 1 /\ sliceStart[cur] < coded)
  <2>1. CASE num = cur + 1 /\ sliceStart[cur] < coded
    <3>1. num <= coded + skips /\ num \in Slice
      BY <1>2, <2>1, NumberFacts DEF Fits
    <3>2. \A m \in Mb : m < coded => sliceMap[m] <= cur /\ sliceMap[m] \in Nat
      BY DEF Numbers, Ordered
    <3>3. QED
      BY <1>2, <2>1, <3>1, <3>2
  <2>2. CASE num = cur /\ (~header \/ ~(sliceStart[cur] < coded))
    <3>1. \A m \in Mb : m < coded => sliceMap[m] <= cur
      BY DEF Numbers, Ordered
    <3>2. QED
      BY <1>2, <2>2, <3>1, NumberFacts
  <2>3. QED
    BY <2>1, <2>2 DEF NextNum
<1>4. /\ \A s \in Slice \ {num} : sliceStart'[s] = sliceStart[s] /\ entry'[s] = entry[s]
      /\ sliceStart'[num] = coded /\ entry'[num] = how
      /\ cur' \in Slice /\ sliceStart' \in [Slice -> Nat]
      /\ entry' \in [Slice -> {"old", "header", "lost"}]
  BY <1>1, <1>2, <1>3
<1>5. \A m \in Mb : m < coded => /\ sliceMap[m] \in Slice \ {num}
                                 /\ sliceStart'[sliceMap[m]] = sliceStart[sliceMap[m]]
                                 /\ entry'[sliceMap[m]] = entry[sliceMap[m]]
  BY <1>3, <1>4
<1>6. Ordered'
  <2>1. \A m \in Mb : decMap'[m] <=> m < coded'
    BY DEF Numbers, Ordered
  <2>2. \A m \in Mb : m < coded' =>
           entry'[sliceMap'[m]] # "old" /\ sliceStart'[sliceMap'[m]] <= m /\ sliceMap'[m] <= cur'
    BY <1>1, <1>3, <1>5 DEF Numbers, Ordered
  <2>3. \A m, k \in Mb : m < coded' /\ k <= m =>
           /\ sliceMap'[k] <= sliceMap'[m]
           /\ sliceStart'[sliceMap'[m]] <= k => sliceMap'[k] = sliceMap'[m]
    BY <1>5 DEF Numbers, Ordered
  <2>4. ASSUME NEW m \in Mb, NEW s \in Slice,
               0 < m, m < coded', sliceMap'[m-1] < s, s < sliceMap'[m]
        PROVE  sliceStart'[s] < m /\ skips' > 0
    <3>1. sliceMap[m] <= num /\ s # num
      BY <1>2, <1>3, <1>5, <2>4
    <3>2. QED
      BY <1>4, <2>4, <3>1 DEF Numbers, Ordered
  <2>5. coded' > 0 => sliceMap'[0] = 0
    BY DEF Numbers, Ordered
  <2>6. QED
    BY <2>1, <2>2, <2>3, <2>4, <2>5 DEF Ordered
<1>7. Begun'
  <2>1. num = 0 => coded = 0 /\ cur = 0
    BY <1>2, <1>3, NumberFacts
  <2>2. sliceStart'[0] = 0 /\ (coded' = 0 => cur' = 0)
    BY <1>1, <1>2, <1>3, <1>4, <2>1 DEF Numbers, Begun
  <2>3. ASSUME NEW s \in Slice, s < num, coded > 0 => sliceMap[coded-1] < s
        PROVE  sliceStart'[s] < coded /\ skips > 0
    <3>1. s # num /\ sliceStart'[s] = sliceStart[s]
      BY <1>2, <1>3, <1>4, <2>3
    <3>2. CASE s < cur
      BY <2>3, <3>1, <3>2 DEF Numbers, Begun
    <3>3. CASE s = cur
      BY <1>2, <1>3, <2>3, <3>1, <3>3, NumberFacts
    <3>4. QED
      BY <1>2, <1>3, <2>3, <3>2, <3>3
  <2>4. \A s \in Slice : s > num => entry'[s] = "old"
    BY <1>2, <1>3, <1>4 DEF Numbers, Begun
  <2>5. /\ entry'[num] # "old" /\ sliceStart'[num] = coded /\ num <= coded + skips
        /\ \A k \in Mb : ~(coded <= k /\ k < coded)
        /\ \A m \in Mb : m < coded => sliceMap[m] # num
    BY <1>2, <1>3, <1>4
  <2>6. QED
    BY <1>1, <1>2, <2>2, <2>3, <2>4, <2>5 DEF Begun
<1>8. QED
  BY <1>3, <1>4, <1>6, <1>7 DEF Numbers

\* A slice that is skipped takes one too, without an entry.
LEMMA SkipsNumber ==
  ASSUME Typed, Numbers, skips \in Nat, Fits', coded < NumMbs, ~numbered, ~numbered',
         cur' = NextNum, skips' = skips + 1, ~header',
         UNCHANGED <<coded, sliceStart, sliceMap, decMap, entry>>
  PROVE  Numbers' /\ cur' \in Slice
<1> USE MbFacts DEF Typed
<1>1. cur \in Nat /\ coded \in Nat /\ \A s \in Slice : s \in Nat /\ sliceStart[s] \in Nat
  OBVIOUS
<1>2. /\ \A m \in Mb : m < coded => sliceMap[m] # cur' /\ sliceMap[m] <= cur'
      /\ cur' = cur \/ (cur' = cur + 1 /\ sliceStart[cur] < coded /\ coded > 0)
      /\ cur' \in Slice /\ cur' <= coded + skips
  <2>1. CASE cur' = cur + 1 /\ sliceStart[cur] < coded
    <3>1. cur' <= coded + skips /\ cur' \in Slice
      BY <1>1, <2>1, NumberFacts DEF Fits
    <3>2. \A m \in Mb : m < coded => sliceMap[m] <= cur /\ sliceMap[m] \in Nat
      BY DEF Numbers, Ordered
    <3>3. QED
      BY <1>1, <2>1, <3>1, <3>2
  <2>2. CASE cur' = cur /\ ~(sliceStart[cur] < coded)
    <3>1. \A m \in Mb : m < coded => sliceMap[m] <= cur
      BY DEF Numbers, Ordered
    <3>2. QED
      BY <1>1, <2>2, <3>1, NumberFacts
  <2>3. QED
    BY <2>1, <2>2 DEF NextNum
<1>3. Ordered'
  BY <1>1, <1>2 DEF Numbers, Ordered
<1>4. Begun'
  <2>1. sliceStart'[0] = 0 /\ (coded' = 0 => cur' = 0)
    BY <1>1, <1>2 DEF Numbers, Begun
  <2>2. ASSUME NEW s \in Slice, s < cur', coded > 0 => sliceMap[coded-1] < s
        PROVE  sliceStart[s] < coded
    BY <1>1, <1>2, <2>2 DEF Numbers, Begun
  <2>3. \A s \in Slice : s > cur' => entry[s] = "old"
    BY <1>1, <1>2 DEF Numbers, Begun
  <2>4. entry[cur'] # "old" =>
          /\ sliceStart[cur'] <= coded /\ cur' <= sliceStart[cur'] + skips'
          /\ \A k \in Mb : sliceStart[cur'] <= k /\ k < coded => sliceMap[k] = cur'
    BY <1>1, <1>2 DEF Numbers, Begun
  <2>5. skips' > 0 /\ cur' + 1 <= coded + skips'
    BY <1>1, <1>2
  <2>6. QED
    BY <1>1, <1>2, <2>1, <2>2, <2>3, <2>4, <2>5 DEF Begun
<1>5. QED
  BY <1>2, <1>3, <1>4 DEF Numbers

\* A macroblock gets its slice's number
LEMMA NumbersMb ==
  ASSUME Typed, Numbers, coded < NumMbs, NumberMb, numbered', header,
         UNCHANGED <<coded, cur, sliceStart, decMap, entry, skips, header>>
  PROVE  /\ Numbers' /\ sliceMap' \in [Mb -> Slice]
         /\ \A m \in Mb : m < coded => sliceMap'[m] = sliceMap[m]
<1> USE MbFacts DEF Typed
<1>1. coded \in Mb /\ coded \in Nat
  OBVIOUS
<1>2. /\ sliceMap' \in [Mb -> Slice] /\ sliceMap'[coded] = cur
      /\ \A m \in Mb : m < coded => sliceMap'[m] = sliceMap[m]
  BY <1>1 DEF NumberMb
<1>3. \A m \in Mb : 0 < m /\ m < coded => m - 1 \in Mb /\ m - 1 < coded
  BY <1>1
<1>4. Ordered'
  <2>1. \A m \in Mb : decMap'[m] <=> m < coded'
    BY DEF Numbers, Ordered
  <2>2. \A m \in Mb : m < coded' =>
           entry'[sliceMap'[m]] # "old" /\ sliceStart'[sliceMap'[m]] <= m /\ sliceMap'[m] <= cur'
    BY <1>2 DEF Numbers, Ordered
  <2>3. ASSUME NEW m \in Mb, NEW k \in Mb, m < coded', k <= m
        PROVE  /\ sliceMap'[k] <= sliceMap'[m]
               /\ sliceStart'[sliceMap'[m]] <= k => sliceMap'[k] = sliceMap'[m]
    <3>1. k < coded
      BY <1>1, <2>3
    <3>2. QED
      BY <1>2, <2>3, <3>1 DEF Numbers, Ordered
  <2>4. ASSUME NEW m \in Mb, NEW s \in Slice,
               0 < m, m < coded', sliceMap'[m-1] < s, s < sliceMap'[m]
        PROVE  sliceStart'[s] < m /\ skips' > 0
    BY <1>2, <1>3, <2>4 DEF Numbers, Ordered
  <2>5. coded' > 0 => sliceMap'[0] = 0
    BY <1>1, <1>2 DEF Numbers, Ordered
  <2>6. QED
    BY <2>1, <2>2, <2>3, <2>4, <2>5 DEF Ordered
<1>5. Begun'
  <2>1. coded > 0 => coded - 1 \in Mb /\ sliceMap'[coded-1] = sliceMap[coded-1]
    BY <1>1, <1>2
  <2>2. QED
    BY <1>1, <1>2, <2>1 DEF Numbers, Begun
<1>6. QED
  BY <1>2, <1>4, <1>5 DEF Numbers

\* and is then handed over.
LEMMA MarksMb ==
  ASSUME Typed, Numbers, coded < NumMbs, MarkMb, numbered, ~numbered', header,
         UNCHANGED <<cur, sliceStart, sliceMap, entry, skips, header>>
  PROVE  Numbers' /\ coded' = coded + 1 /\ coded' \in 0..NumMbs /\ decMap' \in [Mb -> BOOLEAN]
<1> USE MbFacts DEF Typed
<1>1. /\ coded \in Mb /\ coded \in Nat /\ coded' = coded + 1 /\ coded' \in 0..NumMbs
      /\ decMap' \in [Mb -> BOOLEAN] /\ decMap'[coded] = TRUE
      /\ \A m \in Mb : m # coded => decMap'[m] = decMap[m]
      /\ cur \in Nat /\ \A s \in Slice : s \in Nat /\ sliceStart[s] \in Nat
  BY DEF MarkMb
<1>2. sliceMap[coded] = cur /\ entry[cur] # "old" /\ sliceStart[cur] <= coded
  BY DEF Numbers, Begun
<1>3. \A m \in Mb : m < coded' => m = coded \/ m < coded
  BY <1>1
<1>4. \A k \in Mb : k < coded => sliceMap[k] <= cur
  BY DEF Numbers, Ordered
<1>5. Ordered'
  <2>1. \A m \in Mb : decMap'[m] <=> m < coded'
    BY <1>1 DEF Numbers, Ordered
  <2>2. \A m \in Mb : m < coded' =>
           entry'[sliceMap'[m]] # "old" /\ sliceStart'[sliceMap'[m]] <= m /\ sliceMap'[m] <= cur'
    BY <1>1, <1>2, <1>3 DEF Numbers, Ordered
  <2>3. ASSUME NEW m \in Mb, NEW k \in Mb, m < coded', k <= m
        PROVE  /\ sliceMap'[k] <= sliceMap'[m]
               /\ sliceStart'[sliceMap'[m]] <= k => sliceMap'[k] = sliceMap'[m]
    <3>1. CASE m < coded
      BY <2>3, <3>1 DEF Numbers, Ordered
    <3>2. CASE m = coded
      BY <1>1, <1>2, <1>4, <2>3, <3>2 DEF Numbers, Begun
    <3>3. QED
      BY <1>3, <2>3, <3>1, <3>2
  <2>4. ASSUME NEW m \in Mb, NEW s \in Slice,
               0 < m, m < coded', sliceMap'[m-1] < s, s < sliceMap'[m]
        PROVE  sliceStart'[s] < m /\ skips' > 0
    BY <1>2, <1>3, <2>4 DEF Numbers, Ordered, Begun
  <2>5. coded' > 0 => sliceMap'[0] = 0
    BY <1>1, <1>2 DEF Numbers, Ordered, Begun
  <2>6. QED
    BY <2>1, <2>2, <2>3, <2>4, <2>5 DEF Ordered
<1>6. Begun'
  <2>1. coded' - 1 = coded /\ coded' > 0 /\ ~(cur < cur)
    BY <1>1
  <2>2. \A k \in Mb : sliceStart[cur] <= k /\ k < coded' => sliceMap[k] = cur
    BY <1>2, <1>3 DEF Numbers, Begun
  <2>3. \A s \in Slice : ~(s < cur /\ (coded' > 0 => sliceMap[coded'-1] < s))
    BY <1>1, <1>2, <2>1
  <2>4. QED
    BY <1>1, <1>2, <2>1, <2>2, <2>3 DEF Numbers, Begun
<1>7. QED
  BY <1>1, <1>5, <1>6 DEF Numbers

-----------------------------------------------------------------------------
(* The threads keep their places while the parser goes on. *)

\* What the parser does to a picture that is begun: it adds to it.
Extends ==
  /\ coded <= coded' /\ skips <= skips'
  /\ \A m \in Mb : m < coded => sliceMap'[m] = sliceMap[m]
  /\ \A s \in Slice : entry[s] # "old" => entry'[s] # "old"

\* A thread that looks for its slice keeps its place while parsing goes on,
LEMMA SliceStays ==
  ASSUME Typed, Typed', Extends, NEW mb \in Nat, NEW s \in Nat, NEW f \in 0..NumMbs,
         AtSlice(mb, s, f)
  PROVE  AtSlice(mb, s, f)'
<1> USE MbFacts DEF Typed
<1>1. f \in Mb /\ \A m \in Mb : m < f => m < coded
  BY DEF AtSlice
<1>2. QED
  BY <1>1 DEF AtSlice, Extends

\* one that is in its slice does too,
LEMMA RowStays ==
  ASSUME Typed, Typed', Ordered', Extends, skips \in Nat, skips' \in Nat,
         NEW mb \in Nat, NEW s \in Slice, NEW f \in 0..NumMbs,
         AtRow(mb, s, f)
  PROVE  AtRow(mb, s, f)'
<1> USE MbFacts DEF Typed
<1>1. f \in Mb /\ f <= coded /\ \A m \in Mb : m < f => sliceMap'[m] = sliceMap[m]
  BY DEF AtRow, Extends
<1>2. f < coded => sliceMap'[f] = sliceMap[f] /\ f < coded'
  BY <1>1 DEF Extends
<1>3. CASE /\ mb < f /\ f < coded
           /\ \A m \in Mb : m < f => sliceMap[m] < s
           /\ s < sliceMap[f] /\ skips > 0
  BY <1>1, <1>2, <1>3 DEF AtRow, Extends
<1>4. CASE /\ mb = f /\ entry[s] # "old"
           /\ \A m \in Mb : m < f => sliceMap[m] <= s
           /\ f < coded => s <= sliceMap[f]
           /\ f >= coded => f = coded /\ f > 0 /\ sliceMap[f-1] = s
  <2>1. entry'[s] # "old" /\ \A m \in Mb : m < f => sliceMap'[m] <= s
    BY <1>1, <1>4 DEF Extends
  <2>2. f >= coded => f - 1 \in Mb /\ f - 1 < f /\ sliceMap'[f-1] = s
    BY <1>1, <1>4
  <2>3. f < coded' => s <= sliceMap'[f]
    <3>1. CASE f < coded
      BY <1>2, <1>4, <3>1
    <3>2. CASE f >= coded
      BY <1>1, <2>2, <3>2 DEF Ordered
    <3>3. QED
      BY <1>1, <3>1, <3>2
  <2>4. f >= coded' => f = coded' /\ f > 0 /\ sliceMap'[f-1] = s
    BY <1>1, <1>2, <1>4, <2>2 DEF Extends
  <2>5. QED
    BY <1>1, <1>4, <2>1, <2>3, <2>4 DEF AtRow
<1>5. QED
  BY <1>3, <1>4 DEF AtRow

\* and one that has a group of macroblocks.
LEMMA MbsStay ==
  ASSUME Typed, Typed', Extends, NEW mb \in Nat, NEW s \in Slice, NEW f \in 0..NumMbs,
         NEW n \in Nat, AtMbs(mb, s, f, n)
  PROVE  AtMbs(mb, s, f, n)'
<1> USE MbFacts DEF Typed
<1>1. f \in Mb /\ f + n <= RowEnd(f) + 1 /\ RowEnd(f) < coded /\ n >= 1
  BY DEF AtMbs
<1>2. RowEnd(f) \in Mb /\ RowEnd(f) \in Nat /\ f <= RowEnd(f)
  BY <1>1, RowFacts
<1>3. \A m \in Mb : m < f + n \/ m <= RowEnd(f) => sliceMap'[m] = sliceMap[m]
  BY <1>1, <1>2 DEF Extends
<1>4. f + n <= RowEnd(f) => f + n \in Mb /\ sliceMap'[f+n] = sliceMap[f+n]
  <2>1. SUFFICES ASSUME f + n <= RowEnd(f) PROVE f + n \in Mb
    BY <1>3
  <2>2. f + n \in Nat /\ f + n < NumMbs
    BY <1>1, <1>2, <2>1
  <2>3. QED
    BY <2>2
<1>5. RowEnd(f) < coded' /\ entry'[s] # "old"
  BY <1>1, <1>2 DEF Extends, AtMbs
<1>6. \A m \in Mb : m < f => sliceMap'[m] <= s
  BY <1>1, <1>3 DEF AtMbs
<1>7. \A m \in Mb : f <= m /\ m < f + n => sliceMap'[m] = s
  BY <1>1, <1>3 DEF AtMbs
<1>8. mb = f /\ f < NumMbs /\ (f + n <= RowEnd(f) => sliceMap'[f+n] # s)
  BY <1>4 DEF AtMbs
<1>9. QED
  BY <1>1, <1>5, <1>6, <1>7, <1>8 DEF AtMbs

\* Both threads stay where they are.
LEMMA PlacesStay ==
  ASSUME Typed, Typed', Ordered', Extends, skips \in Nat, skips' \in Nat,
         UNCHANGED <<decVars, reconVars, reconMap, deblkMb, deblkAt, recon, tpc, start, cores>>,
         NEW f \in 0..NumMbs
  PROVE  /\ DecPlace(f) => DecPlace(f)'
         /\ ReconPlace(f) => ReconPlace(f)'
<1>1. /\ decMb' = decMb /\ decSlice' = decSlice /\ todo' = todo
      /\ reconMb' = reconMb /\ reconSlice' = reconSlice /\ bsMb' = bsMb
      /\ reconMap' = reconMap /\ deblkMb' = deblkMb /\ deblkAt' = deblkAt
      /\ recon' = recon /\ tpc' = tpc /\ start' = start /\ cores' = cores
  BY DEF decVars, reconVars
<1>2. /\ decMb \in Nat /\ decSlice \in Slice /\ decSlice \in Nat /\ todo \in Nat
      /\ reconMb \in Nat /\ reconSlice \in Slice /\ reconSlice \in Nat /\ coded \in Nat
      /\ coded' \in Nat /\ reconSlice + 1 \in Nat /\ f \in Nat
  BY MbFacts DEF Typed
<1>3. ASSUME DecPlace(f) PROVE DecPlace(f)'
  <2>1. f <= coded'
    BY <1>2, <1>3 DEF DecPlace, Extends
  <2>2. tpc[DecThread] = "slice" => AtSlice(decMb, decSlice, f)'
    BY <1>1, <1>2, <1>3, SliceStays DEF DecPlace, AtSlice
  <2>3. tpc[DecThread] = "row" => AtRow(decMb, decSlice, f)'
    BY <1>1, <1>2, <1>3, RowStays DEF DecPlace, AtRow
  <2>4. tpc[DecThread] = "mbs" => AtMbs(decMb, decSlice, f, todo)'
    BY <1>1, <1>2, <1>3, MbsStay DEF DecPlace, AtMbs
  <2>5. QED
    BY <1>1, <1>3, <2>1, <2>2, <2>3, <2>4 DEF DecPlace, Told, Finished
<1>4. ASSUME ReconPlace(f) PROVE ReconPlace(f)'
  <2>1. tpc[ReconThread] = "slice" => AtSlice(reconMb, reconSlice, f)'
    BY <1>1, <1>2, <1>4, SliceStays DEF ReconPlace, AtSlice
  <2>2. tpc[ReconThread] = "row" => AtRow(reconMb, reconSlice, f)'
    BY <1>1, <1>2, <1>4, RowStays DEF ReconPlace, AtRow
  <2>3. tpc[ReconThread] = "deblock" => AtSlice(reconMb, reconSlice + 1, f)'
    BY <1>1, <1>2, <1>4, SliceStays DEF ReconPlace, AtSlice
  <2>4. ASSUME tpc[ReconThread] = "deblockrow", f < NumMbs PROVE AtRow(f, reconSlice, f)'
    <3>1. AtRow(f, reconSlice, f)
      BY <1>4, <2>4 DEF ReconPlace
    <3>2. QED
      BY <1>1, <1>2, <3>1, RowStays DEF AtRow
  <2>5. /\ skips' = 0 => skips = 0
        /\ skips > 0 => skips' > 0
        /\ entry[reconSlice] # "old" => entry'[reconSlice] # "old"
    BY <1>2 DEF Extends
  <2>6. QED
    BY <1>1, <1>4, <2>1, <2>2, <2>3, <2>4, <2>5 DEF ReconPlace, Told, Finished, RowStart
<1>5. QED
  BY <1>3, <1>4

-----------------------------------------------------------------------------
(* Parsing. *)

\* The types of the parser's counters.
ParserTyped == pend \in Nat /\ upto \in Nat /\ missing \in Nat

\* The parser's place after each of its steps but the first slice.
LEMMA ParseControl ==
  ASSUME Typed, Control, DInv, ParseStep, ~\E m \in 0..NumMbs : FirstSlice(m)
  PROVE  Control' /\ ParserTyped' /\ main \in InCall /\ main' \in InPicture
         /\ UNCHANGED <<first, keep, cores>>
<1> USE MbFacts DEF Typed, ParserTyped
<1>0. coded \in Nat /\ coded <= NumMbs
  OBVIOUS
<1>1. coded < NumMbs => RowEnd(coded) \in Nat /\ RowEnd(coded) < NumMbs /\ coded <= RowEnd(coded)
  <2>1. coded < NumMbs => coded \in Mb
    OBVIOUS
  <2>2. QED
    BY <2>1, RowFacts
<1>2. CASE NextSlice
  BY <1>0, <1>2 DEF NextSlice, Control, rowsVars, parseVars, decVars, reconVars, sampleVars,
     callVars, parserVars, Active, InCall, InPicture, Passing
<1>3. CASE SliceHeader
  BY <1>0, <1>3 DEF SliceHeader, EnterSlice, Control, decVars, reconVars, sampleVars,
     callVars, Active, InCall, InPicture, Passing
<1>4. CASE BadHeader
  BY <1>0, <1>4 DEF BadHeader, EnterSlice, Control, decVars, reconVars, sampleVars,
     callVars, Active, InCall, InPicture, Passing
<1>5. CASE SkipSlice
  BY <1>0, <1>5 DEF SkipSlice, Control, decVars, reconVars, sampleVars,
     callVars, Active, InCall, InPicture, Passing
<1>6. CASE ParseGroup
  <2>1. upto' \in Nat /\ coded < upto' /\ upto' <= NumMbs /\ coded < NumMbs /\ main = "slice"
    BY <1>0, <1>1, <1>6 DEF ParseGroup, Control
  <2>2. header /\ ~first
    BY <1>6 DEF ParseGroup, Control, InCall, InPicture
  <2>3. ~(pend > 0)
    BY <2>1, <2>2 DEF Control, Active, InCall, InPicture
  <2>4. QED
    BY <1>0, <1>6, <2>1, <2>2, <2>3 DEF ParseGroup, Control, rowsVars, parseVars, decVars,
       reconVars, sampleVars, callVars, Active, InCall, InPicture, Passing
<1>7. CASE FailSlice
  <2>1. pend' \in Nat /\ coded + pend' <= NumMbs
    <3>1. coded < NumMbs /\ pend' \in 0..RowEnd(coded)-coded
      BY <1>7 DEF FailSlice, Control
    <3>2. RowEnd(coded) \in Nat /\ RowEnd(coded) < NumMbs
      BY <1>1, <3>1
    <3>3. \A p \in 0..RowEnd(coded)-coded : p \in Nat /\ coded + p <= NumMbs
      BY <1>0, <3>2
    <3>4. QED
      BY <3>1, <3>3
  <2>2. QED
    BY <1>0, <1>7, <2>1 DEF FailSlice, Control, rowsVars, parseVars, decVars, reconVars,
       sampleVars, callVars, Active, InCall, InPicture, Passing
<1>8. CASE (\E m \in Mb \cup {NumMbs} : LostSlice(m)) \/ Missing
  <2>1. /\ missing' \in Nat /\ missing' > 0 /\ coded < NumMbs /\ ~first
        /\ after' = "end" /\ main \in {"nal", "end"}
        /\ main' = IF header /\ pend > 0 THEN "pending" ELSE "lost"
        /\ upto' = IF header THEN coded + pend ELSE 0
    BY <1>0, <1>8 DEF LostSlice, Missing
  <2>2. /\ UNCHANGED <<first, header, seen, next, pend, numbered, coded, cur, decMb, reconMb,
                       bsMb, cores, keep>>
    BY <1>8 DEF LostSlice, Missing, rowsVars, parseVars, decVars, reconVars, sampleVars,
                callVars
  <2>3. pend > 0 => header /\ ~next /\ coded + pend <= NumMbs
    BY <2>1 DEF Control, Active, InCall, InPicture
  <2>4. ~numbered
    BY <2>1 DEF Control, Passing
  <2>5. upto' \in Nat /\ (pend > 0 => coded < upto' /\ upto' <= NumMbs /\ upto' = coded + pend)
    BY <1>0, <2>1, <2>3
  <2>6. QED
    BY <1>0, <2>1, <2>2, <2>3, <2>4, <2>5 DEF Control, Active, InCall, InPicture, Passing
<1>9. CASE LeaveLoop
  BY <1>0, <1>9 DEF LeaveLoop, Control, rowsVars, parseVars, decVars, reconVars, sampleVars,
     callVars, Active, InCall, InPicture, Passing
<1>10. CASE Conceal
  <2>1. /\ main = "lost" /\ main' = "conceal" /\ missing > 0 /\ coded < NumMbs
        /\ upto' = Smaller(coded + missing, NumMbs) /\ header' = TRUE /\ missing' = 0
        /\ UNCHANGED <<first, pend, numbered, coded, after, cores, keep>>
    BY <1>10 DEF Conceal, Control, callVars
  <2>2. upto' \in Nat /\ coded < upto' /\ upto' <= NumMbs
    BY <1>0, <2>1 DEF Smaller
  <2>3. ~first /\ ~(pend > 0) /\ after' \in {"header", "end"}
    BY <2>1 DEF Control, Active, InCall, InPicture
  <2>4. QED
    BY <1>0, <2>1, <2>2, <2>3 DEF Control, Active, InCall, InPicture, Passing
<1>11. CASE PassNumber
  BY <1>0, <1>11 DEF PassNumber, Control, decVars, reconVars, sampleVars,
     callVars, Active, InCall, InPicture, Passing
<1>12. CASE PassMark
  <2>1. /\ main \in Passing /\ main \in InPicture /\ header /\ coded < upto /\ upto <= NumMbs
        /\ coded' = coded + 1 /\ ~numbered'
        /\ pend' = IF main = "pending" THEN pend - 1 ELSE pend
        /\ UNCHANGED <<first, header, next, missing, cores, keep>>
    BY <1>12 DEF PassMark, MarkMb, Control, InPicture, callVars
  <2>2. ~first
    BY <2>1 DEF Control, InCall, Passing
  <2>3. main = "pending" => pend > 0 /\ upto = coded + pend /\ ~next /\ missing > 0
    BY <2>1, <2>2 DEF Control, Active, InCall, InPicture
  <2>4. main # "pending" => ~(pend > 0)
    BY <2>1, <2>2 DEF Control, Active, InCall, InPicture, Passing
  <2>5. /\ pend' \in Nat /\ (pend' > 0 => main = "pending")
        /\ main = "pending" => upto = coded' + pend'
    BY <1>0, <2>1, <2>3, <2>4
  <2>6. CASE coded' < upto
    <3>1. main' = main /\ upto' = upto /\ after' = after
      BY <1>12, <2>6 DEF PassMark
    <3>2. main = "pending" => pend' > 0 /\ coded' + pend' <= NumMbs
      BY <1>0, <2>1, <2>5, <2>6
    <3>3. QED
      BY <1>0, <2>1, <2>2, <2>3, <2>5, <2>6, <3>1, <3>2
         DEF Control, Active, InCall, InPicture, Passing
  <2>7. CASE ~(coded' < upto)
    <3>1. /\ main' = IF coded' = NumMbs THEN "end"
                     ELSE IF main = "pending" THEN "lost" ELSE after
          /\ upto' = 0 /\ after' = IF main' = "lost" THEN after ELSE "nal"
      BY <1>12, <2>7 DEF PassMark
    <3>2. coded' = upto /\ ~(pend' > 0)
      BY <1>0, <2>1, <2>5, <2>7
    <3>3. /\ main = "group" => after \in {"slice", "nal"}
          /\ main \in {"conceal", "pending"} => after \in {"header", "end"}
          /\ main \in {"group", "pending", "conceal"}
      BY <2>1 DEF Control, Passing
    <3>4. coded' # NumMbs => coded' < NumMbs
      BY <1>0, <2>1, <3>2
    <3>5. /\ main' \in {"end", "lost", "slice", "nal", "header"}
          /\ main' \in {"lost", "slice", "header"} => coded' < NumMbs
          /\ main' = "lost" => missing' > 0 /\ after' \in {"header", "end"}
      BY <2>1, <2>3, <3>1, <3>3, <3>4
    <3>6. QED
      BY <2>1, <2>2, <2>5, <3>1, <3>2, <3>5
         DEF Control, Active, InCall, InPicture, Passing
  <2>8. QED
    BY <2>6, <2>7
<1>13. QED
  BY <1>2, <1>3, <1>4, <1>5, <1>6, <1>7, <1>8, <1>9, <1>10, <1>11, <1>12 DEF ParseStep

\* The calling thread parses.
Parsing == InPicture \ {"deblock", "waitDec"}

\* What every step of parsing has to show: the slices are still in order, and
\* they were only added to.
LEMMA ParsePicture ==
  ASSUME PicInv, Fits, skips' \in Nat, Typed', Control', Extends,
         Active => Numbers', sliceStart'[0] = 0,
         main \in Parsing, main' \in Parsing,
         seen => seen', \A s \in Slice : entry'[s] = "header" => entry[s] = "header" \/ seen',
         UNCHANGED <<decVars, reconVars, reconMap, deblkMb, deblkAt, recon, tpc, start, cores,
                     created, keep, breakAll, first>>
  PROVE  PicInv'
<1>1. /\ Typed /\ Control /\ Picture /\ DeblockLags /\ Away /\ skips \in Nat
      /\ main \in InCall /\ main' \in InCall /\ main # "waitRecon" /\ main' # "waitRecon"
  BY DEF PicInv, Parsing, InCall, InPicture, Passing
<1>2. ASSUME Active' PROVE Picture'
  <2>1. Active /\ Numbers'
    BY <1>1, <1>2 DEF Active
  <2>2. \E f \in 0..NumMbs : DecPlace(f)'
    BY <1>1, <2>1, PlacesStay DEF Picture, Numbers
  <2>3. cores' = 3 => \E r \in 0..NumMbs : ReconPlace(r)'
    BY <1>1, <2>1, PlacesStay DEF Picture, Numbers
  <2>4. Running'
    BY <1>1, <2>1 DEF Picture, Running, Parsing, InPicture, Passing
  <2>5. QED
    BY <2>1, <2>2, <2>3, <2>4 DEF Picture
<1>3. Picture'
  BY <1>2 DEF Picture
<1>4. Away'
  BY <1>1 DEF Away, Parsing, InPicture, Passing, InCall
<1>5. DeblockLags'
  BY <1>1 DEF DeblockLags
<1>6. QED
  BY <1>1, <1>3, <1>4, <1>5 DEF PicInv

\* What the steps of parsing but the first slice leave alone.
LEMMA ParseLeaves ==
  ASSUME ParseStep, ~\E m \in 0..NumMbs : FirstSlice(m)
  PROVE  UNCHANGED <<decVars, reconVars, reconMap, deblkMb, deblkAt, recon, tpc, start, cores,
                     created, keep, breakAll, first>>
<1>1. CASE NextSlice \/ LeaveLoop \/ Missing \/ \E m \in Mb \cup {NumMbs} : LostSlice(m)
  BY <1>1 DEF NextSlice, LeaveLoop, Missing, LostSlice, rowsVars, sampleVars, callVars,
              parserVars, syncVars
<1>2. CASE ParseGroup \/ FailSlice
  BY <1>2 DEF ParseGroup, FailSlice, rowsVars, sampleVars, callVars, syncVars
<1>3. CASE SliceHeader \/ BadHeader \/ SkipSlice \/ Conceal
  BY <1>3 DEF SliceHeader, BadHeader, SkipSlice, Conceal, sampleVars, callVars, syncVars
<1>4. CASE PassNumber \/ PassMark
  BY <1>4 DEF PassNumber, PassMark, sampleVars, callVars, syncVars
<1>5. QED
  BY <1>1, <1>2, <1>3, <1>4 DEF ParseStep

\* A step that reads no macroblock and takes no number adds nothing.
LEMMA NothingParsed ==
  ASSUME Typed, skips \in Nat, UNCHANGED <<parseVars, skips>>
  PROVE  /\ Extends
         /\ Ordered => Ordered'
         /\ Numbers /\ header' = header /\ (numbered' => numbered) => Numbers'
         /\ sliceStart'[0] = sliceStart[0]
<1>1. /\ coded' = coded /\ cur' = cur /\ sliceStart' = sliceStart /\ sliceMap' = sliceMap
      /\ decMap' = decMap /\ entry' = entry /\ skips' = skips /\ coded \in Nat
  BY MbFacts DEF parseVars, Typed
<1>2. Extends
  BY <1>1 DEF Extends
<1>3. Ordered => Ordered'
  BY <1>1 DEF Ordered
<1>4. Numbers /\ header' = header /\ (numbered' => numbered) => Begun'
  BY <1>1 DEF Numbers, Begun
<1>5. QED
  BY <1>1, <1>2, <1>3, <1>4 DEF Numbers

\* The types of what a step of parsing changes.
LEMMA ParseTyped ==
  ASSUME Typed, ParserTyped',
         UNCHANGED <<decVars, reconVars, reconMap, deblkMb, deblkAt, recon, cores>>,
         coded' \in 0..NumMbs, cur' \in Slice, sliceStart' \in [Slice -> Nat],
         sliceMap' \in [Mb -> Slice], decMap' \in [Mb -> BOOLEAN],
         entry' \in [Slice -> {"old", "header", "lost"}]
  PROVE  Typed'
BY DEF Typed, ParserTyped, decVars, reconVars

\* Every step of parsing but the first slice of a picture keeps the invariant.
LEMMA ParseKeepsPic ==
  ASSUME DInv, PicInv, Fits, Fits', ParseStep, ~\E m \in 0..NumMbs : FirstSlice(m)
  PROVE  PicInv'
<1>1. /\ Typed /\ Control /\ sliceStart[0] = 0 /\ Picture /\ skips \in Nat
      /\ coded \in 0..NumMbs /\ coded \in Nat
  BY MbFacts DEF PicInv, Typed
<1>2. /\ Control' /\ ParserTyped' /\ main \in InCall /\ main' \in InPicture
      /\ UNCHANGED <<first, keep, cores>>
  BY <1>1, ParseControl
<1>3. UNCHANGED <<decVars, reconVars, reconMap, deblkMb, deblkAt, recon, tpc, start, cores,
                  created, keep, breakAll, first>>
  BY ParseLeaves
<1>4. Active => Numbers
  BY <1>1 DEF Picture
<1>5. main = "nal" \/ main = "end" \/ main = "slice" \/ main = "header" \/ main = "lost" \/ main \in Passing
  BY DEF ParseStep, NextSlice, SliceHeader, BadHeader, SkipSlice, ParseGroup, FailSlice,
         LostSlice, LeaveLoop, Missing, Conceal, PassNumber, PassMark
<1>6. main \in Parsing
  BY <1>5 DEF Parsing, InPicture, Passing
<1>7. main \in {"header", "lost", "slice"} \cup Passing => Active /\ Numbers
  BY <1>1, <1>2, <1>4 DEF Control, Active, Passing
<1>8. main' \in Parsing
  <2>1. after \in {"nal", "slice", "header", "end"} \/ main \notin Passing
    BY <1>1 DEF Control, Passing
  <2>2. main' \notin {"deblock", "waitDec"}
    BY <2>1 DEF ParseStep, NextSlice, SliceHeader, BadHeader, SkipSlice, ParseGroup, FailSlice,
         LostSlice, LeaveLoop, Missing, Conceal, PassNumber, PassMark, Passing
  <2>3. QED
    BY <1>2, <2>2 DEF Parsing
<1>9. ASSUME UNCHANGED <<parseVars, skips, header, seen>>, numbered' => numbered
      PROVE  PicInv'
  <2>1. Extends /\ (Active => Numbers') /\ sliceStart'[0] = 0
    BY <1>1, <1>4, <1>9, NothingParsed
  <2>2. Typed'
    BY <1>1, <1>2, <1>3, <1>9, ParseTyped DEF Typed, parseVars
  <2>3. skips' \in Nat /\ (seen => seen')
        /\ \A s \in Slice : entry'[s] = "header" => entry[s] = "header"
    BY <1>1, <1>9 DEF parseVars
  <2>4. QED
    BY <1>2, <1>3, <1>6, <1>8, <2>1, <2>2, <2>3, ParsePicture
<1>10. ASSUME NEW how \in {"header", "lost"}, NEW num,
              num = NextNum \/ (num = cur /\ ~header),
              EnterSlice(num, how), main \in {"header", "lost"},
              seen => seen', how = "header" => seen', numbered' = numbered,
              UNCHANGED <<coded, sliceMap, decMap, skips>>
       PROVE  PicInv'
  <2>1. Numbers /\ coded < NumMbs /\ ~numbered
    BY <1>1, <1>7, <1>10 DEF Control, Passing
  <2>2. /\ Numbers' /\ cur' \in Slice /\ sliceStart' \in [Slice -> Nat]
        /\ entry' \in [Slice -> {"old", "header", "lost"}]
        /\ \A s \in Slice : entry[s] # "old" => entry'[s] # "old"
        /\ \A s \in Slice : how = "lost" /\ entry'[s] = "header" => entry[s] = "header"
    BY <1>1, <1>10, <2>1, EntersNumber
  <2>3. Typed'
    BY <1>1, <1>2, <1>3, <1>10, <2>2, ParseTyped DEF Typed
  <2>4. Extends /\ sliceStart'[0] = 0
    BY <1>1, <1>10, <2>2 DEF Extends, Numbers, Begun
  <2>5. \A s \in Slice : entry'[s] = "header" => entry[s] = "header" \/ seen'
    BY <1>10, <2>2
  <2>6. QED
    BY <1>1, <1>2, <1>3, <1>6, <1>8, <1>10, <2>2, <2>3, <2>4, <2>5, ParsePicture
<1>11. CASE NextSlice \/ LeaveLoop \/ Missing \/ \E m \in Mb \cup {NumMbs} : LostSlice(m)
  BY <1>9, <1>11 DEF NextSlice, LeaveLoop, Missing, LostSlice, rowsVars, callVars, parserVars
<1>12. CASE ParseGroup \/ FailSlice
  BY <1>9, <1>12 DEF ParseGroup, FailSlice, rowsVars, callVars
<1>13. CASE SliceHeader \/ BadHeader
  BY <1>10, <1>13 DEF SliceHeader, BadHeader, callVars
<1>14. CASE Conceal
  <2>1. \/ header /\ EnterSlice(NextNum, "lost")
        \/ ~header /\ EnterSlice(cur, "lost")
    BY <1>14 DEF Conceal
  <2>2. main = "lost" /\ UNCHANGED <<seen, numbered, coded, sliceMap, decMap, skips>>
    BY <1>14 DEF Conceal, callVars
  <2>3. QED
    BY <1>10, <2>1, <2>2
<1>15. CASE SkipSlice
  <2>1. /\ main = "header" /\ skips' = skips + 1 /\ cur' = NextNum /\ ~header'
        /\ UNCHANGED <<coded, sliceStart, sliceMap, decMap, entry, seen, numbered>>
    BY <1>15 DEF SkipSlice
  <2>2. Numbers /\ coded < NumMbs /\ ~numbered
    BY <1>1, <1>7, <2>1 DEF Control, Passing
  <2>3. Numbers' /\ cur' \in Slice
    BY <1>1, <2>1, <2>2, SkipsNumber
  <2>4. Typed'
    BY <1>1, <1>2, <1>3, <2>1, <2>3, ParseTyped DEF Typed
  <2>5. Extends /\ skips' \in Nat
    BY <1>1, <2>1 DEF Extends
  <2>6. QED
    BY <1>1, <1>2, <1>3, <1>6, <1>8, <2>1, <2>3, <2>4, <2>5, ParsePicture
<1>16. CASE PassNumber
  <2>1. /\ main \in Passing /\ NumberMb /\ numbered'
        /\ UNCHANGED <<coded, cur, sliceStart, decMap, entry, seen, skips, header>>
    BY <1>16 DEF PassNumber, callVars
  <2>2. Numbers /\ coded < NumMbs /\ header
    <3>1. header /\ coded < upto /\ upto <= NumMbs /\ upto \in Nat
      BY <1>1, <2>1 DEF Control, Typed
    <3>2. QED
      BY <1>1, <1>7, <2>1, <3>1, MbFacts
  <2>3. /\ Numbers' /\ sliceMap' \in [Mb -> Slice]
        /\ \A m \in Mb : m < coded => sliceMap'[m] = sliceMap[m]
    BY <1>1, <2>1, <2>2, NumbersMb
  <2>4. Typed'
    BY <1>1, <1>2, <1>3, <2>1, <2>3, ParseTyped DEF Typed
  <2>5. Extends
    BY <1>1, <2>1, <2>3 DEF Extends
  <2>6. QED
    BY <1>1, <1>2, <1>3, <1>6, <1>8, <2>1, <2>3, <2>4, <2>5, ParsePicture
<1>17. CASE PassMark
  <2>1. /\ main \in Passing /\ MarkMb /\ numbered /\ ~numbered'
        /\ UNCHANGED <<cur, sliceStart, sliceMap, entry, seen, skips, header>>
    BY <1>17 DEF PassMark, callVars
  <2>2. Numbers /\ coded < NumMbs /\ header
    <3>1. header /\ coded < upto /\ upto <= NumMbs /\ upto \in Nat
      BY <1>1, <2>1 DEF Control, Typed
    <3>2. QED
      BY <1>1, <1>7, <2>1, <3>1, MbFacts
  <2>3. Numbers' /\ coded' = coded + 1 /\ coded' \in 0..NumMbs /\ decMap' \in [Mb -> BOOLEAN]
    BY <1>1, <2>1, <2>2, MarksMb
  <2>4. Typed'
    BY <1>1, <1>2, <1>3, <2>1, <2>3, ParseTyped DEF Typed
  <2>5. Extends
    BY <1>1, <2>1, <2>3 DEF Extends
  <2>6. QED
    BY <1>1, <1>2, <1>3, <1>6, <1>8, <2>1, <2>3, <2>4, <2>5, ParsePicture
<1>18. QED
  BY <1>11, <1>12, <1>13, <1>14, <1>15, <1>16, <1>17 DEF ParseStep

-----------------------------------------------------------------------------
(* The threads. *)

\* Where the recon thread is tells that deblocking lags behind it.
LEMMA PlaceLags ==
  ASSUME Typed', NEW r \in 0..NumMbs, ReconPlace(r)'
  PROVE  DeblockLags'
<1>1. SUFFICES ASSUME NEW m \in Mb, m < deblkMb'
               PROVE  recon'[m] > 0 /\ recon'[Smaller(m + 1, RowEnd(m))] > 0
  BY DEF DeblockLags
<1>2. /\ m \in Nat /\ r \in Nat /\ deblkMb' \in Nat /\ deblkMb' <= r /\ NumMbs \in Nat
      /\ r <= NumMbs /\ deblkMb' = r => RowStart(r)
      /\ \A k \in Mb : k < r => recon'[k] > 0
  BY MbFacts DEF Typed, ReconPlace, RowStart, EndOfRow, RowEnd
<1>3. RowEnd(m) \in Mb /\ RowEnd(m) \in Nat /\ m <= RowEnd(m)
  BY RowFacts, MbFacts
<1>4. CASE m + 1 < r
  <2>1. Smaller(m + 1, RowEnd(m)) \in Mb /\ Smaller(m + 1, RowEnd(m)) < r
    BY <1>2, <1>3, <1>4, MbFacts DEF Smaller
  <2>2. m < r
    BY <1>2, <1>4
  <2>3. QED
    BY <1>2, <2>1, <2>2
<1>5. CASE m + 1 = r
  <2>1. deblkMb' = r /\ r - 1 = m /\ r > 0
    BY <1>1, <1>2, <1>5
  <2>2. RowEnd(m) = m
    BY <1>2, <2>1 DEF RowStart, EndOfRow
  <2>3. Smaller(m + 1, RowEnd(m)) = m
    BY <1>2, <2>2 DEF Smaller
  <2>4. QED
    BY <1>1, <1>2, <1>5, <2>3
<1>6. QED
  BY <1>1, <1>2, <1>4, <1>5

\* The recon thread keeps its place while others work.
LEMMA ReconStays ==
  ASSUME NEW r \in 0..NumMbs, ReconPlace(r),
         UNCHANGED <<coded, sliceMap, entry, skips, recon, deblkMb, deblkAt, reconVars>>,
         \A m \in Mb : reconMap[m] => reconMap'[m],
         tpc'[ReconThread] = tpc[ReconThread], start'[ReconThread] = start[ReconThread]
  PROVE  ReconPlace(r)'
<1>1. /\ coded' = coded /\ sliceMap' = sliceMap /\ entry' = entry /\ skips' = skips
      /\ recon' = recon /\ deblkMb' = deblkMb /\ deblkAt' = deblkAt
      /\ reconMb' = reconMb /\ reconSlice' = reconSlice /\ bsMb' = bsMb
  BY DEF reconVars
<1>2. QED
  BY <1>1 DEF ReconPlace, AtSlice, AtRow, Told, Finished, RowStart

\* The decode thread keeps its place while others work.
LEMMA DecStays ==
  ASSUME NEW f \in 0..NumMbs, DecPlace(f),
         UNCHANGED <<coded, sliceMap, entry, skips, reconMap, decVars, cores>>,
         cores = 2 => recon' = recon,
         tpc'[DecThread] = tpc[DecThread], start'[DecThread] = start[DecThread]
  PROVE  DecPlace(f)'
<1>1. /\ coded' = coded /\ sliceMap' = sliceMap /\ entry' = entry /\ skips' = skips
      /\ reconMap' = reconMap /\ cores' = cores
      /\ decMb' = decMb /\ decSlice' = decSlice /\ todo' = todo
  BY DEF decVars
<1>2. QED
  BY <1>1 DEF DecPlace, AtSlice, AtRow, AtMbs, Told, Finished

\* What a step of a thread has to show.
LEMMA ThreadPicture ==
  ASSUME PicInv, Fits, Active, Typed',
         UNCHANGED <<parseVars, skips, cores, keep, first, header, seen, next, pend, numbered,
                     upto, after, missing, main, created, breakAll>>,
         \A t \in Threads : start'[t] = "init" => start[t] = "init",
         cores = 2 => deblkMb' = deblkMb,
         \E f \in 0..NumMbs : DecPlace(f)',
         cores = 3 => \E r \in 0..NumMbs : ReconPlace(r)',
         DeblockLags'
  PROVE  PicInv'
<1>1. /\ Typed /\ Control /\ sliceStart[0] = 0 /\ Picture /\ Away /\ skips \in Nat
      /\ Numbers /\ Running /\ ~first /\ main \in InCall
  BY DEF PicInv, Picture, Active
<1>2. /\ coded' = coded /\ entry' = entry /\ skips' = skips /\ cores' = cores /\ main' = main
      /\ sliceStart' = sliceStart
      /\ created' = created /\ keep' = keep /\ seen' = seen /\ first' = first
      /\ header' = header /\ numbered' = numbered /\ next' = next /\ pend' = pend
      /\ upto' = upto /\ after' = after /\ missing' = missing /\ breakAll' = breakAll
  BY DEF parseVars
<1>3. Numbers' /\ sliceStart'[0] = 0
  BY <1>1, NothingParsed
<1>4. Control'
  BY <1>1, <1>2 DEF Control, Active
<1>5. Running'
  BY <1>1, <1>2, TwoThreads DEF Running
<1>6. Picture'
  BY <1>2, <1>3, <1>5 DEF Picture
<1>7. Away'
  BY <1>1, <1>2 DEF Away, Active
<1>8. skips' \in Nat
  BY <1>1, <1>2
<1>9. QED
  BY <1>3, <1>4, <1>6, <1>7, <1>8 DEF PicInv

\* What every step of a thread inside a picture finds.
LEMMA InsidePicture ==
  ASSUME DInv, PicInv, Fits, NEW t \in Threads, tpc[t] \in Inside
  PROVE  /\ Active /\ Typed /\ Numbers /\ skips \in Nat /\ DeblockLags /\ sliceStart[0] = 0
         /\ \E f \in 0..NumMbs : DecPlace(f)
         /\ cores = 3 => \E r \in 0..NumMbs : ReconPlace(r)
         /\ t = ReconThread => cores = 3
         /\ tpc \in [Threads -> Places]
<1>1. Active
  BY DEF PicInv, Away, Active
<1>2. t = ReconThread => cores = 3
  BY InsideThread DEF DInv
<1>3. QED
  BY <1>1, <1>2 DEF PicInv, Picture, DInv, SyncTyped

\* The next slice, or the end of the picture.
LEMMA NextSlicePlace ==
  ASSUME Typed, NEW f \in 0..NumMbs, NEW mb \in 0..NumMbs, DecodeNextSlice(mb),
         mb = NumMbs => f = NumMbs,
         mb < NumMbs => decSlice + 1 \in Slice /\ AtSlice(mb, decSlice + 1, f),
         decMb' = mb, UNCHANGED <<coded, sliceMap>>,
         f <= coded, \A m \in Mb : reconMap'[m] <=> m < f,
         tpc \in [Threads -> Places],
         cores = 2 => \A m \in Mb : recon'[m] = IF m < f THEN 1 ELSE 0,
         cores' = cores
  PROVE  DecPlace(f)' /\ decSlice' \in Slice /\ tpc'[ReconThread] = tpc[ReconThread]
<1> USE MbFacts, TwoThreads
<1>1. CASE mb > NumMbs - 1
  <2>1. tpc' = [tpc EXCEPT ![DecThread] = "last"] /\ decSlice' = decSlice /\ f = NumMbs
    BY <1>1 DEF DecodeNextSlice, TGoto
  <2>2. tpc'[DecThread] = "last" /\ tpc'[ReconThread] = tpc[ReconThread]
    BY <2>1
  <2>3. QED
    BY <2>1, <2>2 DEF DecPlace, Told, Finished, Typed
<1>2. CASE ~(mb > NumMbs - 1)
  <2>1. /\ tpc' = [tpc EXCEPT ![DecThread] = "slice"] /\ decSlice' = decSlice + 1
        /\ mb < NumMbs
    BY <1>2 DEF DecodeNextSlice, TGoto
  <2>2. tpc'[DecThread] = "slice" /\ tpc'[ReconThread] = tpc[ReconThread]
    BY <2>1
  <2>3. AtSlice(decMb, decSlice, f)'
    BY <2>1 DEF AtSlice
  <2>4. QED
    BY <2>1, <2>2, <2>3 DEF DecPlace, Told, Finished
<1>3. QED
  BY <1>1, <1>2

\* The decode thread takes its place from the table,
LEMMA DecodeSliceKeeps ==
  ASSUME DInv, PicInv, Fits, DecodeSlice,
         UNCHANGED <<main, callVars, parserVars, syncVars>>
  PROVE  PicInv'
<1> USE TwoThreads
<1>1. /\ tpc[DecThread] = "slice" /\ decMap[decMb] /\ decMb' = sliceStart[decSlice]
      /\ tpc' = [tpc EXCEPT ![DecThread] = "row"]
      /\ UNCHANGED <<cores, parseVars, decSlice, todo, reconVars, sampleVars>>
  BY DEF DecodeSlice, TGoto
<1>2. /\ Active /\ Typed /\ Numbers /\ skips \in Nat /\ DeblockLags /\ sliceStart[0] = 0
      /\ \E f \in 0..NumMbs : DecPlace(f)
      /\ cores = 3 => \E r \in 0..NumMbs : ReconPlace(r)
      /\ tpc \in [Threads -> Places]
  BY <1>1, InsidePicture DEF Inside
<1>3. PICK f \in 0..NumMbs : DecPlace(f)
  BY <1>2
<1>4. AtSlice(decMb, decSlice, f) /\ decMb \in Nat /\ decMb \in Mb /\ decSlice \in Slice
  BY <1>1, <1>2, <1>3, MbFacts DEF DecPlace, AtSlice, Typed
<1>5. AtRow(sliceStart[decSlice], decSlice, f) /\ sliceStart[decSlice] \in Nat
  BY <1>1, <1>2, <1>4, TakesPlace DEF Numbers, Ordered
<1>6. /\ coded' = coded /\ sliceMap' = sliceMap /\ entry' = entry /\ reconMap' = reconMap
      /\ recon' = recon /\ deblkMb' = deblkMb /\ deblkAt' = deblkAt /\ skips' = skips
      /\ start' = start /\ decSlice' = decSlice /\ todo' = todo /\ cores' = cores
  BY <1>1 DEF parseVars, sampleVars, callVars, syncVars
<1>7. tpc'[DecThread] = "row" /\ tpc'[ReconThread] = tpc[ReconThread]
  BY <1>1, <1>2
<1>8. AtRow(decMb, decSlice, f)'
  BY <1>1, <1>5, <1>6 DEF AtRow
<1>9. DecPlace(f)'
  BY <1>3, <1>6, <1>7, <1>8 DEF DecPlace, Told, Finished
<1>10. cores = 3 => \E r \in 0..NumMbs : ReconPlace(r)'
  BY <1>1, <1>2, <1>6, <1>7, ReconStays
<1>11. Typed'
  BY <1>1, <1>2, <1>5, <1>6 DEF Typed, parseVars, parserVars, reconVars
<1>12. DeblockLags'
  BY <1>2, <1>6 DEF DeblockLags
<1>13. QED
  BY <1>1, <1>2, <1>6, <1>9, <1>10, <1>11, <1>12, ThreadPicture
     DEF callVars, parserVars, syncVars

\* finds out what the row has of its slice,
LEMMA DecodeRowKeeps ==
  ASSUME DInv, PicInv, Fits, DecodeRow,
         UNCHANGED <<main, callVars, parserVars, syncVars>>
  PROVE  PicInv'
<1> USE TwoThreads
<1> DEFINE ours == LeadingMbs(decMb, decSlice)
           group == RowEnd(decMb) - decMb + 1
<1>1. /\ tpc[DecThread] = "row" /\ decMap[Smaller(decMb + group + 1, RowEnd(decMb))]
      /\ todo' = ours
      /\ IF ours = 0 THEN DecodeNextSlice(decMb)
                     ELSE tpc' = [tpc EXCEPT ![DecThread] = "mbs"] /\ decSlice' = decSlice
      /\ UNCHANGED <<cores, parseVars, decMb, reconVars, sampleVars>>
  BY DEF DecodeRow, TGoto
<1>2. /\ Active /\ Typed /\ Numbers /\ skips \in Nat /\ DeblockLags
      /\ \E f \in 0..NumMbs : DecPlace(f)
      /\ cores = 3 => \E r \in 0..NumMbs : ReconPlace(r)
      /\ tpc \in [Threads -> Places]
  BY <1>1, InsidePicture DEF Inside
<1>3. PICK f \in 0..NumMbs : DecPlace(f)
  BY <1>2
<1>4. AtRow(decMb, decSlice, f) /\ decMb \in Nat /\ decMb \in Mb /\ decSlice \in Slice
  BY <1>1, <1>2, <1>3, MbFacts DEF DecPlace, AtRow, Typed
<1>5. RowEnd(decMb) < coded
  <2>1. RowEnd(decMb) \in Mb /\ RowEnd(decMb) \in Nat /\ decMb <= RowEnd(decMb)
    BY <1>4, RowFacts, MbFacts
  <2>2. Smaller(decMb + group + 1, RowEnd(decMb)) = RowEnd(decMb)
    BY <1>4, <2>1 DEF Smaller
  <2>3. QED
    BY <1>1, <1>2, <2>1, <2>2 DEF Numbers, Ordered
<1>6. /\ ours \in 0..Wd
      /\ ours = 0 => AtSlice(decMb, decSlice + 1, f) /\ decSlice + 1 \in Slice /\ decMb < NumMbs
      /\ ours > 0 => AtMbs(decMb, decSlice, f, ours)
  BY <1>2, <1>4, <1>5, CutsRow DEF Numbers
<1> HIDE DEF ours, group
<1>7. /\ coded' = coded /\ sliceMap' = sliceMap /\ entry' = entry /\ reconMap' = reconMap
      /\ recon' = recon /\ deblkMb' = deblkMb /\ deblkAt' = deblkAt /\ skips' = skips
      /\ start' = start /\ decMb' = decMb /\ cores' = cores
  BY <1>1 DEF parseVars, sampleVars, callVars, syncVars
<1>8. DecPlace(f)' /\ decSlice' \in Slice /\ tpc'[ReconThread] = tpc[ReconThread]
  <2>1. CASE ours = 0
    <3>1. /\ DecodeNextSlice(decMb) /\ decMb \in 0..NumMbs /\ decMb # NumMbs
          /\ decSlice + 1 \in Slice /\ AtSlice(decMb, decSlice + 1, f)
      BY <1>1, <1>4, <1>6, <2>1, MbFacts
    <3>2. /\ f <= coded /\ \A m \in Mb : reconMap'[m] <=> m < f
          /\ cores = 2 => \A m \in Mb : recon'[m] = IF m < f THEN 1 ELSE 0
      BY <1>3, <1>7 DEF DecPlace
    <3>3. QED
      BY <1>2, <1>7, <3>1, <3>2, NextSlicePlace
  <2>2. CASE ours # 0
    <3>1. tpc' = [tpc EXCEPT ![DecThread] = "mbs"] /\ decSlice' = decSlice
      BY <1>1, <2>2
    <3>2. tpc'[DecThread] = "mbs" /\ tpc'[ReconThread] = tpc[ReconThread]
      BY <1>2, <3>1
    <3>3. AtMbs(decMb, decSlice, f, todo)'
      BY <1>1, <1>6, <1>7, <2>2, <3>1 DEF AtMbs
    <3>4. QED
      BY <1>3, <1>4, <1>7, <3>1, <3>2, <3>3 DEF DecPlace, Told, Finished
  <2>3. QED
    BY <2>1, <2>2
<1>9. cores = 3 => \E r \in 0..NumMbs : ReconPlace(r)'
  BY <1>1, <1>2, <1>7, <1>8, ReconStays
<1>10. todo' \in Nat
  BY <1>1, <1>6, MbFacts
<1>11. Typed'
  BY <1>1, <1>2, <1>7, <1>8, <1>10 DEF Typed, parseVars, parserVars, reconVars
<1>12. DeblockLags'
  BY <1>2, <1>7 DEF DeblockLags
<1>13. QED
  BY <1>1, <1>2, <1>7, <1>8, <1>9, <1>11, <1>12, ThreadPicture
     DEF callVars, parserVars, syncVars

\* and goes through the macroblocks of its group.
LEMMA DecodeMbKeeps ==
  ASSUME DInv, PicInv, Fits, DecodeMb,
         UNCHANGED <<main, callVars, parserVars, syncVars>>
  PROVE  PicInv'
<1> USE TwoThreads
<1>1. /\ tpc[DecThread] = "mbs"
      /\ recon' = [recon EXCEPT ![decMb] = IF cores = 2 THEN @ + 1 ELSE @]
      /\ reconMap' = [reconMap EXCEPT ![decMb] = TRUE]
      /\ decMb' = decMb + 1 /\ todo' = todo - 1
      /\ IF todo > 1 THEN decSlice' = decSlice /\ tpc' = tpc
         ELSE IF decMb' <= NumMbs - 1 /\ EndOfRow(decMb)
              THEN tpc' = [tpc EXCEPT ![DecThread] = "row"] /\ decSlice' = decSlice
              ELSE DecodeNextSlice(decMb')
      /\ UNCHANGED <<cores, parseVars, reconVars, deblkMb, deblkAt>>
  BY DEF DecodeMb, TGoto
<1>2. /\ Active /\ Typed /\ Numbers /\ skips \in Nat /\ DeblockLags
      /\ \E f \in 0..NumMbs : DecPlace(f)
      /\ cores = 3 => \E r \in 0..NumMbs : ReconPlace(r)
      /\ tpc \in [Threads -> Places]
  BY <1>1, InsidePicture DEF Inside
<1>3. PICK f \in 0..NumMbs : DecPlace(f)
  BY <1>2
<1>4. /\ AtMbs(f, decSlice, f, todo) /\ decMb = f /\ f \in Mb /\ decSlice \in Slice
      /\ todo \in Nat /\ todo >= 1 /\ f \in Nat /\ f + todo <= RowEnd(f) + 1
      /\ RowEnd(f) < coded /\ coded \in Nat /\ coded <= NumMbs
  BY <1>1, <1>2, <1>3, MbFacts DEF DecPlace, AtMbs, Typed
<1>5. RowEnd(f) \in Mb /\ RowEnd(f) \in Nat /\ f <= RowEnd(f)
  BY <1>4, RowFacts, MbFacts
<1>6. /\ coded' = coded /\ sliceMap' = sliceMap /\ entry' = entry
      /\ deblkMb' = deblkMb /\ deblkAt' = deblkAt /\ skips' = skips
      /\ start' = start /\ cores' = cores /\ decMb' = f + 1
  BY <1>1, <1>4 DEF parseVars, callVars, syncVars
<1>7. /\ reconMap' \in [Mb -> BOOLEAN] /\ recon' \in [Mb -> Nat]
      /\ \A m \in Mb : reconMap[m] => reconMap'[m]
      /\ \A m \in Mb : reconMap'[m] <=> m < f + 1
      /\ \A m \in Mb : recon[m] <= recon'[m]
      /\ cores = 3 => recon' = recon
      /\ cores = 2 => \A m \in Mb : recon'[m] = IF m < f + 1 THEN 1 ELSE 0
  <2>1. /\ reconMap \in [Mb -> BOOLEAN] /\ recon \in [Mb -> Nat] /\ cores \in {2, 3}
        /\ \A m \in Mb : m \in Nat
    BY <1>2, MbFacts DEF Typed
  <2>2. /\ \A m \in Mb : reconMap[m] <=> m < f
        /\ cores = 2 => \A m \in Mb : recon[m] = IF m < f THEN 1 ELSE 0
    BY <1>3 DEF DecPlace
  <2>3. \A m \in Mb : m < f + 1 <=> m < f \/ m = f
    BY <1>4, <2>1
  <2>4. /\ reconMap' \in [Mb -> BOOLEAN] /\ reconMap'[f] = TRUE
        /\ \A m \in Mb : m # f => reconMap'[m] = reconMap[m]
    BY <1>1, <1>4, <2>1
  <2>5. CASE cores = 3
    <3>1. recon' = recon
      BY <1>1, <1>4, <2>1, <2>5
    <3>2. \A m \in Mb : recon[m] <= recon[m]
      BY <2>1
    <3>3. QED
      BY <2>1, <2>2, <2>3, <2>4, <2>5, <3>1, <3>2
  <2>6. CASE cores = 2
    <3>1. recon' \in [Mb -> Nat] /\ recon'[f] = 1 /\ recon[f] = 0
          /\ \A m \in Mb : m # f => recon'[m] = recon[m]
      BY <1>1, <1>4, <2>1, <2>2, <2>6
    <3>2. \A m \in Mb : recon[m] <= recon'[m]
      BY <2>1, <3>1
    <3>3. \A m \in Mb : recon'[m] = IF m < f + 1 THEN 1 ELSE 0
      BY <1>4, <2>2, <2>3, <2>6, <3>1
    <3>4. QED
      BY <2>1, <2>2, <2>3, <2>4, <2>6, <3>1, <3>2, <3>3
  <2>7. QED
    BY <2>1, <2>5, <2>6
<1>8. f + 1 \in 0..NumMbs /\ f + 1 <= coded
  BY <1>4, <1>5, MbFacts
<1>9. DecPlace(f + 1)' /\ decSlice' \in Slice /\ tpc'[ReconThread] = tpc[ReconThread]
  <2>1. CASE todo > 1
    <3>1. AtMbs(f + 1, decSlice, f + 1, todo - 1)
      BY <1>2, <1>4, <2>1, PassesMb
    <3>2. tpc' = tpc /\ decSlice' = decSlice
      BY <1>1, <2>1
    <3>3. AtMbs(decMb, decSlice, f + 1, todo)'
      BY <1>1, <1>6, <3>1, <3>2 DEF AtMbs
    <3>4. QED
      BY <1>1, <1>4, <1>6, <1>7, <1>8, <3>2, <3>3 DEF DecPlace, Told, Finished
  <2>2. CASE todo = 1
    <3>1. /\ f + 1 <= RowEnd(f) =>
               AtSlice(f + 1, decSlice + 1, f + 1) /\ decSlice + 1 \in Slice
          /\ f + 1 > RowEnd(f) =>
               f = RowEnd(f) /\ (f + 1 < NumMbs => AtRow(f + 1, decSlice, f + 1))
      BY <1>2, <1>4, <1>5, <2>2, PassesGroup DEF Numbers
    <3>2. CASE f + 1 <= NumMbs - 1 /\ f = RowEnd(f)
      <4>1. tpc' = [tpc EXCEPT ![DecThread] = "row"] /\ decSlice' = decSlice
        BY <1>1, <1>4, <1>6, <2>2, <3>2 DEF EndOfRow
      <4>2. tpc'[DecThread] = "row" /\ tpc'[ReconThread] = tpc[ReconThread]
        BY <1>2, <4>1
      <4>3. AtRow(f + 1, decSlice, f + 1)
        BY <1>4, <3>1, <3>2, MbFacts
      <4>4. AtRow(decMb, decSlice, f + 1)'
        BY <1>6, <4>1, <4>3 DEF AtRow
      <4>5. QED
        BY <1>4, <1>6, <1>7, <1>8, <4>1, <4>2, <4>4 DEF DecPlace, Told, Finished
    <3>3. CASE ~(f + 1 <= NumMbs - 1 /\ f = RowEnd(f))
      <4>1. DecodeNextSlice(f + 1)
        BY <1>1, <1>4, <1>6, <2>2, <3>3 DEF EndOfRow
      <4>2. f + 1 < NumMbs => decSlice + 1 \in Slice /\ AtSlice(f + 1, decSlice + 1, f + 1)
        BY <1>4, <1>5, <3>1, <3>3, MbFacts
      <4>3. QED
        BY <1>2, <1>6, <1>7, <1>8, <4>1, <4>2, NextSlicePlace
    <3>4. QED
      BY <3>2, <3>3
  <2>3. QED
    BY <1>4, <2>1, <2>2
<1>10. cores = 3 => \E r \in 0..NumMbs : ReconPlace(r)'
  BY <1>1, <1>2, <1>6, <1>7, <1>9, ReconStays
<1>11. Typed'
  <2>1. todo' \in Nat /\ decMb' \in Nat
    BY <1>1, <1>4
  <2>2. QED
    BY <1>1, <1>2, <1>6, <1>7, <1>9, <2>1 DEF Typed, parseVars, parserVars, reconVars
<1>12. DeblockLags'
  <2>1. SUFFICES ASSUME NEW m \in Mb, m < deblkMb
                 PROVE  recon'[m] > 0 /\ recon'[Smaller(m + 1, RowEnd(m))] > 0
    BY <1>6 DEF DeblockLags
  <2>2. recon[m] > 0 /\ recon[Smaller(m + 1, RowEnd(m))] > 0
    BY <1>2, <2>1 DEF DeblockLags
  <2>3. Smaller(m + 1, RowEnd(m)) \in Mb
    <3>1. RowEnd(m) \in Mb /\ RowEnd(m) \in Nat /\ m \in Nat
      BY RowFacts, MbFacts
    <3>2. QED
      BY <3>1, MbFacts DEF Smaller
  <2>4. \A k \in Mb : recon[k] \in Nat /\ recon'[k] \in Nat
    BY <1>2, <1>7 DEF Typed
  <2>5. QED
    BY <1>7, <2>2, <2>3, <2>4
<1>13. QED
  BY <1>1, <1>2, <1>6, <1>8, <1>9, <1>10, <1>11, <1>12, ThreadPicture
     DEF callVars, parserVars, syncVars

\* The recon thread takes its place from the table too,
LEMMA ReconSliceKeeps ==
  ASSUME DInv, PicInv, Fits, ReconSlice,
         UNCHANGED <<main, callVars, parserVars, syncVars>>
  PROVE  PicInv'
<1> USE TwoThreads
<1>1. /\ tpc[ReconThread] = "slice" /\ reconMap[reconMb]
      /\ reconMb' = sliceStart[reconSlice] /\ bsMb' = sliceStart[reconSlice]
      /\ deblkAt' = IF sliceStart[reconSlice] = 0 THEN 0 ELSE deblkAt
      /\ tpc' = [tpc EXCEPT ![ReconThread] = "row"]
      /\ UNCHANGED <<cores, parseVars, decVars, reconSlice, reconMap, deblkMb, recon>>
  BY DEF ReconSlice, TGoto
<1>2. /\ Active /\ Typed /\ Numbers /\ skips \in Nat /\ DeblockLags /\ sliceStart[0] = 0
      /\ \E f \in 0..NumMbs : DecPlace(f)
      /\ cores = 3 /\ \E r \in 0..NumMbs : ReconPlace(r)
      /\ tpc \in [Threads -> Places]
  BY <1>1, InsidePicture DEF Inside
<1>3. PICK f \in 0..NumMbs : DecPlace(f)
  BY <1>2
<1>4. PICK r \in 0..NumMbs : ReconPlace(r)
  BY <1>2
<1>5. /\ AtSlice(reconMb, reconSlice, r) /\ deblkMb >= r - 1
      /\ skips = 0 /\ r > 0 => deblkAt = deblkMb
      /\ deblkMb <= r /\ deblkMb \in Nat /\ r \in Nat
      /\ reconMb \in Nat /\ reconMb \in Mb /\ reconSlice \in Slice
  BY <1>1, <1>2, <1>4, MbFacts DEF ReconPlace, AtSlice, Typed
<1>6. reconMb < coded
  <2>1. reconMb < f /\ f <= coded
    BY <1>1, <1>3, <1>5 DEF DecPlace
  <2>2. QED
    BY <1>2, <1>5, <2>1, MbFacts DEF Typed
<1>7. /\ AtRow(sliceStart[reconSlice], reconSlice, r) /\ sliceStart[reconSlice] \in Nat
      /\ skips = 0 => sliceStart[reconSlice] = r
  BY <1>2, <1>5, <1>6, TakesPlace DEF Numbers
<1>8. /\ coded' = coded /\ sliceMap' = sliceMap /\ entry' = entry /\ reconMap' = reconMap
      /\ recon' = recon /\ deblkMb' = deblkMb /\ skips' = skips
      /\ start' = start /\ reconSlice' = reconSlice /\ cores' = cores
  BY <1>1 DEF parseVars, callVars, syncVars
<1>9. tpc'[ReconThread] = "row" /\ tpc'[DecThread] = tpc[DecThread]
  BY <1>1, <1>2
<1>10. AtRow(reconMb, reconSlice, r)'
  BY <1>1, <1>7, <1>8 DEF AtRow
<1>11. skips = 0 => deblkAt' = deblkMb
  <2>1. CASE r = 0
    BY <1>1, <1>5, <1>7, <2>1
  <2>2. CASE r > 0
    BY <1>1, <1>5, <1>7, <2>2
  <2>3. QED
    BY <1>5, <2>1, <2>2
<1>12. ReconPlace(r)'
  BY <1>1, <1>4, <1>5, <1>8, <1>9, <1>10, <1>11 DEF ReconPlace, Told, Finished, RowStart
<1>13. DecPlace(f)'
  BY <1>1, <1>3, <1>8, <1>9, DecStays
<1>14. Typed'
  <2>1. deblkAt' \in Nat
    BY <1>1, <1>2 DEF Typed
  <2>2. QED
    BY <1>1, <1>2, <1>7, <1>8, <2>1 DEF Typed, parseVars, parserVars, decVars
<1>15. DeblockLags'
  BY <1>2, <1>8 DEF DeblockLags
<1>16. QED
  BY <1>1, <1>2, <1>8, <1>12, <1>13, <1>14, <1>15, ThreadPicture
     DEF callVars, parserVars, syncVars

\* reconstructs what the row has of its slice,
LEMMA ReconRowKeeps ==
  ASSUME DInv, PicInv, Fits, ReconRow,
         UNCHANGED <<main, callVars, parserVars, syncVars>>
  PROVE  PicInv'
<1> USE TwoThreads
<1> DEFINE ours == LeadingMbs(reconMb, reconSlice)
           group == RowEnd(reconMb) - reconMb + 1
<1>1. /\ tpc[ReconThread] = "row" /\ reconMap[Smaller(reconMb + group, RowEnd(reconMb))]
      /\ recon' = [m \in Mb |-> IF m \in reconMb..reconMb+ours-1
                                THEN recon[m] + 1 ELSE recon[m]]
      /\ reconMb' = reconMb + ours /\ bsMb' = bsMb + ours
      /\ tpc' = [tpc EXCEPT ![ReconThread] = IF ours = group THEN "deblockrow" ELSE "deblock"]
      /\ UNCHANGED <<cores, parseVars, decVars, reconSlice, reconMap, deblkMb, deblkAt>>
  BY DEF ReconRow, TGoto
<1>2. /\ Active /\ Typed /\ Numbers /\ skips \in Nat /\ DeblockLags
      /\ \E f \in 0..NumMbs : DecPlace(f)
      /\ cores = 3 /\ \E r \in 0..NumMbs : ReconPlace(r)
      /\ tpc \in [Threads -> Places]
  BY <1>1, InsidePicture DEF Inside
<1>3. PICK f \in 0..NumMbs : DecPlace(f)
  BY <1>2
<1>4. PICK r \in 0..NumMbs : ReconPlace(r)
  BY <1>2
<1>5. /\ AtRow(reconMb, reconSlice, r) /\ deblkMb >= r - 1 /\ reconMb = bsMb
      /\ deblkMb <= r /\ (deblkMb = r => RowStart(r)) /\ deblkMb \in Nat /\ r \in Nat
      /\ skips = 0 => deblkAt = deblkMb
      /\ reconMb \in Nat /\ reconMb \in Mb /\ reconMb <= r /\ reconSlice \in Slice
  BY <1>1, <1>2, <1>4, MbFacts DEF ReconPlace, AtRow, Typed
<1>6. RowEnd(reconMb) \in Mb /\ RowEnd(reconMb) \in Nat /\ reconMb <= RowEnd(reconMb)
  BY <1>5, RowFacts, MbFacts
<1>7. RowEnd(reconMb) < f /\ f <= coded /\ coded \in Nat /\ f \in Nat
  <2>1. Smaller(reconMb + group, RowEnd(reconMb)) = RowEnd(reconMb)
    BY <1>5, <1>6 DEF Smaller
  <2>2. RowEnd(reconMb) < f /\ f <= coded
    BY <1>1, <1>3, <1>6, <2>1 DEF DecPlace
  <2>3. QED
    BY <1>2, <2>2, MbFacts DEF Typed
<1>8. RowEnd(reconMb) < coded
  BY <1>6, <1>7
<1>9. /\ ours \in 0..Wd /\ ours <= group
      /\ ours = 0 => /\ AtSlice(reconMb, reconSlice + 1, r) /\ reconSlice + 1 \in Slice
                     /\ r > 0 /\ (reconMb = r \/ skips > 0)
      /\ ours > 0 => AtMbs(reconMb, reconSlice, r, ours)
      /\ skips = 0 => entry[reconSlice] # "old"
  BY <1>2, <1>5, <1>8, CutsRow DEF Numbers
<1>10. group \in Nat /\ group >= 1 /\ ours \in Nat
  BY <1>5, <1>6, <1>9, MbFacts
<1>11. ours = group => reconMb + ours = RowEnd(reconMb) + 1
  BY <1>5, <1>6
<1>12. ours # group => reconMb + ours <= RowEnd(reconMb)
  BY <1>5, <1>6, <1>9, <1>10
<1> HIDE DEF ours, group
<1>13. /\ coded' = coded /\ sliceMap' = sliceMap /\ entry' = entry /\ reconMap' = reconMap
       /\ deblkMb' = deblkMb /\ deblkAt' = deblkAt /\ skips' = skips
       /\ start' = start /\ reconSlice' = reconSlice /\ cores' = cores
  BY <1>1 DEF parseVars, callVars, syncVars
<1>14. tpc'[ReconThread] = (IF ours = group THEN "deblockrow" ELSE "deblock")
       /\ tpc'[DecThread] = tpc[DecThread]
  BY <1>1, <1>2
<1>15. \A m \in Mb : recon[m] = IF m < r THEN 1 ELSE 0
  BY <1>4 DEF ReconPlace
<1>16. recon' \in [Mb -> Nat]
  BY <1>1, <1>2 DEF Typed
<1>17. (\E k \in 0..NumMbs : ReconPlace(k)') /\ reconMb' \in Nat /\ bsMb' \in Nat
  <2>1. CASE ours = 0
    <3>1. \A m \in Mb : ~(m \in reconMb..reconMb+ours-1)
      BY <1>5, <2>1, MbFacts
    <3>2. \A m \in Mb : recon'[m] = IF m < r THEN 1 ELSE 0
      BY <1>1, <1>15, <3>1
    <3>3. tpc'[ReconThread] = "deblock" /\ reconMb' = reconMb /\ bsMb' = reconMb
      BY <1>1, <1>5, <1>10, <1>14, <2>1
    <3>4. AtSlice(reconMb, reconSlice + 1, r)'
      BY <1>9, <1>13, <2>1, <3>3 DEF AtSlice
    <3>5. bsMb' = r \/ (deblkMb >= r - 1 /\ skips > 0)
      BY <1>5, <1>9, <2>1, <3>3
    <3>6. ReconPlace(r)'
      BY <1>4, <1>5, <1>9, <1>13, <2>1, <3>2, <3>3, <3>4, <3>5
         DEF ReconPlace, Told, Finished, RowStart
    <3>7. QED
      BY <1>5, <3>3, <3>6
  <2>2. CASE ours > 0
    <3>0. PICK n \in Nat : n = r + ours
      BY <1>5, <1>10
    <3>1. AtMbs(r, reconSlice, r, ours) /\ reconMb = r
      BY <1>9, <2>2 DEF AtMbs
    <3>2. /\ n \in 0..NumMbs /\ n > 0 /\ n <= coded
          /\ n <= RowEnd(r) =>
               n < NumMbs /\ AtSlice(n, reconSlice + 1, n) /\ reconSlice + 1 \in Slice
          /\ n > RowEnd(r) => n = RowEnd(r) + 1 /\ (n < NumMbs => AtRow(n, reconSlice, n))
      BY <1>2, <1>5, <1>10, <3>0, <3>1, PassesGroup DEF Numbers
    <3>3. reconMb' = n /\ bsMb' = n /\ n \in Nat /\ n >= r + 1
      BY <1>1, <1>5, <1>10, <2>2, <3>0, <3>1
    <3>4. \A m \in Mb : recon'[m] = IF m < n THEN 1 ELSE 0
      <4>1. SUFFICES ASSUME NEW m \in Mb PROVE recon'[m] = IF m < n THEN 1 ELSE 0
        OBVIOUS
      <4>2. recon'[m] = IF m \in r..n-1 THEN recon[m] + 1 ELSE recon[m]
        <5>1. reconMb + ours - 1 = n - 1
          BY <1>5, <1>10, <3>0, <3>1
        <5>2. recon'[m] = IF m \in reconMb..reconMb+ours-1 THEN recon[m] + 1 ELSE recon[m]
          BY <1>1
        <5>3. QED
          BY <3>1, <5>1, <5>2
      <4>3. m \in r..n-1 <=> r <= m /\ m < n
        BY <3>3, MbFacts
      <4>4. m \in Nat /\ recon[m] = IF m < r THEN 1 ELSE 0
        BY <1>15, MbFacts
      <4>5. QED
        BY <1>5, <3>3, <4>2, <4>3, <4>4
    <3>5. \A m \in Mb : m < n => reconMap'[m]
      <4>1. n <= RowEnd(r) + 1 /\ RowEnd(r) < f /\ RowEnd(r) \in Nat
        BY <1>6, <1>7, <3>0, <3>1 DEF AtMbs
      <4>2. \A m \in Mb : m < n => m < f
        BY <1>7, <3>3, <4>1, MbFacts
      <4>3. QED
        BY <1>3, <1>13, <4>2 DEF DecPlace
    <3>6. entry[reconSlice] # "old"
      BY <3>1 DEF AtMbs
    <3>7. CASE ours = group
      <4>1. n = RowEnd(r) + 1 /\ tpc'[ReconThread] = "deblockrow"
        BY <1>11, <1>14, <3>0, <3>1, <3>7
      <4>2. RowStart(n)
        <5>1. n - 1 = RowEnd(r) /\ RowEnd(n - 1) = RowEnd(r)
          <6>1. n - 1 = RowEnd(r)
            BY <1>6, <3>1, <4>1
          <6>2. RowEnd(RowEnd(r)) = RowEnd(r)
            BY <1>5, <1>6, <3>1, RowFacts
          <6>3. QED
            BY <6>1, <6>2
        <5>2. QED
          BY <5>1 DEF RowStart, EndOfRow
      <4>3. n < NumMbs => AtRow(n, reconSlice, n)
        BY <1>6, <3>1, <3>2, <3>3, <4>1
      <4>4. n < NumMbs => AtRow(n, reconSlice, n)'
        BY <1>13, <4>3 DEF AtRow
      <4>5. deblkMb' <= n /\ deblkMb' # n
        BY <1>5, <1>13, <3>3
      <4>6. ReconPlace(n)'
        BY <1>5, <1>13, <3>2, <3>3, <3>4, <3>5, <3>6, <4>1, <4>2, <4>4, <4>5
           DEF ReconPlace, Told, Finished, RowStart
      <4>7. QED
        BY <3>2, <3>3, <4>6
    <3>8. CASE ours # group
      <4>1. n <= RowEnd(r) /\ tpc'[ReconThread] = "deblock"
        BY <1>12, <1>14, <3>0, <3>1, <3>8
      <4>2. AtSlice(n, reconSlice + 1, n)
        BY <3>2, <4>1
      <4>3. AtSlice(reconMb, reconSlice + 1, n)'
        BY <1>13, <3>3, <4>2 DEF AtSlice
      <4>4. deblkMb' <= n /\ deblkMb' # n
        BY <1>5, <1>13, <3>3
      <4>5. ReconPlace(n)'
        BY <1>5, <1>13, <3>2, <3>3, <3>4, <3>5, <3>6, <4>1, <4>3, <4>4
           DEF ReconPlace, Told, Finished, RowStart
      <4>6. QED
        BY <3>2, <3>3, <4>5
    <3>9. QED
      BY <3>7, <3>8
  <2>3. QED
    BY <1>10, <2>1, <2>2
<1>18. DecPlace(f)'
  <2>1. cores # 2
    BY <1>2
  <2>2. QED
    BY <1>1, <1>3, <1>13, <1>14, <2>1, DecStays
<1>19. Typed'
  BY <1>1, <1>2, <1>13, <1>16, <1>17 DEF Typed, parseVars, parserVars, decVars
<1>20. DeblockLags'
  BY <1>17, <1>19, PlaceLags
<1>21. QED
  BY <1>1, <1>2, <1>13, <1>17, <1>18, <1>19, <1>20, ThreadPicture
     DEF callVars, parserVars, syncVars

\* and deblocks what that completes.
LEMMA DeblockGroupKeeps ==
  ASSUME DInv, PicInv, Fits, DeblockGroup,
         UNCHANGED <<main, callVars, parserVars, syncVars>>
  PROVE  PicInv'
<1> USE TwoThreads
<1>1. /\ tpc[ReconThread] \in {"deblock", "deblockrow"}
      /\ deblkMb' = deblkMb + Deblockable /\ deblkAt' = deblkAt + Deblockable
      /\ IF tpc[ReconThread] = "deblockrow" /\ bsMb <= NumMbs - 1
         THEN tpc' = [tpc EXCEPT ![ReconThread] = "row"] /\ reconSlice' = reconSlice
         ELSE IF reconMb > NumMbs - 1
              THEN tpc' = [tpc EXCEPT ![ReconThread] = "last"] /\ reconSlice' = reconSlice
              ELSE tpc' = [tpc EXCEPT ![ReconThread] = "slice"] /\ reconSlice' = reconSlice + 1
      /\ UNCHANGED <<cores, parseVars, decVars, reconMb, bsMb, reconMap, recon>>
  BY DEF DeblockGroup, TGoto
<1>2. /\ Active /\ Typed /\ Numbers /\ skips \in Nat /\ DeblockLags
      /\ \E f \in 0..NumMbs : DecPlace(f)
      /\ cores = 3 /\ \E r \in 0..NumMbs : ReconPlace(r)
      /\ tpc \in [Threads -> Places]
  BY <1>1, InsidePicture DEF Inside
<1>3. PICK f \in 0..NumMbs : DecPlace(f)
  BY <1>2
<1>4. PICK r \in 0..NumMbs : ReconPlace(r)
  BY <1>2
<1>5. /\ deblkMb <= r /\ (deblkMb = r => RowStart(r)) /\ deblkMb \in Nat /\ r \in Nat
      /\ r <= NumMbs /\ NumMbs \in Nat
      /\ skips = 0 => deblkAt = deblkMb
      /\ reconMb \in Nat /\ bsMb \in Nat /\ deblkAt \in Nat /\ reconSlice \in Slice
  BY <1>1, <1>2, <1>4, MbFacts DEF ReconPlace, Typed
<1>6. /\ coded' = coded /\ sliceMap' = sliceMap /\ entry' = entry /\ reconMap' = reconMap
      /\ recon' = recon /\ skips' = skips /\ reconMb' = reconMb /\ bsMb' = bsMb
      /\ start' = start /\ cores' = cores
  BY <1>1 DEF parseVars, callVars, syncVars
<1>7. /\ ReconPlace(r)' /\ reconSlice' \in Slice /\ deblkMb' \in 0..NumMbs /\ deblkAt' \in Nat
      /\ tpc'[DecThread] = tpc[DecThread]
  <2>1. CASE tpc[ReconThread] = "deblock"
    <3>1. /\ AtSlice(reconMb, reconSlice + 1, r) /\ reconMb = bsMb /\ r > 0
          /\ bsMb = r \/ (deblkMb >= r - 1 /\ skips > 0)
          /\ reconMb <= r /\ r < NumMbs
      BY <1>4, <2>1 DEF ReconPlace, AtSlice
    <3>2. Deblockable = IF bsMb > deblkMb THEN bsMb - 1 - deblkMb ELSE 0
      BY <2>1 DEF Deblockable
    <3>3. Deblockable \in Nat
      BY <1>5, <3>2
    <3>4. /\ deblkMb' <= r /\ (deblkMb' = r => deblkMb = r) /\ deblkMb' >= r - 1
      BY <1>1, <1>5, <3>1, <3>2
    <3>5. /\ deblkMb' \in Nat /\ deblkAt' \in Nat /\ (skips = 0 => deblkAt' = deblkMb')
      BY <1>1, <1>5, <3>3
    <3>6. tpc' = [tpc EXCEPT ![ReconThread] = "slice"] /\ reconSlice' = reconSlice + 1
      BY <1>1, <1>5, <2>1, <3>1
    <3>7. tpc'[ReconThread] = "slice" /\ tpc'[DecThread] = tpc[DecThread]
      BY <1>2, <3>6
    <3>8. AtSlice(reconMb, reconSlice, r)'
      BY <1>6, <3>1, <3>6 DEF AtSlice
    <3>9. reconSlice' \in Slice
      <4>1. r \in Mb /\ reconSlice + 1 <= sliceMap[r] /\ sliceMap[r] \in Slice
        BY <1>2, <1>5, <3>1, MbFacts DEF AtSlice, Typed
      <4>2. QED
        BY <1>5, <3>6, <4>1, MbFacts
    <3>10. ReconPlace(r)'
      BY <1>4, <1>5, <1>6, <3>4, <3>5, <3>7, <3>8 DEF ReconPlace, Told, Finished, RowStart
    <3>11. QED
      BY <1>5, <3>4, <3>5, <3>7, <3>9, <3>10
  <2>2. CASE tpc[ReconThread] = "deblockrow"
    <3>1. /\ reconMb = r /\ bsMb = r /\ RowStart(r) /\ r > 0 /\ entry[reconSlice] # "old"
          /\ r < NumMbs => AtRow(r, reconSlice, r)
      BY <1>4, <2>2 DEF ReconPlace
    <3>2. Deblockable = IF bsMb > deblkMb THEN bsMb - deblkMb ELSE 0
      BY <2>2 DEF Deblockable
    <3>3. deblkMb' = r /\ Deblockable \in Nat
      BY <1>1, <1>5, <3>1, <3>2
    <3>4. deblkAt' \in Nat /\ (skips = 0 => deblkAt' = deblkMb')
      BY <1>1, <1>5, <3>3
    <3>5. CASE r < NumMbs
      <4>1. tpc' = [tpc EXCEPT ![ReconThread] = "row"] /\ reconSlice' = reconSlice
        BY <1>1, <1>5, <2>2, <3>1, <3>5
      <4>2. tpc'[ReconThread] = "row" /\ tpc'[DecThread] = tpc[DecThread]
        BY <1>2, <4>1
      <4>3. AtRow(reconMb, reconSlice, r)'
        BY <1>6, <3>1, <3>5, <4>1 DEF AtRow
      <4>4. ReconPlace(r)'
        BY <1>4, <1>5, <1>6, <3>1, <3>3, <3>4, <4>2, <4>3
           DEF ReconPlace, Told, Finished, RowStart
      <4>5. QED
        BY <1>5, <3>3, <3>4, <4>1, <4>2, <4>4
    <3>6. CASE r = NumMbs
      <4>1. tpc' = [tpc EXCEPT ![ReconThread] = "last"] /\ reconSlice' = reconSlice
        BY <1>1, <1>5, <3>1, <3>6
      <4>2. tpc'[ReconThread] = "last" /\ tpc'[DecThread] = tpc[DecThread]
        BY <1>2, <4>1
      <4>3. ReconPlace(r)'
        BY <1>4, <1>5, <1>6, <3>1, <3>3, <3>6, <4>2
           DEF ReconPlace, Told, Finished, RowStart
      <4>4. QED
        BY <1>5, <3>3, <3>4, <4>1, <4>2, <4>3
    <3>7. QED
      BY <1>5, <3>5, <3>6
  <2>3. QED
    BY <1>1, <2>1, <2>2
<1>8. DecPlace(f)'
  <2>1. cores # 2
    BY <1>2
  <2>2. QED
    BY <1>1, <1>3, <1>6, <1>7, <2>1, DecStays
<1>9. Typed'
  BY <1>1, <1>2, <1>6, <1>7 DEF Typed, parseVars, parserVars, decVars
<1>10. DeblockLags'
  BY <1>7, <1>9, PlaceLags
<1>11. QED
  BY <1>1, <1>2, <1>6, <1>7, <1>8, <1>9, <1>10, ThreadPicture
     DEF callVars, parserVars, syncVars

\* A thread that was told to begin takes the picture from its first macroblock; one
\* that is told to end is not in a picture.
LEMMA TakePictureKeepsPic ==
  ASSUME DInv, PicInv, Fits, NEW t \in Threads, TakePicture(t)
  PROVE  PicInv'
<1> USE TwoThreads
<1>1. /\ tpc[t] = "idle" /\ start[t] = "start"
      /\ start' = [start EXCEPT ![t] = "progress"]
      /\ tpc' = [tpc EXCEPT ![t] = IF breakAll THEN "exited" ELSE "slice"]
      /\ UNCHANGED <<cores, parseVars, decVars, reconVars, sampleVars, main, callVars,
                     parserVars, done, created, breakAll>>
  BY DEF TakePicture, TGoto
<1>2. /\ Typed /\ Control /\ sliceStart[0] = 0 /\ Picture /\ DeblockLags /\ Away
      /\ skips \in Nat
      /\ tpc \in [Threads -> Places] /\ start \in [Threads -> {"init", "start", "progress"}]
      /\ created[t] /\ ~Rest(t) /\ (t = ReconThread => cores = 3)
  BY <1>1 DEF PicInv, DInv, SyncTyped, Thread, Rest
<1>3. /\ \A u \in Threads \ {t} : tpc'[u] = tpc[u] /\ start'[u] = start[u]
      /\ tpc'[t] = (IF breakAll THEN "exited" ELSE "slice") /\ start'[t] = "progress"
      /\ \A u \in Threads : start'[u] = "init" => start[u] = "init"
  BY <1>1, <1>2
<1>4. /\ coded' = coded /\ cur' = cur /\ sliceStart' = sliceStart /\ sliceMap' = sliceMap
      /\ decMap' = decMap /\ entry' = entry /\ reconMap' = reconMap
      /\ recon' = recon /\ deblkMb' = deblkMb /\ deblkAt' = deblkAt /\ skips' = skips
      /\ cores' = cores /\ main' = main /\ first' = first /\ keep' = keep
      /\ decMb' = decMb /\ decSlice' = decSlice /\ todo' = todo
      /\ reconMb' = reconMb /\ reconSlice' = reconSlice /\ bsMb' = bsMb
      /\ header' = header /\ seen' = seen /\ next' = next /\ pend' = pend
      /\ numbered' = numbered /\ upto' = upto /\ after' = after /\ missing' = missing
      /\ breakAll' = breakAll /\ created' = created
  BY <1>1 DEF parseVars, decVars, reconVars, sampleVars, callVars, parserVars
<1>5. Typed' /\ DeblockLags'
  BY <1>2, <1>4 DEF Typed, DeblockLags
<1>6. CASE Active
  <2>1. ~breakAll
    BY <1>2, <1>6 DEF Away, Active
  <2>2. tpc'[t] = "slice"
    BY <1>3, <2>1
  <2>3. 0 \in 0..NumMbs /\ 0 < NumMbs /\ \A m \in Mb : ~(m < 0)
    BY MbFacts
  <2>4. PICK f \in 0..NumMbs : DecPlace(f)
    BY <1>2, <1>6 DEF Picture
  <2>5. DecPlace(f)'
    <3>1. CASE t = DecThread
      <4>1. f = 0 /\ decMb = 0 /\ decSlice = 0
        BY <1>1, <2>4, <3>1 DEF DecPlace, Told
      <4>2. AtSlice(decMb, decSlice, f)'
        BY <1>4, <2>3, <4>1 DEF AtSlice
      <4>3. QED
        BY <1>4, <2>2, <2>4, <3>1, <4>2 DEF DecPlace, Told, Finished
    <3>2. CASE t = ReconThread
      BY <1>3, <1>4, <2>4, <3>2, DecStays DEF decVars
    <3>3. QED
      BY <3>1, <3>2
  <2>6. ASSUME cores = 3 PROVE \E r \in 0..NumMbs : ReconPlace(r)'
    <3>1. PICK r \in 0..NumMbs : ReconPlace(r)
      BY <1>2, <1>6, <2>6 DEF Picture
    <3>2. CASE t = ReconThread
      <4>1. r = 0 /\ reconMb = 0 /\ reconSlice = 0 /\ deblkMb \in Nat
        BY <1>1, <1>2, <3>1, <3>2, MbFacts DEF ReconPlace, Told, Typed
      <4>2. AtSlice(reconMb, reconSlice, r)' /\ deblkMb >= r - 1
        BY <1>4, <2>3, <4>1 DEF AtSlice
      <4>3. QED
        BY <1>4, <2>2, <3>1, <3>2, <4>1, <4>2 DEF ReconPlace, Told, Finished, RowStart
    <3>3. CASE t = DecThread
      BY <1>3, <1>4, <3>1, <3>3, ReconStays DEF reconVars
    <3>4. QED
      BY <3>2, <3>3
  <2>7. QED
    BY <1>1, <1>3, <1>4, <1>5, <1>6, <2>5, <2>6, ThreadPicture
<1>7. CASE ~Active
  <2>1. main \notin InCall
    <3>1. ~(first /\ main \in InPicture) /\ (main = "waitRecon" => t # DecThread)
      BY <1>2 DEF DInv
    <3>2. ~(first /\ main = "waitRecon")
      BY <1>1, <1>2, <3>1 DEF Away, Told
    <3>3. QED
      BY <1>7, <3>1, <3>2 DEF Active, InCall
  <2>2. main \in {"joinDec", "joinRecon"}
    BY <1>2, <2>1 DEF DInv, SyncTyped, InCall
  <2>3. breakAll
    BY <1>2, <2>2 DEF Away
  <2>4. tpc'[t] = "exited"
    BY <1>3, <2>3
  <2>5. Away'
    BY <1>2, <1>3, <1>4, <2>1, <2>2, <2>4 DEF Away, Inside, InCall
  <2>6. Control'
    BY <1>2, <1>4 DEF Control, Active
  <2>7. QED
    BY <1>2, <1>4, <1>5, <2>1, <2>5, <2>6 DEF PicInv, Picture, Active
<1>8. QED
  BY <1>6, <1>7

\* A thread that has done everything goes.
LEMMA FinishPictureKeepsPic ==
  ASSUME DInv, PicInv, Fits, NEW t \in Threads, FinishPicture(t)
  PROVE  PicInv'
<1> USE TwoThreads
<1>1. /\ tpc[t] = "last"
      /\ tpc' = [tpc EXCEPT ![t] = IF keep THEN "idle" ELSE "exited"]
      /\ UNCHANGED <<cores, parseVars, decVars, reconVars, sampleVars, main, callVars,
                     parserVars, start, created, breakAll>>
  BY DEF FinishPicture, TGoto
<1>2. /\ Active /\ Typed /\ DeblockLags
      /\ \E f \in 0..NumMbs : DecPlace(f)
      /\ cores = 3 => \E r \in 0..NumMbs : ReconPlace(r)
      /\ t = ReconThread => cores = 3
      /\ tpc \in [Threads -> Places]
  BY <1>1, InsidePicture DEF Inside
<1>3. start[t] # "start"
  BY <1>1, InsideThread DEF Inside
<1>4. /\ \A u \in Threads \ {t} : tpc'[u] = tpc[u]
      /\ tpc'[t] \in {"idle", "exited"} /\ start' = start
  BY <1>1, <1>2
<1>5. /\ coded' = coded /\ cur' = cur /\ sliceStart' = sliceStart /\ sliceMap' = sliceMap
      /\ decMap' = decMap /\ entry' = entry /\ reconMap' = reconMap
      /\ recon' = recon /\ deblkMb' = deblkMb /\ deblkAt' = deblkAt /\ skips' = skips
      /\ cores' = cores
      /\ decMb' = decMb /\ decSlice' = decSlice /\ todo' = todo
      /\ reconMb' = reconMb /\ reconSlice' = reconSlice /\ bsMb' = bsMb
      /\ pend' = pend /\ upto' = upto /\ missing' = missing
  BY <1>1 DEF parseVars, decVars, reconVars, sampleVars, callVars, parserVars
<1>6. Typed' /\ DeblockLags'
  BY <1>2, <1>5 DEF Typed, DeblockLags
<1>7. PICK f \in 0..NumMbs : DecPlace(f)
  BY <1>2
<1>8. DecPlace(f)'
  <2>1. CASE t = DecThread
    BY <1>1, <1>3, <1>4, <1>5, <1>7, <2>1 DEF DecPlace, Told, Finished
  <2>2. CASE t = ReconThread
    BY <1>4, <1>5, <1>7, <2>2, DecStays DEF decVars
  <2>3. QED
    BY <2>1, <2>2
<1>9. ASSUME cores = 3 PROVE \E r \in 0..NumMbs : ReconPlace(r)'
  <2>1. PICK r \in 0..NumMbs : ReconPlace(r)
    BY <1>2, <1>9
  <2>2. CASE t = ReconThread
    BY <1>1, <1>3, <1>4, <1>5, <2>1, <2>2 DEF ReconPlace, Told, Finished, RowStart
  <2>3. CASE t = DecThread
    BY <1>4, <1>5, <2>1, <2>3, ReconStays DEF reconVars
  <2>4. QED
    BY <2>2, <2>3
<1>10. QED
  BY <1>1, <1>2, <1>4, <1>5, <1>6, <1>8, <1>9, ThreadPicture
     DEF callVars, parserVars

-----------------------------------------------------------------------------
(* The beginning of a picture, and its end. *)

\* A picture begins: nothing is parsed or done, and the threads begin at its first
\* macroblock.
LEMMA FirstSliceKeepsPic ==
  ASSUME DInv, PicInv, Fits, NEW m \in 0..NumMbs, FirstSlice(m)
  PROVE  PicInv'
<1> USE TwoThreads, MbFacts
<1> DEFINE runs == {DecThread}
              \cup (IF cores = 3 \/ created[ReconThread] THEN {ReconThread} ELSE {})
<1>1. /\ main = "nal" /\ first /\ first' = FALSE /\ pend' = 0 /\ missing' = m
      /\ after' = "header" /\ main' = (IF m = 0 THEN "header" ELSE "lost")
      /\ UNCHANGED <<cores, keep, skips, header, numbered, upto, breakAll>>
      /\ sliceMap' = [k \in Mb |-> 0] /\ decMap' = [k \in Mb |-> FALSE]
      /\ reconMap' = [k \in Mb |-> FALSE]
      /\ cur' = 0 /\ decSlice' = 0 /\ reconSlice' = 0 /\ deblkMb' = 0
      /\ recon' = [k \in Mb |-> 0] /\ entry' = [s \in Slice |-> "old"]
      /\ UNCHANGED <<coded, sliceStart, decMb, todo, reconMb, bsMb, deblkAt>>
      /\ created' = [t \in Threads |-> t \in runs \/ created[t]]
      /\ tpc' = [t \in Threads |-> IF t \notin runs \/ created[t] THEN tpc[t]
                                   ELSE IF keep THEN "idle" ELSE "slice"]
      /\ start' = [t \in Threads |-> IF keep /\ t \in runs THEN "start" ELSE start[t]]
      /\ seen' = (seen /\ \A t \in runs : created[t] \/ t # ReconThread)
  BY DEF FirstSlice, StartOfPic, StartThreads, callVars, DInv, SyncTyped
<1>2. /\ Typed /\ Control /\ sliceStart[0] = 0 /\ Away /\ skips \in Nat
      /\ coded = 0 /\ decMb = 0 /\ reconMb = 0 /\ bsMb = 0 /\ ~header /\ ~seen /\ ~numbered
      /\ \A t \in Threads : Rest(t) /\ Thread(t)
  BY <1>1 DEF PicInv, Control, InCall, InPicture, DInv, Passing
<1>3. Typed'
  BY <1>1, <1>2 DEF Typed
<1>4. Control'
  BY <1>1, <1>2 DEF Control, Active, InCall, InPicture, Passing
<1>5. Numbers'
  <2>1. Ordered'
    BY <1>1, <1>2 DEF Ordered
  <2>2. Begun'
    BY <1>1, <1>2 DEF Begun
  <2>3. QED
    BY <2>1, <2>2 DEF Numbers
<1>6. \A t \in runs : /\ created'[t] /\ (keep => start'[t] = "start")
                      /\ Told(t)' \/ tpc'[t] = "slice"
  BY <1>1, <1>2 DEF Rest, Told
<1>7. DecThread \in runs /\ (cores = 3 => ReconThread \in runs)
  OBVIOUS
<1> HIDE DEF runs
<1>8. Running'
  BY <1>1, <1>2, <1>6, <1>7 DEF Running, InPicture
<1>9. \A k \in Mb : ~(k < 0)
  OBVIOUS
<1>10. DecPlace(0)'
  <2>1. AtSlice(decMb, decSlice, 0)'
    BY <1>1, <1>2, <1>9 DEF AtSlice
  <2>2. tpc'[DecThread] = "slice" \/ (Told(DecThread)' /\ tpc'[DecThread] = "idle")
    BY <1>6, <1>7 DEF Told
  <2>3. \A k \in Mb : reconMap'[k] = FALSE /\ recon'[k] = 0
    BY <1>1
  <2>4. 0 <= coded'
    BY <1>1, <1>2
  <2>5. QED
    BY <1>1, <1>2, <1>9, <2>1, <2>2, <2>3, <2>4 DEF DecPlace, Finished
<1>11. cores' = 3 => ReconPlace(0)'
  <2>1. AtSlice(reconMb, reconSlice, 0)'
    BY <1>1, <1>2, <1>9 DEF AtSlice
  <2>2. cores' = 3 => tpc'[ReconThread] = "slice" \/ (Told(ReconThread)' /\ tpc'[ReconThread] = "idle")
    BY <1>1, <1>6, <1>7 DEF Told
  <2>3. \A k \in Mb : recon'[k] = 0
    BY <1>1
  <2>4. deblkMb' = 0 /\ 0 <= 0 /\ 0 >= 0 - 1
    BY <1>1
  <2>5. QED
    BY <1>1, <1>2, <1>9, <2>1, <2>2, <2>3, <2>4 DEF ReconPlace, Finished, RowStart
<1>12. Picture'
  BY <1>5, <1>8, <1>10, <1>11 DEF Picture
<1>13. Away'
  BY <1>1, <1>2 DEF Away, InCall, InPicture
<1>14. DeblockLags'
  BY <1>1, <1>9 DEF DeblockLags
<1>15. QED
  BY <1>1, <1>2, <1>3, <1>4, <1>12, <1>13, <1>14 DEF PicInv

\* A step after which no picture is worked on has little to show.
LEMMA OutsideKeeps ==
  ASSUME PicInv, Fits, ~Active', Typed', Control', Away',
         UNCHANGED <<sliceStart, recon, deblkMb, skips>>
  PROVE  PicInv'
BY DEF PicInv, Picture, DeblockLags

\* A call begins with nothing parsed.
LEMMA CallKeepsPic == ASSUME DInv, PicInv, Fits, Call PROVE PicInv'
<1> USE MbFacts
<1>1. /\ main = "out" /\ main' = "nal" /\ coded' = 0 /\ cur' = 0
      /\ decMb' = 0 /\ reconMb' = 0 /\ bsMb' = 0
      /\ first' = TRUE /\ header' = FALSE /\ seen' = FALSE
      /\ UNCHANGED <<sliceStart, sliceMap, decMap, entry, decSlice, todo, reconSlice,
                     reconMap, deblkMb, deblkAt, recon, cores, tpc, skips, keep, next, pend,
                     numbered, upto, after, missing, done>>
      /\ breakAll' = IF keep THEN FALSE ELSE breakAll
  BY DEF Call, RowsReset, sampleVars
<1>2. Typed /\ Control /\ Away
  BY DEF PicInv
<1>3. Typed'
  BY <1>1, <1>2 DEF Typed
<1>4. ~numbered
  BY <1>1, <1>2 DEF Control, Passing
<1>5. Control' /\ ~Active'
  BY <1>1, <1>4 DEF Control, Active, Passing
<1>6. Away'
  BY <1>1, <1>2 DEF Away, InCall, InPicture, Passing
<1>7. QED
  BY <1>1, <1>3, <1>5, <1>6, OutsideKeeps

\* Outside of a call nobody is in a picture.
LEMMA OutKeepsPic ==
  ASSUME DInv, DInv', PicInv, Fits,
         (\E n \in {2, 3} : SetNumCores(n)) \/ Join \/ JoinDecode \/ JoinRecon
  PROVE  PicInv'
<1>1. /\ main \in {"out", "joinDec", "joinRecon"} /\ main' \in {"out", "joinDec", "joinRecon"}
      /\ UNCHANGED <<coded, cur, sliceStart, sliceMap, decMap, entry, decVars, reconVars,
                     reconMap, deblkMb, deblkAt, recon, skips, keep, parserVars>>
      /\ cores' \in {2, 3} \/ cores' = cores
      /\ breakAll' = breakAll \/ (keep /\ main' = "joinDec" /\ breakAll')
      /\ main' = "joinDec" => breakAll' = TRUE
      /\ main' = "joinRecon" => main = "joinDec"
      /\ \A t \in Threads : tpc'[t] = tpc[t] \/ tpc'[t] \notin Inside
  BY TwoThreads DEF SetNumCores, Join, JoinDecode, JoinRecon, rowsVars, parseVars, sampleVars,
     callVars, parserVars, syncVars, Joined, TGoto, DInv, SyncTyped, Inside
<1>2. Typed /\ Control /\ Away
  BY DEF PicInv
<1>3. Typed'
  BY <1>1, <1>2 DEF Typed, decVars, reconVars, parserVars
<1>4. Control' /\ ~Active'
  BY <1>1, <1>2 DEF Control, Active, InCall, InPicture, Passing, parserVars
<1>5. main \notin InCall /\ main' \notin InCall
  BY <1>1 DEF InCall, InPicture, Passing
<1>6. Away'
  BY <1>1, <1>2, <1>5 DEF Away
<1>7. QED
  BY <1>1, <1>3, <1>4, <1>6, OutsideKeeps

\* With two cores the caller deblocks behind the decode thread.
LEMMA DeblockMbLags ==
  ASSUME Typed, DeblockLags, NEW f \in 0..NumMbs, DecPlace(f), cores = 2, DeblockMb
  PROVE  DeblockLags' /\ deblkMb' \in 0..NumMbs /\ deblkAt' \in Nat
<1> USE MbFacts
<1>1. /\ deblkMb < NumMbs /\ reconMap[Smaller(deblkMb + 1, RowEnd(deblkMb))]
      /\ deblkMb' = deblkMb + 1 /\ deblkAt' = deblkAt + 1 /\ recon' = recon
  BY DEF DeblockMb
<1>2. deblkMb \in Mb /\ deblkMb \in Nat /\ deblkAt \in Nat
  BY <1>1 DEF Typed
<1> DEFINE right == Smaller(deblkMb + 1, RowEnd(deblkMb))
<1>3. RowEnd(deblkMb) \in Mb /\ RowEnd(deblkMb) \in Nat /\ deblkMb <= RowEnd(deblkMb)
  BY <1>2, RowFacts
<1>4. right \in Mb /\ right \in Nat /\ deblkMb <= right
  BY <1>2, <1>3 DEF Smaller
<1>5. right < f
  BY <1>1, <1>4 DEF DecPlace
<1>6. recon[right] = 1 /\ recon[deblkMb] = 1
  BY <1>2, <1>4, <1>5 DEF DecPlace
<1>7. ASSUME NEW m \in Mb, m < deblkMb + 1
      PROVE  recon[m] > 0 /\ recon[Smaller(m + 1, RowEnd(m))] > 0
  <2>1. CASE m = deblkMb
    BY <1>6, <2>1
  <2>2. CASE m < deblkMb
    BY <2>2 DEF DeblockLags
  <2>3. QED
    BY <1>2, <1>7, <2>1, <2>2
<1>8. QED
  BY <1>1, <1>2, <1>7 DEF DeblockLags

\* With two cores the caller deblocks the whole picture before it waits.
LEMMA EndOfPicKeepsPic == ASSUME DInv, PicInv, Fits, EndOfPic PROVE PicInv'
<1> USE MbFacts, TwoThreads
<1>1. /\ main = "end" /\ (first \/ coded = NumMbs)
      /\ main' = (IF cores = 2 /\ seen THEN "deblock" ELSE "waitDec")
      /\ deblkAt' = (IF cores = 2 /\ seen THEN 0 ELSE deblkAt)
      /\ bsMb' = (IF cores = 2 /\ seen THEN NumMbs ELSE bsMb)
      /\ UNCHANGED <<cores, coded, cur, sliceStart, sliceMap, decMap, entry, decVars, reconMb,
                     reconSlice, reconMap, deblkMb, recon, tpc, skips, keep, parserVars, start,
                     created, breakAll>>
  BY DEF EndOfPic, parseVars, callVars, syncVars
<1>2. /\ Typed /\ Control /\ sliceStart[0] = 0 /\ Picture /\ DeblockLags /\ Away
      /\ skips \in Nat
  BY DEF PicInv
<1>3. /\ first' = first /\ header' = header /\ seen' = seen /\ next' = next /\ pend' = pend
      /\ numbered' = numbered /\ upto' = upto /\ after' = after /\ missing' = missing
      /\ decMb' = decMb /\ decSlice' = decSlice /\ todo' = todo
  BY <1>1 DEF parserVars, decVars
<1>4. Typed' /\ DeblockLags'
  BY <1>1, <1>2, <1>3 DEF Typed, DeblockLags
<1>5. main \in InCall /\ main' \in InCall /\ (Active <=> Active')
  BY <1>1, <1>3 DEF InCall, InPicture, Active
<1>6. Control'
  <2>1. first => ~seen /\ bsMb = 0 /\ decMb = 0 /\ reconMb = 0 /\ coded = 0 /\ cur = 0 /\ ~header
    BY <1>2, <1>5 DEF Control
  <2>2. ~(Active /\ pend > 0)
    BY <1>1, <1>2, <1>5 DEF Control, Typed, Active
  <2>3. coded' = coded /\ ~(Active' /\ pend' > 0) /\ ~numbered'
    BY <1>1, <1>2, <1>3, <1>5, <2>2 DEF Control, Passing
  <2>4. Active' => coded' = NumMbs
    BY <1>1, <1>3, <2>3 DEF Active
  <2>5. QED
    BY <1>1, <1>3, <2>1, <2>3, <2>4 DEF Control, Passing
<1>7. Away'
  BY <1>1, <1>2, <1>3, <1>5 DEF Away, Told
<1>8. ASSUME Active' PROVE Numbers' /\ Running' /\ (\E f \in 0..NumMbs : DecPlace(f)')
                           /\ (cores' = 3 => \E r \in 0..NumMbs : ReconPlace(r)')
  <2>1. Active /\ Numbers /\ Running
    BY <1>2, <1>5, <1>8 DEF Picture
  <2>2. Numbers'
    BY <1>1, <1>2, <1>3, <2>1, NothingParsed DEF parseVars
  <2>3. Running'
    BY <1>1, <2>1, <1>3 DEF Running, InPicture, Passing
  <2>4. PICK f \in 0..NumMbs : DecPlace(f)
    BY <1>2, <2>1 DEF Picture
  <2>5. DecPlace(f)'
    BY <1>1, <2>4, DecStays
  <2>6. ASSUME cores = 3 PROVE \E r \in 0..NumMbs : ReconPlace(r)'
    <3>1. PICK r \in 0..NumMbs : ReconPlace(r)
      BY <1>2, <2>1, <2>6 DEF Picture
    <3>2. ReconPlace(r)'
      BY <1>1, <2>6, <3>1, ReconStays DEF reconVars
    <3>3. QED
      BY <3>2
  <2>7. QED
    BY <1>1, <2>2, <2>3, <2>5, <2>6
<1>9. QED
  BY <1>1, <1>2, <1>4, <1>6, <1>7, <1>8 DEF PicInv, Picture

\* Deblocking, the caller leaves everything else alone.
LEMMA DeblockMbKeepsPic == ASSUME DInv, PicInv, Fits, DeblockMb PROVE PicInv'
<1> USE MbFacts, TwoThreads
<1>1. /\ main = "deblock"
      /\ UNCHANGED <<cores, parseVars, decVars, reconVars, reconMap, recon, tpc, main,
                     callVars, parserVars, start, created, breakAll>>
  BY DEF DeblockMb, syncVars
<1>2. /\ Typed /\ Control /\ sliceStart[0] = 0 /\ Picture /\ DeblockLags /\ Away
      /\ skips \in Nat
  BY DEF PicInv
<1>3. Active /\ cores = 2
  BY <1>1, <1>2 DEF Control, Active, InCall, InPicture
<1>4. Numbers /\ Running
  BY <1>2, <1>3 DEF Picture
<1>5. PICK f \in 0..NumMbs : DecPlace(f)
  BY <1>2, <1>3 DEF Picture
<1>6. DeblockLags' /\ deblkMb' \in 0..NumMbs /\ deblkAt' \in Nat
  BY <1>2, <1>3, <1>5, DeblockMbLags
<1>7. /\ coded' = coded /\ cur' = cur /\ sliceStart' = sliceStart /\ sliceMap' = sliceMap
      /\ decMap' = decMap /\ entry' = entry /\ skips' = skips /\ keep' = keep
      /\ first' = first /\ header' = header /\ seen' = seen /\ next' = next /\ pend' = pend
      /\ numbered' = numbered /\ upto' = upto /\ after' = after /\ missing' = missing
      /\ decMb' = decMb /\ decSlice' = decSlice /\ todo' = todo
      /\ reconMb' = reconMb /\ reconSlice' = reconSlice /\ bsMb' = bsMb
  BY <1>1 DEF parseVars, callVars, parserVars, decVars, reconVars
<1>8. Typed'
  BY <1>1, <1>2, <1>6, <1>7 DEF Typed
<1>9. Control' /\ Away'
  BY <1>1, <1>2, <1>7 DEF Control, Away, Active, Told
<1>10. Numbers'
  BY <1>1, <1>2, <1>4, <1>7, NothingParsed
<1>11. Running'
  BY <1>1, <1>4, <1>7 DEF Running
<1>12. DecPlace(f)'
  BY <1>1, <1>3, <1>5, <1>7, DecStays
<1>13. QED
  BY <1>1, <1>2, <1>3, <1>6, <1>7, <1>8, <1>9, <1>10, <1>11, <1>12 DEF PicInv, Picture

\* When all is deblocked the caller waits.
LEMMA DeblockedKeepsPic == ASSUME DInv, PicInv, Fits, Deblocked PROVE PicInv'
<1> USE MbFacts, TwoThreads
<1>1. /\ main = "deblock" /\ deblkMb >= NumMbs /\ seen' = FALSE /\ main' = "waitDec"
      /\ UNCHANGED <<rowsVars, callVars, first, header, next, pend, numbered, upto, after,
                     missing, start, created, breakAll>>
  BY DEF Deblocked, syncVars
<1>2. /\ Typed /\ Control /\ sliceStart[0] = 0 /\ Picture /\ DeblockLags /\ Away
      /\ skips \in Nat
  BY DEF PicInv
<1>3. Active /\ cores = 2
  BY <1>1, <1>2 DEF Control, Active, InCall, InPicture
<1>4. Numbers /\ Running
  BY <1>2, <1>3 DEF Picture
<1>5. PICK f \in 0..NumMbs : DecPlace(f)
  BY <1>2, <1>3 DEF Picture
<1>6. deblkMb = NumMbs
  BY <1>1, <1>2 DEF Typed
<1>7. /\ coded' = coded /\ cur' = cur /\ sliceStart' = sliceStart /\ sliceMap' = sliceMap
      /\ decMap' = decMap /\ entry' = entry /\ skips' = skips /\ keep' = keep
      /\ decMb' = decMb /\ decSlice' = decSlice /\ todo' = todo
      /\ reconMb' = reconMb /\ reconSlice' = reconSlice /\ bsMb' = bsMb
      /\ reconMap' = reconMap /\ recon' = recon /\ deblkMb' = deblkMb /\ deblkAt' = deblkAt
      /\ cores' = cores /\ tpc' = tpc
  BY <1>1 DEF rowsVars, parseVars, callVars, decVars, reconVars, sampleVars
<1>8. Typed' /\ DeblockLags'
  BY <1>1, <1>2, <1>7 DEF Typed, DeblockLags
<1>9. Active' /\ main' \in InCall
  BY <1>1, <1>3 DEF Active, InCall, InPicture
<1>10. Control'
  BY <1>1, <1>2, <1>3, <1>7, <1>9 DEF Control, Active, Passing
<1>11. Away'
  BY <1>1, <1>2, <1>3, <1>7, <1>9 DEF Away, Active
<1>12. Numbers'
  BY <1>1, <1>2, <1>4, <1>7, NothingParsed DEF parseVars
<1>13. Running'
  BY <1>1, <1>4, <1>6, <1>7, <1>3 DEF Running, InPicture, Passing
<1>14. DecPlace(f)'
  BY <1>1, <1>3, <1>5, <1>7, DecStays DEF decVars
<1>15. QED
  BY <1>2, <1>3, <1>7, <1>8, <1>10, <1>11, <1>12, <1>13, <1>14 DEF PicInv, Picture

\* A thread that was started has finished its picture when the wait for it ends.
LEMMA WaitedFinished ==
  ASSUME DInv, NEW t \in Threads, WaitFor(t), created[t], keep => start[t] # "init"
  PROVE  Finished(t)
BY DEF DInv, Thread, Kept, WaitFor, Finished, Told, Inside

\* A picture that is waited for is one that has all its macroblocks.
LEMMA DecodeWaited ==
  ASSUME DInv, PicInv, Fits, Active, main = "waitDec", WaitFor(DecThread)
  PROVE  Finished(DecThread) /\ DecPlace(NumMbs)
<1> USE TwoThreads
<1>1. Running /\ \E f \in 0..NumMbs : DecPlace(f)
  BY DEF PicInv, Picture
<1>2. Finished(DecThread)
  BY <1>1, WaitedFinished DEF Running
<1>3. PICK f \in 0..NumMbs : DecPlace(f)
  BY <1>1
<1>4. f = NumMbs
  BY <1>2, <1>3 DEF DecPlace
<1>5. QED
  BY <1>2, <1>3, <1>4

\* The same of the recon thread: the picture is reconstructed and deblocked.
LEMMA ReconWaited ==
  ASSUME DInv, PicInv, Fits, Active, main = "waitRecon", WaitFor(ReconThread)
  PROVE  cores = 3 /\ ReconPlace(NumMbs) /\ deblkMb = NumMbs
<1> USE TwoThreads
<1>1. cores = 3 /\ Running /\ \E r \in 0..NumMbs : ReconPlace(r)
  BY DEF PicInv, Picture, Control
<1>2. PICK r \in 0..NumMbs : ReconPlace(r)
  BY <1>1
<1>3. created[ReconThread]
  BY <1>1 DEF Running
<1>4. keep => start[ReconThread] # "init"
  BY <1>1 DEF Running
<1>5. Finished(ReconThread)
  BY <1>3, <1>4, WaitedFinished
<1>6. r = NumMbs /\ deblkMb = NumMbs
  BY <1>2, <1>5 DEF ReconPlace
<1>7. QED
  BY <1>1, <1>2, <1>6

\* What a wait leaves alone.
WaitLeaves ==
  UNCHANGED <<cores, coded, cur, sliceStart, sliceMap, decMap, entry, decVars, reconVars,
              reconMap, deblkMb, deblkAt, recon, skips, keep, parserVars, start, breakAll>>

\* After the wait for the decode thread the recon thread is waited for, if there is one.
LEMMA WaitDecodeKeepsPic == ASSUME DInv, DInv', PicInv, Fits, WaitDecode PROVE PicInv'
<1> USE MbFacts, TwoThreads
<1>1. /\ main = "waitDec" /\ main' = (IF cores = 3 THEN "waitRecon" ELSE "out")
      /\ WaitLeaves /\ WaitFor(DecThread)
  BY DEF WaitDecode, WaitLeaves, parseVars, sampleVars, callVars
<1>2. /\ Typed /\ Control /\ sliceStart[0] = 0 /\ Picture /\ DeblockLags /\ Away
      /\ skips \in Nat /\ cores \in {2, 3}
  BY DEF PicInv, Typed
<1>3. /\ coded' = coded /\ cur' = cur /\ sliceStart' = sliceStart /\ sliceMap' = sliceMap
      /\ decMap' = decMap /\ entry' = entry /\ skips' = skips /\ keep' = keep
      /\ first' = first /\ header' = header /\ seen' = seen /\ next' = next /\ pend' = pend
      /\ numbered' = numbered /\ upto' = upto /\ after' = after /\ missing' = missing
      /\ decMb' = decMb /\ decSlice' = decSlice /\ todo' = todo
      /\ reconMb' = reconMb /\ reconSlice' = reconSlice /\ bsMb' = bsMb
      /\ reconMap' = reconMap /\ recon' = recon /\ deblkMb' = deblkMb /\ deblkAt' = deblkAt
      /\ cores' = cores /\ start' = start /\ breakAll' = breakAll
  BY <1>1 DEF WaitLeaves, parserVars, decVars, reconVars
<1>4. /\ tpc' = tpc \/ (tpc[DecThread] = "exited" /\ tpc' = [tpc EXCEPT ![DecThread] = "none"])
      /\ tpc \in [Threads -> Places]
      /\ created'[ReconThread] = created[ReconThread]
  BY <1>1 DEF WaitFor, TGoto, DInv, SyncTyped
<1>5. /\ tpc'[ReconThread] = tpc[ReconThread]
      /\ \A t \in Threads : tpc'[t] \in Inside => tpc[t] \in Inside
  BY <1>4 DEF Inside
<1>6. Typed' /\ DeblockLags'
  BY <1>2, <1>3 DEF Typed, DeblockLags
<1>7. main \in InCall
  BY <1>1 DEF InCall, InPicture
<1>8. Control'
  BY <1>1, <1>2, <1>3, <1>7 DEF Control, Active, InCall, InPicture, Passing
<1>9. CASE Active /\ cores = 3
  <2>1. Active' /\ main' = "waitRecon" /\ main' \in InCall
    BY <1>1, <1>3, <1>9 DEF Active, InCall
  <2>2. Finished(DecThread) /\ DecPlace(NumMbs)
    BY <1>1, <1>9, DecodeWaited
  <2>3. Finished(DecThread)'
    BY <1>3, <1>4, <2>2 DEF Finished, Told
  <2>4. DecPlace(NumMbs)'
    BY <1>3, <2>2, <2>3 DEF DecPlace, Finished, Told
  <2>5. PICK r \in 0..NumMbs : ReconPlace(r)
    BY <1>2, <1>9 DEF Picture
  <2>6. ReconPlace(r)'
    BY <1>3, <1>5, <2>5, ReconStays DEF reconVars
  <2>7. Numbers /\ Running
    BY <1>2, <1>9 DEF Picture
  <2>8. Numbers'
    BY <1>2, <1>3, <2>7, NothingParsed DEF parseVars
  <2>9. Running'
    BY <1>3, <1>4, <1>9, <2>1, <2>7, <1>1 DEF Running, InPicture, Passing
  <2>10. Away'
    BY <1>2, <1>3, <1>7, <2>1, <1>9, <1>1 DEF Away, Active, Told
  <2>11. NumMbs \in 0..NumMbs
    OBVIOUS
  <2>12. QED
    BY <1>2, <1>3, <1>6, <1>8, <2>4, <2>6, <2>8, <2>9, <2>10, <2>11 DEF PicInv, Picture
<1>10. CASE ~Active /\ cores = 3
  <2>1. ~Active' /\ main' = "waitRecon" /\ main' \in InCall /\ first
    BY <1>1, <1>3, <1>7, <1>10 DEF Active, InCall
  <2>2. \A t \in Threads : tpc[t] \notin Inside /\ Rest(t)
    BY <1>1, <1>2, <2>1 DEF Away, DInv, InPicture
  <2>3. ~Told(ReconThread)'
    BY <1>3, <1>5, <2>2 DEF Told, Rest, DInv, Thread
  <2>4. Away'
    BY <1>1, <1>2, <1>3, <1>5, <1>7, <2>1, <2>2, <2>3 DEF Away
  <2>5. QED
    BY <1>3, <1>6, <1>8, <2>1, <2>4, OutsideKeeps
<1>11. CASE cores = 2
  <2>1. ~Active' /\ main' = "out" /\ main' \notin InCall
    BY <1>1, <1>11 DEF Active, InCall, InPicture, Passing
  <2>2. \A t \in Threads : Rest(t)' /\ Thread(t)'
    BY <2>1 DEF DInv
  <2>3. \A t \in Threads : tpc'[t] \notin Inside
    BY <2>2 DEF Rest, Thread, Inside
  <2>4. Away'
    BY <1>2, <1>3, <1>7, <2>1, <2>3 DEF Away
  <2>5. QED
    BY <1>3, <1>6, <1>8, <2>1, <2>4, OutsideKeeps
<1>12. QED
  BY <1>2, <1>9, <1>10, <1>11

\* After the wait for the recon thread the call returns.
LEMMA WaitReconKeepsPic == ASSUME DInv, DInv', PicInv, Fits, WaitRecon PROVE PicInv'
<1>1. main = "waitRecon" /\ main' = "out" /\ WaitLeaves
  BY DEF WaitRecon, WaitLeaves, parseVars, sampleVars, callVars
<1>2. Typed /\ Control /\ Away
  BY DEF PicInv
<1>3. Typed'
  BY <1>1, <1>2 DEF Typed, WaitLeaves, decVars, reconVars, parserVars
<1>4. ~Active' /\ main \in InCall /\ main' \notin InCall
  BY <1>1 DEF Active, InCall, InPicture, Passing
<1>5. Control'
  BY <1>1, <1>2, <1>4 DEF Control, Active, InCall, InPicture, Passing, WaitLeaves, parserVars
<1>6. \A t \in Threads : Rest(t)' /\ Thread(t)'
  BY <1>1 DEF DInv
<1>7. \A t \in Threads : tpc'[t] \notin Inside
  BY <1>6 DEF Rest, Thread, Inside
<1>8. Away'
  BY <1>1, <1>2, <1>4, <1>7 DEF Away, WaitLeaves
<1>9. QED
  BY <1>1, <1>3, <1>4, <1>5, <1>8, OutsideKeeps DEF WaitLeaves

-----------------------------------------------------------------------------
(* All steps. *)

\* The slices skipped are counted, and at most those that may be.
Counted ==
  /\ calls \in 0..MaxCalls /\ skips \in Nat
  /\ skips = 0 \/ \E c \in 0..MaxCalls : skips <= MaxSkips[c]

\* At first nothing is skipped and nobody works.
LEMMA PicInvInit == Init => PicInv /\ Counted
<1> SUFFICES ASSUME Init PROVE PicInv /\ Counted
  OBVIOUS
<1> USE MbFacts, TwoThreads
<1>1. /\ coded = 0 /\ cur = 0 /\ sliceStart = [s \in Slice |-> 0]
      /\ sliceMap = [m \in Mb |-> 0]
      /\ decMap = [m \in Mb |-> FALSE] /\ reconMap = [m \in Mb |-> FALSE]
      /\ decMb = 0 /\ decSlice = 0 /\ todo = 0 /\ reconMb = 0 /\ reconSlice = 0 /\ bsMb = 0
      /\ deblkMb = 0 /\ deblkAt = 0 /\ recon = [m \in Mb |-> 0]
      /\ entry = [s \in Slice |-> "old"] /\ tpc = [t \in Threads |-> "none"]
      /\ cores \in {2, 3} /\ main = "out" /\ calls = 0 /\ skips = 0
      /\ ~numbered /\ pend = 0 /\ upto = 0 /\ missing = 0 /\ breakAll = FALSE
  BY DEF Init, RowsInit
<1>2. main \notin InCall
  BY <1>1 DEF InCall, InPicture, Passing
<1>3. Typed /\ sliceStart[0] = 0
  BY <1>1 DEF Typed
<1>4. Control /\ ~Active
  BY <1>1, <1>2 DEF Control, Active, Passing
<1>5. Away
  BY <1>1, <1>2 DEF Away, Inside
<1>6. DeblockLags
  BY <1>1 DEF DeblockLags
<1>7. Counted
  BY <1>1, DecThreadsAssumption DEF Counted
<1>8. QED
  BY <1>1, <1>3, <1>4, <1>5, <1>6, <1>7 DEF PicInv, Picture

\* Slices are skipped one at a time, by SkipSlice only.
LEMMA SkipsGrow ==
  ASSUME Counted, [Next]_vars
  PROVE  skips' \in Nat /\ skips <= skips' /\ Counted'
<1>1. CASE SkipSlice
  <2>1. skips' = skips + 1 /\ skips < MaxSkips[calls] /\ calls' = calls
    BY <1>1 DEF SkipSlice
  <2>2. MaxSkips[calls] \in Nat
    BY DecThreadsAssumption DEF Counted
  <2>3. skips' <= MaxSkips[calls] /\ skips' \in Nat /\ skips <= skips'
    BY <2>1, <2>2 DEF Counted
  <2>4. QED
    BY <2>1, <2>3 DEF Counted
<1>2. CASE Call
  <2>1. skips' = skips /\ calls' = calls + 1 /\ calls < MaxCalls
    BY <1>2 DEF Call
  <2>2. QED
    BY <2>1, DecThreadsAssumption DEF Counted
<1>3. CASE UNCHANGED <<calls, skips>>
  BY <1>3 DEF Counted
<1>4. QED
  <2>1. CASE ParseStep
    <3>1. CASE \E m \in 0..NumMbs : FirstSlice(m)
      BY <1>3, <3>1 DEF FirstSlice, callVars
    <3>2. CASE NextSlice \/ SliceHeader \/ BadHeader \/ ParseGroup \/ FailSlice
      BY <1>3, <3>2 DEF NextSlice, SliceHeader, BadHeader, ParseGroup, FailSlice, callVars
    <3>3. CASE (\E m \in Mb \cup {NumMbs} : LostSlice(m)) \/ LeaveLoop \/ Missing
      BY <1>3, <3>3 DEF LostSlice, LeaveLoop, Missing, callVars
    <3>4. CASE Conceal \/ PassNumber \/ PassMark
      BY <1>3, <3>4 DEF Conceal, PassNumber, PassMark, callVars
    <3>5. QED
      BY <1>1, <2>1, <3>1, <3>2, <3>3, <3>4 DEF ParseStep
  <2>2. CASE EndStep
    BY <1>3, <2>2 DEF EndStep, EndOfPic, DeblockMb, Deblocked, WaitDecode, WaitRecon,
       JoinDecode, JoinRecon, callVars
  <2>3. CASE (\E n \in {2, 3} : SetNumCores(n)) \/ Join
    BY <1>3, <2>3 DEF SetNumCores, Join, callVars
  <2>4. CASE \E t \in Threads : ThreadStep(t)
    BY <1>3, <2>4 DEF ThreadStep, TakePicture, RowStep, FinishPicture, callVars
  <2>5. CASE UNCHANGED vars
    BY <1>3, <2>5 DEF vars, callVars
  <2>6. QED
    BY <1>2, <2>1, <2>2, <2>3, <2>4, <2>5 DEF Next, MainStep

\* A step that does nothing.
LEMMA StutterKeepsPic == ASSUME PicInv, UNCHANGED vars PROVE PicInv'
BY DEF PicInv, Fits, Typed, Control, Away, Picture, DeblockLags, Active, Numbers, Ordered, Begun,
   Running, DecPlace, ReconPlace, AtSlice, AtRow, AtMbs, Told, Finished, RowStart,
   vars, rowsVars, parseVars, decVars, reconVars, sampleVars, callVars, parserVars, syncVars

\* Every step keeps the invariant as long as there are entries, and when there are
\* none left there is nothing to keep.
LEMMA PicInvStep ==
  ASSUME MayLower = FALSE, DInv, DInv', PicInv, Counted, [Next]_vars
  PROVE  PicInv' /\ Counted'
<1>1. skips' \in Nat /\ skips <= skips' /\ skips \in Nat /\ Counted'
  BY SkipsGrow DEF Counted
<1>2. CASE ~Fits'
  BY <1>1, <1>2 DEF PicInv
<1>3. CASE Fits'
  <2>0. Fits
    <3>1. NumMbs + skips' <= MaxSlices
      BY <1>3 DEF Fits
    <3>2. NumMbs \in Nat /\ MaxSlices \in Nat
      BY MbFacts, DecRowsAssumption
    <3>3. \A a, b, c, d \in Nat : a + c <= d /\ b <= c => a + b <= d
      OBVIOUS
    <3>4. QED
      BY <1>1, <3>1, <3>2, <3>3 DEF Fits
  <2>1. CASE ParseStep
    BY <1>1, <1>3, <2>0, <2>1, ParseKeepsPic, FirstSliceKeepsPic
  <2>2. CASE EndStep
    BY <1>1, <2>0, <2>2, EndOfPicKeepsPic, DeblockMbKeepsPic, DeblockedKeepsPic,
       WaitDecodeKeepsPic, WaitReconKeepsPic, OutKeepsPic DEF EndStep
  <2>3. CASE (\E n \in {2, 3} : SetNumCores(n)) \/ Join
    BY <1>1, <2>0, <2>3, OutKeepsPic
  <2>4. CASE Call
    BY <1>1, <2>0, <2>4, CallKeepsPic
  <2>5. ASSUME NEW t \in Threads, ThreadStep(t) PROVE PicInv'
    <3>1. CASE TakePicture(t)
      BY <2>0, <3>1, TakePictureKeepsPic
    <3>2. CASE FinishPicture(t)
      BY <2>0, <3>2, FinishPictureKeepsPic
    <3>3. CASE RowStep(t)
      BY <2>0, <3>3, TwoThreads, DecodeSliceKeeps, DecodeRowKeeps, DecodeMbKeeps,
         ReconSliceKeeps, ReconRowKeeps, DeblockGroupKeeps DEF RowStep, DecodeStep, ReconStep
    <3>4. QED
      BY <2>5, <3>1, <3>2, <3>3 DEF ThreadStep
  <2>6. CASE UNCHANGED vars
    BY <1>1, <2>6, StutterKeepsPic
  <2>7. QED
    BY <1>1, <2>1, <2>2, <2>3, <2>4, <2>5, <2>6 DEF Next, MainStep
<1>4. QED
  BY <1>2, <1>3

\* The invariant of the specification.
LEMMA PicInvariant == MayLower = FALSE => (Spec => [](DInv /\ PicInv /\ Counted))
<1> SUFFICES ASSUME MayLower = FALSE PROVE Spec => [](DInv /\ PicInv /\ Counted)
  OBVIOUS
<1>1. DInv /\ PicInv /\ Counted /\ [Next]_vars => (DInv /\ PicInv /\ Counted)'
  BY DInvStep, PicInvStep
<1>2. Init => DInv /\ PicInv /\ Counted
  BY DInvInit, PicInvInit
<1>3. QED
  BY <1>1, <1>2, PTL DEF Spec

-----------------------------------------------------------------------------
(* The properties of a picture. *)

\* The table of slices is long enough for one slice per macroblock and for those
\* that may be skipped.
EnoughEntries == \A c \in 0..MaxCalls : NumMbs + MaxSkips[c] <= MaxSlices

\* Then every slice has its entry.
LEMMA EntriesSuffice == ASSUME EnoughEntries, Counted PROVE Fits
<1>1. /\ NumMbs \in Nat /\ MaxSlices \in Nat /\ skips \in Nat /\ 0 \in 0..MaxCalls
      /\ \A c \in 0..MaxCalls : MaxSkips[c] \in Nat /\ NumMbs + MaxSkips[c] <= MaxSlices
  BY MbFacts, DecRowsAssumption, DecThreadsAssumption DEF EnoughEntries, Counted
<1>2. CASE skips = 0
  BY <1>1, <1>2 DEF Fits
<1>3. CASE \E c \in 0..MaxCalls : skips <= MaxSkips[c]
  BY <1>1, <1>3 DEF Fits
<1>4. QED
  BY <1>2, <1>3 DEF Counted

(* With the table the code allocates, one entry per macroblock, a thread takes its
   place in the picture only from entries written for this picture as long as no
   slice is skipped (ih264d_decode_slice_thread, ih264d_recon_deblk_slice). *)
THEOREM EntriesOfThisPicture ==
  MayLower = FALSE /\ NumMbs <= MaxSlices => (Spec => []ParsedUnlessSkipped)
<1> SUFFICES ASSUME MayLower = FALSE, NumMbs <= MaxSlices
             PROVE  Spec => []ParsedUnlessSkipped
  OBVIOUS
<1>1. DInv /\ PicInv => ParsedUnlessSkipped
  <2>1. SUFFICES ASSUME DInv, PicInv, skips = 0 PROVE SlicesParsed
    BY DEF ParsedUnlessSkipped
  <2>2. Fits
    BY <2>1, MbFacts DEF Fits
  <2>3. ASSUME tpc[DecThread] \in {"row", "mbs"} PROVE entry[decSlice] # "old"
    <3>1. \E f \in 0..NumMbs : DecPlace(f)
      BY <2>1, <2>2, <2>3, InsidePicture, TwoThreads DEF Inside
    <3>2. QED
      BY <2>1, <2>3, <3>1 DEF DecPlace, AtRow, AtMbs
  <2>4. ASSUME tpc[ReconThread] \in {"row", "deblock", "deblockrow"}
        PROVE  entry[reconSlice] # "old" /\ deblkAt = deblkMb
    <3>1. \E r \in 0..NumMbs : ReconPlace(r)
      BY <2>1, <2>2, <2>4, InsidePicture, TwoThreads DEF Inside
    <3>2. QED
      BY <2>1, <2>4, <3>1 DEF ReconPlace, AtRow
  <2>5. QED
    BY <2>3, <2>4 DEF SlicesParsed
<1>2. QED
  BY <1>1, PicInvariant, PTL

(* No macroblock is deblocked before it and its right neighbour are reconstructed,
   by the caller with two cores (ih264d_check_mb_map_deblk) or by the recon thread
   with three (ih264d_recon_deblk_slice). *)
THEOREM DeblockingLags ==
  MayLower = FALSE /\ EnoughEntries => (Spec => []DeblockLags)
<1> SUFFICES ASSUME MayLower = FALSE, EnoughEntries PROVE Spec => []DeblockLags
  OBVIOUS
<1>1. PicInv /\ Counted => DeblockLags
  BY EntriesSuffice DEF PicInv
<1>2. QED
  BY <1>1, PicInvariant, PTL

\* A call that returns from a picture has waited for all of it.
LEMMA ReturnsDone ==
  ASSUME MayLower = FALSE, DInv, PicInv, Fits, [Next]_vars, Returns, ~first
  PROVE  /\ \A m \in Mb : recon[m] = 1
         /\ (cores = 3 \/ \E s \in Slice : entry[s] = "header") => deblkMb = NumMbs
<1> USE MbFacts
<1>1. main \in {"waitDec", "waitRecon"} /\ main' = "out" /\ Active
  BY DEF Returns, Active, InCall, InPicture
<1>2. WaitDecode \/ WaitRecon
  <2>1. ~ParseStep /\ ~Call /\ ~Join /\ ~(\E n \in {2, 3} : SetNumCores(n))
    BY <1>1 DEF ParseStep, FirstSlice, NextSlice, SliceHeader, BadHeader, SkipSlice, ParseGroup,
       FailSlice, LostSlice, LeaveLoop, Missing, Conceal, PassNumber, PassMark, Passing, Call,
       Join, SetNumCores
  <2>2. ~(\E t \in Threads : ThreadStep(t)) /\ ~UNCHANGED vars
    BY <1>1 DEF ThreadStep, TakePicture, RowStep, FinishPicture, vars
  <2>3. ~EndOfPic /\ ~DeblockMb /\ ~Deblocked /\ ~JoinDecode /\ ~JoinRecon
    BY <1>1 DEF EndOfPic, DeblockMb, Deblocked, JoinDecode, JoinRecon
  <2>4. QED
    BY <2>1, <2>2, <2>3 DEF Next, MainStep, EndStep
<1>3. CASE WaitDecode
  <2>1. main = "waitDec" /\ WaitFor(DecThread) /\ cores # 3
    BY <1>1, <1>3 DEF WaitDecode
  <2>2. cores = 2 /\ Running
    BY <1>1, <2>1 DEF PicInv, Typed, Picture
  <2>3. DecPlace(NumMbs)
    BY <1>1, <2>1, DecodeWaited
  <2>4. \A m \in Mb : recon[m] = 1
    BY <2>2, <2>3 DEF DecPlace, Mb
  <2>5. QED
    BY <2>1, <2>2, <2>4 DEF Running
<1>4. CASE WaitRecon
  <2>1. main = "waitRecon" /\ WaitFor(ReconThread)
    BY <1>4 DEF WaitRecon
  <2>2. ReconPlace(NumMbs) /\ deblkMb = NumMbs
    BY <1>1, <2>1, ReconWaited
  <2>3. \A m \in Mb : recon[m] = 1
    BY <2>2 DEF ReconPlace, Mb
  <2>4. QED
    BY <2>2, <2>3
<1>5. QED
  BY <1>2, <1>3, <1>4

(* When a call that found a picture returns, every macroblock was reconstructed
   exactly once, and with three cores or with a slice decoded the picture is
   deblocked, however its slices were cut, lost, refused or skipped, and whichever
   threads did it (ih264d_video_decode, ih264d_decode_slice_thread,
   ih264d_recon_deblk_slice). *)
THEOREM PicturesDone ==
  MayLower = FALSE /\ EnoughEntries => (Spec => FrameDone)
<1> SUFFICES ASSUME MayLower = FALSE, EnoughEntries PROVE Spec => FrameDone
  OBVIOUS
<1>1. DInv /\ PicInv /\ Counted /\ [Next]_vars =>
        [Returns /\ ~first =>
           /\ \A m \in Mb : recon[m] = 1
           /\ (cores = 3 \/ \E s \in Slice : entry[s] = "header") => deblkMb = NumMbs]_vars
  BY EntriesSuffice, ReturnsDone
<1>2. QED
  BY <1>1, PicInvariant, PTL DEF Spec, FrameDone
=============================================================================
