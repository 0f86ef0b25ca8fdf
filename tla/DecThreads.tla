----------------------------- MODULE DecThreads -----------------------------
(***************************************************************************)
(* The decoder's calls and its two threads.  ih264d_video_decode parses    *)
(* NAL units until a picture is complete or an error ends it, conceals     *)
(* what is missing, and waits for the threads it started.  The threads are *)
(* either created and joined for every picture or kept                     *)
(* (u4_keep_threads_active) and restarted through ai4_process_start and    *)
(* ai4_process_done; ih264d_join_threads ends kept threads when the        *)
(* decoder is flushed, reset or deleted.                                   *)
(*                                                                         *)
(* Every condition variable has one waiter, and its predicate is set and   *)
(* signalled under the mutex the waiter holds, so that a wait is a guard.  *)
(* Not modelled: one core (no threads), a failing start of a picture       *)
(* (nothing is started), pictures that change the number of cores (MBAFF). *)
(* MaxCalls bounds the calls, and MaxSkips the slices whose data are not    *)
(* parsed, up to and with each call.                                       *)
(***************************************************************************)
EXTENDS DecRows

CONSTANTS
  KeepModes,   \* the values of u4_keep_threads_active
  MayLower,    \* the application may lower the number of cores at any time
  MaxCalls, MaxSkips

ASSUME DecThreadsAssumption ==
  /\ KeepModes \subseteq BOOLEAN /\ KeepModes # {}
  /\ MayLower \in BOOLEAN
  /\ MaxCalls \in Nat /\ MaxSkips \in [0..MaxCalls -> Nat]

VARIABLES
  main,       \* where the calling thread is
  calls, skips,
  keep,       \* i4_threads_active
  first,      \* u4_first_slice_in_pic
  header,     \* u1_slice_header_done # 0
  seen,       \* u4_start_recon_deblk
  next,       \* a slice may follow at the next macroblock (u4_cur_mb_addr)
  pend,       \* parsed macroblocks not passed on when slice data failed
  numbered,   \* between the two halves of passing on a macroblock
  upto, after,  \* the end of what is passed on, and where the caller goes then
  missing,    \* macroblocks to conceal
  start, done,  \* ai4_process_start, ai4_process_done
  created,    \* u4_dec_thread_created, u4_bs_deblk_thread_created
  breakAll    \* i4_break_threads

callVars == <<calls, skips, keep>>
parserVars == <<first, header, seen, next, pend, numbered, upto, after, missing>>
syncVars == <<start, done, created, breakAll>>
vars == <<rowsVars, main, callVars, parserVars, syncVars>>

Passing == {"group", "pending", "conceal"}

Init ==
  /\ RowsInit
  /\ cores \in {2, 3}
  /\ main = "out" /\ calls = 0 /\ skips = 0
  /\ keep \in KeepModes
  /\ first = TRUE /\ header = FALSE /\ seen = FALSE /\ next = FALSE
  /\ pend = 0 /\ numbered = FALSE /\ upto = 0 /\ after = "nal" /\ missing = 0
  /\ start = [t \in Threads |-> "init"] /\ done = [t \in Threads |-> "init"]
  /\ created = [t \in Threads |-> FALSE]
  /\ breakAll = FALSE

-----------------------------------------------------------------------------
(* The application. *)

\* ih264d_set_num_cores
SetNumCores(n) ==
  /\ main = "out"
  /\ n >= cores \/ ~created[ReconThread] \/ MayLower
  /\ cores' = n
  /\ UNCHANGED <<parseVars, decVars, reconVars, sampleVars, tpc, main, callVars,
                 parserVars, syncVars>>

\* ih264d_video_decode up to the first NAL unit
Call ==
  /\ main = "out" /\ calls < MaxCalls
  /\ calls' = calls + 1
  /\ main' = "nal"
  /\ RowsReset
  /\ first' = TRUE /\ header' = FALSE /\ seen' = FALSE
  /\ IF keep
     THEN /\ breakAll' = FALSE
          /\ start' = [t \in Threads |-> "init"]
          /\ UNCHANGED created
     ELSE /\ created' = [t \in Threads |-> FALSE]
          /\ UNCHANGED <<breakAll, start>>
  /\ UNCHANGED <<cores, tpc, skips, keep, next, pend, numbered, upto, after, missing, done>>

-----------------------------------------------------------------------------
(* Parsing. *)

\* Creates the threads that are not there yet; kept threads are told to start.
StartThreads ==
  LET runs == {DecThread}
              \cup (IF cores = 3 \/ created[ReconThread] THEN {ReconThread} ELSE {})
      new  == {t \in runs : ~created[t]}
  IN  /\ created' = [t \in Threads |-> t \in runs \/ created[t]]
      /\ tpc' = [t \in Threads |-> IF t \notin new THEN tpc[t]
                                   ELSE IF keep THEN "idle" ELSE "slice"]
      /\ start' = [t \in Threads |-> IF keep /\ t \in runs THEN "start" ELSE start[t]]
      /\ seen' = (seen /\ ReconThread \notin new)
      /\ UNCHANGED <<done, breakAll>>

\* The first slice of a picture, at macroblock m.  The macroblocks before it are
\* concealed first; all of them when it belongs to the next picture.
FirstSlice(m) ==
  /\ main = "nal" /\ first
  /\ StartOfPic
  /\ StartThreads
  /\ first' = FALSE
  /\ next' = TRUE /\ pend' = 0
  /\ missing' = m
  /\ after' = "header"
  /\ main' = IF m = 0 THEN "header" ELSE "lost"
  /\ UNCHANGED <<cores, callVars, header, numbered, upto>>

\* ... and the next ones, where the last one ended
NextSlice ==
  /\ main = "nal" /\ ~first
  /\ next /\ coded < NumMbs
  /\ main' = "header"
  /\ UNCHANGED <<rowsVars, callVars, parserVars, syncVars>>

\* A slice header that is good; the slice's data follow.
SliceHeader ==
  /\ main = "header"
  /\ EnterSlice(NextNum, "header")
  /\ header' = TRUE /\ seen' = TRUE
  /\ main' = "slice"
  /\ UNCHANGED <<cores, coded, sliceMap, decMap, decVars, reconVars, sampleVars, tpc,
                 callVars, first, next, pend, numbered, upto, after, missing, syncVars>>

\* The rest of the header is bad; the entry stays, another slice at this
\* macroblock is refused.
BadHeader ==
  /\ main = "header"
  /\ EnterSlice(NextNum, "header")
  /\ header' = FALSE /\ seen' = TRUE /\ next' = FALSE
  /\ main' = "nal"
  /\ UNCHANGED <<cores, coded, sliceMap, decMap, decVars, reconVars, sampleVars, tpc,
                 callVars, first, pend, numbered, upto, after, missing, syncVars>>

\* The skip mode leaves out B or P slices: the number is taken, the entry is not
\* written.
SkipSlice ==
  /\ main = "header" /\ skips < MaxSkips[calls]
  /\ skips' = skips + 1
  /\ cur' = NextNum
  /\ header' = FALSE
  /\ next' = (coded > 0)
  /\ main' = "nal"
  /\ UNCHANGED <<cores, coded, sliceStart, sliceMap, decMap, entry, decVars, reconVars,
                 sampleVars, tpc, calls, keep, first, seen, pend, numbered, upto, after,
                 missing, syncVars>>

\* A group of macroblocks, up to the end of the row or of the slice, is parsed
\* and passed on.
ParseGroup ==
  /\ main = "slice"
  /\ upto' \in coded+1..RowEnd(coded)+1
  /\ after' \in IF upto' <= RowEnd(coded) THEN {"nal"} ELSE {"slice", "nal"}
  /\ main' = "group"
  /\ next' = TRUE
  /\ UNCHANGED <<rowsVars, callVars, first, header, seen, pend, numbered, missing, syncVars>>

\* An error in the slice's data: what the group has so far is not passed on.
FailSlice ==
  /\ main = "slice"
  /\ pend' \in 0..RowEnd(coded)-coded
  /\ next' = FALSE
  /\ main' = "nal"
  /\ UNCHANGED <<rowsVars, callVars, first, header, seen, numbered, upto, after, missing,
                 syncVars>>

\* A slice that starts further on: macroblocks are missing, the picture ends.
LostSlice(m) ==
  /\ main = "nal" /\ ~first /\ coded < m
  /\ missing' = m - coded
  /\ after' = "end"
  /\ main' = IF header /\ pend > 0 THEN "pending" ELSE "lost"
  /\ upto' = IF header THEN coded + pend ELSE 0
  /\ UNCHANGED <<rowsVars, callVars, first, header, seen, next, pend, numbered, syncVars>>

\* The data end, another picture begins, or an error ends the loop.
LeaveLoop ==
  /\ main = "nal"
  /\ main' = "end"
  /\ next' = FALSE
  /\ UNCHANGED <<rowsVars, callVars, first, header, seen, pend, numbered, upto, after,
                 missing, syncVars>>

\* What is still missing when the loop is left is concealed.
Missing ==
  /\ main = "end" /\ ~first /\ coded < NumMbs
  /\ missing' = NumMbs - coded
  /\ after' = "end"
  /\ main' = IF header /\ pend > 0 THEN "pending" ELSE "lost"
  /\ upto' = IF header THEN coded + pend ELSE 0
  /\ UNCHANGED <<rowsVars, callVars, first, header, seen, next, pend, numbered, syncVars>>

\* ih264d_mark_err_slice_skip inserts a slice of skipped macroblocks.
Conceal ==
  /\ main = "lost"
  /\ EnterSlice(IF header THEN NextNum ELSE cur, "lost")
  /\ header' = TRUE
  /\ upto' = Smaller(coded + missing, NumMbs)
  /\ missing' = 0
  /\ main' = "conceal"
  /\ UNCHANGED <<cores, coded, sliceMap, decMap, decVars, reconVars, sampleVars, tpc,
                 callVars, first, seen, next, pend, numbered, after, syncVars>>

\* ih264d_parse_tfr_nmb, macroblock by macroblock.
PassNumber ==
  /\ main \in Passing /\ ~numbered
  /\ NumberMb
  /\ numbered' = TRUE
  /\ UNCHANGED <<cores, coded, cur, sliceStart, decMap, entry, decVars, reconVars,
                 sampleVars, tpc, main, callVars, first, header, seen, next, pend, upto,
                 after, missing, syncVars>>

PassMark ==
  /\ main \in Passing /\ numbered
  /\ MarkMb
  /\ numbered' = FALSE
  /\ pend' = IF main = "pending" THEN pend - 1 ELSE pend
  /\ IF coded' < upto
     THEN UNCHANGED <<main, upto, after>>
     ELSE /\ main' = IF coded' = NumMbs THEN "end"
                     ELSE IF main = "pending" THEN "lost" ELSE after
          /\ upto' = 0
          /\ after' = IF main' = "lost" THEN after ELSE "nal"
  /\ UNCHANGED <<cores, cur, sliceStart, sliceMap, entry, decVars, reconVars, sampleVars,
                 tpc, callVars, first, header, seen, next, missing, syncVars>>

-----------------------------------------------------------------------------
(* The end of a call. *)

\* Mutant of EndOfPic: nothing is concealed.
EndOfPicAnyway ==
  /\ main = "end"
  /\ IF cores = 2 /\ seen
     THEN main' = "deblock" /\ deblkAt' = 0 /\ bsMb' = NumMbs
     ELSE main' = "waitDec" /\ UNCHANGED <<deblkAt, bsMb>>
  /\ UNCHANGED <<cores, parseVars, decVars, reconMb, reconSlice, reconMap, deblkMb,
                 recon, tpc, callVars, parserVars, syncVars>>

\* With two cores the caller deblocks, behind the decode thread.
EndOfPic ==
  /\ main = "end"
  /\ first \/ coded = NumMbs
  /\ IF cores = 2 /\ seen
     THEN main' = "deblock" /\ deblkAt' = 0 /\ bsMb' = NumMbs
     ELSE main' = "waitDec" /\ UNCHANGED <<deblkAt, bsMb>>
  /\ UNCHANGED <<cores, parseVars, decVars, reconMb, reconSlice, reconMap, deblkMb,
                 recon, tpc, callVars, parserVars, syncVars>>

\* ih264d_check_mb_map_deblk
DeblockMb ==
  /\ main = "deblock" /\ deblkMb < NumMbs
  /\ reconMap[Smaller(deblkMb + 1, RowEnd(deblkMb))]
  /\ deblkMb' = deblkMb + 1
  /\ deblkAt' = deblkAt + 1
  /\ UNCHANGED <<cores, parseVars, decVars, reconVars, reconMap, recon, tpc, main,
                 callVars, parserVars, syncVars>>

Deblocked ==
  /\ main = "deblock" /\ deblkMb >= NumMbs
  /\ seen' = FALSE
  /\ main' = "waitDec"
  /\ UNCHANGED <<rowsVars, callVars, first, header, next, pend, numbered, upto, after,
                 missing, syncVars>>

\* Mutant of WaitFor: a thread that has not seen that it is to start counts as
\* one that was not started.
WaitForStarted(t) ==
  \/ /\ ~created[t] \/ (keep /\ start[t] # "progress")
     /\ UNCHANGED <<done, created, tpc>>
  \/ /\ created[t] /\ keep /\ start[t] = "progress"
     /\ done[t] = "done"
     /\ done' = [done EXCEPT ![t] = "init"]
     /\ UNCHANGED <<created, tpc>>
  \/ /\ created[t] /\ ~keep
     /\ tpc[t] = "exited"
     /\ created' = [created EXCEPT ![t] = FALSE]
     /\ TGoto(t, "none")
     /\ UNCHANGED done

\* ih264d_signal_decode_thread, ih264d_signal_bs_deblk_thread: a thread that was
\* started has to be done, a thread of this picture has to return.
WaitFor(t) ==
  \/ /\ ~created[t] \/ (keep /\ start[t] = "init")
     /\ UNCHANGED <<done, created, tpc>>
  \/ /\ created[t] /\ keep /\ start[t] # "init"
     /\ done[t] = "done"
     /\ done' = [done EXCEPT ![t] = "init"]
     /\ UNCHANGED <<created, tpc>>
  \/ /\ created[t] /\ ~keep
     /\ tpc[t] = "exited"
     /\ created' = [created EXCEPT ![t] = FALSE]
     /\ TGoto(t, "none")
     /\ UNCHANGED done

WaitDecode ==
  /\ main = "waitDec"
  /\ WaitFor(DecThread)
  /\ main' = IF cores = 3 THEN "waitRecon" ELSE "out"
  /\ UNCHANGED <<cores, parseVars, decVars, reconVars, sampleVars, callVars, parserVars,
                 start, breakAll>>

WaitRecon ==
  /\ main = "waitRecon"
  /\ WaitFor(ReconThread)
  /\ main' = "out"
  /\ UNCHANGED <<cores, parseVars, decVars, reconVars, sampleVars, callVars, parserVars,
                 start, breakAll>>

-----------------------------------------------------------------------------
(* ih264d_join_threads *)

\* Starts thread t with i4_break_threads set, if it exists.
BreakThread(t) ==
  start' = IF created[t] THEN [start EXCEPT ![t] = "start"] ELSE start

Joined(t) ==
  \/ ~created[t] /\ UNCHANGED <<created, tpc>>
  \/ /\ tpc[t] = "exited"
     /\ created' = [created EXCEPT ![t] = FALSE]
     /\ TGoto(t, "none")

Join ==
  /\ main = "out" /\ keep
  /\ breakAll' = TRUE
  /\ BreakThread(DecThread)
  /\ main' = "joinDec"
  /\ UNCHANGED <<rowsVars, callVars, parserVars, done, created>>

JoinDecode ==
  /\ main = "joinDec"
  /\ Joined(DecThread)
  /\ BreakThread(ReconThread)
  /\ main' = "joinRecon"
  /\ UNCHANGED <<cores, parseVars, decVars, reconVars, sampleVars, callVars, parserVars,
                 done, breakAll>>

JoinRecon ==
  /\ main = "joinRecon"
  /\ Joined(ReconThread)
  /\ main' = "out"
  /\ UNCHANGED <<cores, parseVars, decVars, reconVars, sampleVars, callVars, parserVars,
                 start, done, breakAll>>

-----------------------------------------------------------------------------
(* The threads: ih264d_decode_picture_thread, ih264d_recon_deblk_thread. *)

TakePicture(t) ==
  /\ tpc[t] = "idle" /\ start[t] = "start"
  /\ start' = [start EXCEPT ![t] = "progress"]
  /\ TGoto(t, IF breakAll THEN "exited" ELSE "slice")
  /\ UNCHANGED <<cores, parseVars, decVars, reconVars, sampleVars, main, callVars,
                 parserVars, done, created, breakAll>>

FinishPicture(t) ==
  /\ tpc[t] = "last"
  /\ IF keep THEN done' = [done EXCEPT ![t] = "done"] /\ TGoto(t, "idle")
             ELSE UNCHANGED done /\ TGoto(t, "exited")
  /\ UNCHANGED <<cores, parseVars, decVars, reconVars, sampleVars, main, callVars,
                 parserVars, start, created, breakAll>>

RowStep(t) ==
  /\ IF t = DecThread THEN DecodeStep ELSE ReconStep
  /\ UNCHANGED <<main, callVars, parserVars, syncVars>>

ThreadStep(t) == TakePicture(t) \/ RowStep(t) \/ FinishPicture(t)

-----------------------------------------------------------------------------
ParseStep ==
  \/ \E m \in 0..NumMbs : FirstSlice(m)
  \/ NextSlice \/ SliceHeader \/ BadHeader \/ SkipSlice \/ ParseGroup \/ FailSlice
  \/ \E m \in Mb \cup {NumMbs} : LostSlice(m)
  \/ LeaveLoop \/ Missing \/ Conceal \/ PassNumber \/ PassMark

EndStep ==
  \/ EndOfPic \/ DeblockMb \/ Deblocked \/ WaitDecode \/ WaitRecon
  \/ JoinDecode \/ JoinRecon

MainStep == ParseStep \/ EndStep

Next ==
  \/ \E n \in {2, 3} : SetNumCores(n)
  \/ Call \/ Join \/ MainStep
  \/ \E t \in Threads : ThreadStep(t)

\* A call in progress goes on and the threads are scheduled; the application need
\* not call again.  Polls that find nothing are no steps.
Fairness == WF_vars(MainStep) /\ \A t \in Threads : WF_vars(ThreadStep(t))

Spec == Init /\ [][Next]_vars
FairSpec == Spec /\ Fairness

-----------------------------------------------------------------------------
TypeOK ==
  /\ RowsTypeOK
  /\ main \in Passing \cup {"out", "nal", "header", "slice", "lost", "end", "deblock",
                            "waitDec", "waitRecon", "joinDec", "joinRecon"}
  /\ calls \in 0..MaxCalls /\ skips \in Nat
  /\ keep \in BOOLEAN /\ first \in BOOLEAN /\ header \in BOOLEAN /\ seen \in BOOLEAN
  /\ next \in BOOLEAN /\ numbered \in BOOLEAN
  /\ pend \in 0..Wd-1 /\ upto \in 0..NumMbs /\ missing \in 0..NumMbs
  /\ after \in {"nal", "slice", "header", "end"}
  /\ start \in [Threads -> {"init", "start", "progress"}]
  /\ done \in [Threads -> {"init", "done"}]
  /\ created \in [Threads -> BOOLEAN] /\ breakAll \in BOOLEAN
  /\ tpc \in [Threads -> Inside \cup {"none", "idle", "exited"}]

\* Between calls no thread works on a picture or is told to, and no thread's
\* completion is left over for the next picture: what the next call resets
\* (maps, slice table, positions) is nobody's.
Quiescent ==
  main = "out" => \A t \in Threads :
    /\ tpc[t] = IF created[t] THEN "idle" ELSE "none"
    /\ start[t] # "start" /\ done[t] = "init"

Returns == main \in {"waitDec", "waitRecon"} /\ main' = "out"

\* When a call that found a picture returns, every macroblock has been
\* reconstructed exactly once and the picture is deblocked, however the slices
\* were cut, lost or refused, and whichever threads did it.  (With two cores a
\* picture that is concealed altogether is not deblocked.)
FrameDone ==
  [][Returns /\ ~first =>
       /\ \A m \in Mb : recon[m] = 1
       /\ (cores = 3 \/ \E s \in Slice : entry[s] = "header") => deblkMb = NumMbs]_vars

\* As long as no slice is skipped, no table entry of an earlier picture is used.
ParsedUnlessSkipped == skips = 0 => SlicesParsed

\* Every call returns and every flush, reset and deletion gets its threads to
\* end: no thread waits for a macroblock nobody parses, whatever is missing from
\* the stream, or for a start that will not come.
CallReturns == main # "out" ~> main = "out"
=============================================================================
