------------------------------ MODULE DecRows ------------------------------
(***************************************************************************)
(* One picture in the decoder's thread pipeline.  The calling thread       *)
(* parses slices, the decode thread motion compensates the macroblocks     *)
(* (and with two cores reconstructs them), the recon thread, if there is   *)
(* one, reconstructs and deblocks them.  The threads follow each other     *)
(* through byte maps that they poll without a lock, and find their place   *)
(* in the table of slices by the number every macroblock carries.          *)
(*                                                                         *)
(* This module has the picture's state, what the parser does to it and one *)
(* action per step of the two threads inside a picture; DecThreads has the *)
(* calls and how the threads are started and waited for.  Frames only: the *)
(* field and MBAFF variants of the loops are not modelled.  Format         *)
(* conversion, which the threads do while they wait, is not modelled.      *)
(***************************************************************************)
EXTENDS Naturals

CONSTANTS
  Wd, Ht,      \* u2_frm_wd_in_mbs, u2_frm_ht_in_mbs
  MaxSlices    \* entries of ps_dec_slice_buf

ASSUME DecRowsAssumption ==
  Wd \in Nat \ {0} /\ Ht \in Nat \ {0} /\ MaxSlices \in Nat \ {0}

NumMbs == Wd * Ht
Mb == 0..NumMbs-1
Slice == 0..MaxSlices-1

DecThread   == 0    \* ih264d_decode_picture_thread
ReconThread == 1    \* ih264d_recon_deblk_thread
Threads == {DecThread, ReconThread}

VARIABLES
  cores,       \* u4_num_cores
  coded,       \* u4_total_mbs_coded
  cur,         \* u2_cur_slice_num, the index of ps_parse_cur_slice
  sliceStart,  \* ps_dec_slice_buf[].u4_first_mb_in_slice, kept over pictures
  sliceMap,    \* pu2_slice_num_map
  decMap,      \* pu1_dec_mb_map: parsed
  reconMap,    \* pu1_recon_mb_map: motion compensated
  decMb, decSlice,      \* cur_dec_mb_num, u2_cur_slice_num_dec_thread
  todo,                 \* macroblocks left of the decode thread's group
  reconMb, reconSlice,  \* cur_recon_mb_num, u2_cur_slice_num_bs
  bsMb,                 \* u4_cur_bs_mb_num
  deblkMb,              \* u4_cur_deblk_mb_num
  deblkAt,              \* where the deblocking context's pointers stand
  recon,       \* how often each macroblock has been reconstructed
  entry,       \* by what each entry was written for this picture, if at all
  tpc          \* where each thread is

parseVars == <<coded, cur, sliceStart, sliceMap, decMap, entry>>
decVars   == <<decMb, decSlice, todo>>
reconVars == <<reconMb, reconSlice, bsMb>>
sampleVars == <<reconMap, deblkMb, deblkAt, recon>>
rowsVars == <<cores, parseVars, decVars, reconVars, sampleVars, tpc>>

Inside == {"slice", "row", "mbs", "deblock", "deblockrow", "last"}

Smaller(a, b) == IF a < b THEN a ELSE b
RowEnd(mb) == (mb \div Wd) * Wd + Wd - 1
EndOfRow(mb) == mb = RowEnd(mb)

\* The leading macroblocks of mb's row, from mb on, that belong to slice s.
LeadingMbs(mb, s) ==
  CHOOSE n \in 0..Wd :
    /\ \A m \in mb..mb+n-1 : m <= RowEnd(mb) /\ sliceMap[m] = s
    /\ mb + n > RowEnd(mb) \/ sliceMap[mb + n] # s

TGoto(t, p) == tpc' = [tpc EXCEPT ![t] = p]

-----------------------------------------------------------------------------
(* ih264d_decode_slice_thread, ih264d_decode_recon_tfr_nmb_thread *)

DecodeSliceNoWait ==                           \* mutant of DecodeSlice
  /\ tpc[DecThread] = "slice"
  /\ decMb' = sliceStart[decSlice]
  /\ TGoto(DecThread, "row")
  /\ UNCHANGED <<cores, parseVars, decSlice, todo, reconVars, sampleVars>>

\* Waits for the first macroblock, which tells that the slice is in the table.
DecodeSlice ==
  /\ tpc[DecThread] = "slice"
  /\ decMap[decMb]
  /\ decMb' = sliceStart[decSlice]
  /\ TGoto(DecThread, "row")
  /\ UNCHANGED <<cores, parseVars, decSlice, todo, reconVars, sampleVars>>

\* After a slice: the next one, or the end of the picture.
DecodeNextSlice(mb) ==
  IF mb > NumMbs - 1
  THEN decSlice' = decSlice /\ TGoto(DecThread, "last")
  ELSE decSlice' = decSlice + 1 /\ TGoto(DecThread, "slice")

\* A group is the rest of the row.  The poll looks one macroblock past it,
\* within the row.
DecodeRow ==
  /\ tpc[DecThread] = "row"
  /\ LET group == RowEnd(decMb) - decMb + 1
         ours  == LeadingMbs(decMb, decSlice) IN
       /\ decMap[Smaller(decMb + group + 1, RowEnd(decMb))]
       /\ todo' = ours
       /\ IF ours = 0 THEN DecodeNextSlice(decMb)
                      ELSE TGoto(DecThread, "mbs") /\ UNCHANGED decSlice
  /\ UNCHANGED <<cores, parseVars, decMb, reconVars, sampleVars>>

\* One macroblock of the group.  The last one ends the slice when it is the last
\* of the picture or the group was cut short by another slice.
DecodeMb ==
  /\ tpc[DecThread] = "mbs"
  /\ recon' = [recon EXCEPT ![decMb] = IF cores = 2 THEN @ + 1 ELSE @]
  /\ reconMap' = [reconMap EXCEPT ![decMb] = TRUE]
  /\ decMb' = decMb + 1
  /\ todo' = todo - 1
  /\ IF todo > 1 THEN UNCHANGED <<decSlice, tpc>>
     ELSE IF decMb' <= NumMbs - 1 /\ EndOfRow(decMb)
          THEN TGoto(DecThread, "row") /\ UNCHANGED decSlice
          ELSE DecodeNextSlice(decMb')
  /\ UNCHANGED <<cores, parseVars, reconVars, deblkMb, deblkAt>>

DecodeStep == DecodeSlice \/ DecodeRow \/ DecodeMb

-----------------------------------------------------------------------------
(* ih264d_recon_deblk_slice *)

\* A slice at the first macroblock of the picture sets up the context.
ReconSlice ==
  /\ tpc[ReconThread] = "slice"
  /\ reconMap[reconMb]
  /\ reconMb' = sliceStart[reconSlice]
  /\ bsMb' = sliceStart[reconSlice]
  /\ deblkAt' = IF sliceStart[reconSlice] = 0 THEN 0 ELSE deblkAt
  /\ TGoto(ReconThread, "row")
  /\ UNCHANGED <<cores, parseVars, decVars, reconSlice, reconMap, deblkMb, recon>>

\* Reconstructs a group and computes its boundary strengths.  The poll looks
\* one macroblock past the group, within the row.
ReconRow ==
  /\ tpc[ReconThread] = "row"
  /\ LET group == RowEnd(reconMb) - reconMb + 1
         ours  == LeadingMbs(reconMb, reconSlice) IN
       /\ reconMap[Smaller(reconMb + group, RowEnd(reconMb))]
       /\ recon' = [m \in Mb |-> IF m \in reconMb..reconMb+ours-1
                                 THEN recon[m] + 1 ELSE recon[m]]
       /\ reconMb' = reconMb + ours
       /\ bsMb' = bsMb + ours
       /\ TGoto(ReconThread, IF ours = group THEN "deblockrow" ELSE "deblock")
  /\ UNCHANGED <<cores, parseVars, decVars, reconSlice, reconMap, deblkMb, deblkAt>>

\* Mutants of Deblockable: the last macroblock is never, or always, left out.
DeblockableAll == IF bsMb > deblkMb THEN bsMb - deblkMb ELSE 0
DeblockableHeld == IF bsMb > deblkMb THEN bsMb - 1 - deblkMb ELSE 0

\* Deblocks what the group completes: all of it at the end of a row, all but its
\* last macroblock before that, whose right neighbour is still to come.
Deblockable ==
  LET done == IF tpc[ReconThread] = "deblockrow" THEN bsMb ELSE bsMb - 1
  IN  IF bsMb > deblkMb THEN done - deblkMb ELSE 0

DeblockGroup ==
  /\ tpc[ReconThread] \in {"deblock", "deblockrow"}
  /\ deblkMb' = deblkMb + Deblockable
  /\ deblkAt' = deblkAt + Deblockable
  /\ IF tpc[ReconThread] = "deblockrow" /\ bsMb <= NumMbs - 1
     THEN TGoto(ReconThread, "row") /\ UNCHANGED reconSlice
     ELSE IF reconMb > NumMbs - 1
          THEN TGoto(ReconThread, "last") /\ UNCHANGED reconSlice
          ELSE TGoto(ReconThread, "slice") /\ reconSlice' = reconSlice + 1
  /\ UNCHANGED <<cores, parseVars, decVars, reconMb, bsMb, reconMap, recon>>

ReconStep == ReconSlice \/ ReconRow \/ DeblockGroup

-----------------------------------------------------------------------------
(* What the parser does to the picture. *)

RowsInit ==
  /\ coded = 0 /\ cur = 0
  /\ sliceStart = [s \in Slice |-> 0]
  /\ sliceMap = [m \in Mb |-> 0]
  /\ decMap = [m \in Mb |-> FALSE] /\ reconMap = [m \in Mb |-> FALSE]
  /\ decMb = 0 /\ decSlice = 0 /\ todo = 0
  /\ reconMb = 0 /\ reconSlice = 0 /\ bsMb = 0
  /\ deblkMb = 0 /\ deblkAt = 0
  /\ recon = [m \in Mb |-> 0]
  /\ entry = [s \in Slice |-> "old"]
  /\ tpc = [t \in Threads |-> "none"]

\* ih264d_video_decode, before the first NAL unit
RowsReset ==
  /\ coded' = 0 /\ cur' = 0
  /\ decMb' = 0 /\ reconMb' = 0 /\ bsMb' = 0
  /\ UNCHANGED <<sliceStart, sliceMap, decMap, entry, decSlice, todo, reconSlice,
                 sampleVars>>

\* ih264d_start_of_pic
StartOfPic ==
  /\ sliceMap' = [m \in Mb |-> 0]
  /\ decMap' = [m \in Mb |-> FALSE]
  /\ reconMap' = [m \in Mb |-> FALSE]
  /\ cur' = 0 /\ decSlice' = 0 /\ reconSlice' = 0
  /\ deblkMb' = 0
  /\ recon' = [m \in Mb |-> 0]
  /\ entry' = [s \in Slice |-> "old"]
  /\ UNCHANGED <<coded, sliceStart, decMb, todo, reconMb, bsMb, deblkAt>>

\* A slice gets a number of its own unless the last number has no macroblock yet.
NextNum == IF sliceStart[cur] < coded THEN cur + 1 ELSE cur

EnterSlice(num, how) ==
  /\ cur' = num
  /\ sliceStart' = [sliceStart EXCEPT ![num] = coded]
  /\ entry' = [entry EXCEPT ![num] = how]

\* ih264d_parse_tfr_nmb, for one macroblock: first its slice, ...
NumberMb == sliceMap' = [sliceMap EXCEPT ![coded] = cur]

\* ... then the map that lets the decode thread have it.
MarkMb ==
  /\ decMap' = [decMap EXCEPT ![coded] = TRUE]
  /\ coded' = coded + 1

-----------------------------------------------------------------------------
RowsTypeOK ==
  /\ cores \in {2, 3}
  /\ coded \in 0..NumMbs /\ cur \in Slice
  /\ sliceStart \in [Slice -> Mb]
  /\ sliceMap \in [Mb -> Slice]
  /\ decMap \in [Mb -> BOOLEAN] /\ reconMap \in [Mb -> BOOLEAN]
  /\ decMb \in 0..NumMbs /\ decSlice \in Slice /\ todo \in 0..Wd
  /\ reconMb \in 0..NumMbs /\ reconSlice \in Slice /\ bsMb \in 0..NumMbs
  /\ deblkMb \in 0..NumMbs /\ deblkAt \in 0..NumMbs
  /\ recon \in [Mb -> Nat]
  /\ entry \in [Slice -> {"old", "header", "lost"}]

\* No macroblock is deblocked before it and the macroblock to its right are
\* reconstructed: intra prediction to the right uses samples that are not
\* deblocked (ih264d_check_mb_map_deblk, and the last macroblock of a group that
\* ih264d_recon_deblk_slice holds back).
DeblockLags ==
  \A m \in Mb : m < deblkMb => recon[m] > 0 /\ recon[Smaller(m + 1, RowEnd(m))] > 0

\* A thread takes its place in the picture only from a table entry that was
\* written for this picture, and deblocks the macroblock its context points at:
\* entries of the last picture are never used.
SlicesParsed ==
  /\ tpc[DecThread] \in {"row", "mbs"} => entry[decSlice] # "old"
  /\ tpc[ReconThread] \in {"row", "deblock", "deblockrow"} =>
       entry[reconSlice] # "old" /\ deblkAt = deblkMb
=============================================================================
