------------------------------ MODULE RefPics -------------------------------
(***************************************************************************)
(* The encoder's reference list, as_ref_set: the coded pictures that are    *)
(* still needed for prediction (REF) or have not been given back as recon   *)
(* (IO), each with a picture buffer and a motion vector buffer of their own  *)
(* managers.  encoder/ih264e_utils.c, ih264e_pic_init.                      *)
(***************************************************************************)
EXTENDS Integers, Sequences, FiniteSetsExt

CONSTANT MaxRef     \* u4_max_ref_cnt

\* i4_ref_buf_cnt: one entry for the picture being coded (MAX_CTXT_SETS).
Entries == 0..MaxRef

B == INSTANCE BufMgr WITH Bufs <- Entries

FarPoc == 32768     \* the poc of an entry that is not in use

Entry == [cnt : Int, poc : Nat, mv : Entries, pic : Entries]

\* as_ref_set, the motion vector buffers and the picture buffers.
RefSets == [set : [Entries -> Entry], mv : B!Managers, pic : B!Managers]

InitRefSet ==
  [set |-> [i \in Entries |-> [cnt |-> -1, poc |-> FarPoc, mv |-> 0, pic |-> 0]],
   mv |-> B!AllFree, pic |-> B!AllFree]

Live(d) == {i \in Entries : d.set[i].cnt # -1}

Marked(d, flag) == {i \in Live(d) : flag \in d.pic[d.set[i].pic]}

Newest(d, S) == CHOOSE i \in S : \A j \in S : d.set[j].cnt <= d.set[i].cnt

\* The two reference pictures with the greatest i4_pic_cnt, newest first.
Refs(d) ==
  LET R == Marked(d, "REF")
      last == Newest(d, R)
  IN IF R = {} THEN << >>
     ELSE IF R = {last} THEN <<last>>
     ELSE <<last, Newest(d, R \ {last})>>

\* Coding an I or P picture gives up the older of the two.
DiscardOlder(d, type) ==
  IF type = "B" \/ Len(Refs(d)) < 2 THEN d
  ELSE LET e == d.set[Refs(d)[2]]
       IN [d EXCEPT !.mv = B!Release(@, e.mv, "REF"),
                    !.pic = B!Release(@, e.pic, "REF")]

\* The entries whose picture nobody needs are marked unused.
Purge(d) ==
  [d EXCEPT !.set = [i \in Entries |->
     IF d.pic[d.set[i].pic] \cap {"REF", "CODEC", "IO"} # {} THEN d.set[i]
     ELSE [d.set[i] EXCEPT !.cnt = -1, !.poc = FarPoc]]]

UnusedEntry(d) == Max(Entries \ Live(d))

\* The list and the buffers for the next picture; "err" is why there is none.
\* The motion vector buffer is taken, and stays taken, before the picture
\* buffer is found missing.
NewPicture(d0, type, cnt, poc, isRef, recon) ==
  LET d == Purge(DiscardOlder(d0, type))
      mark(m, flag, on) == IF on THEN B!SetStatus(m, flag[1], flag[2]) ELSE m
      mvId == B!NextFree(d.mv)
      picId == B!NextFree(d.pic)
      mv == mark(B!Take(d.mv), <<mvId, "REF">>, isRef)
      pic == mark(mark(B!Take(d.pic), <<picId, "REF">>, isRef),
                  <<picId, "IO">>, recon)
  IN CASE Live(d) = Entries -> [err |-> "ASSERT", refs |-> d]
       [] Live(d) # Entries /\ ~B!HasFree(d.mv) ->
            [err |-> "NO_FREE_MVBANK", refs |-> d]
       [] Live(d) # Entries /\ B!HasFree(d.mv) /\ ~B!HasFree(d.pic) ->
            [err |-> "NO_FREE_PICBUF", refs |-> [d EXCEPT !.mv = mv]]
       [] OTHER ->
            [err |-> "none",
             refs |-> [set |-> [d.set EXCEPT ![UnusedEntry(d)] =
                         [cnt |-> cnt, poc |-> poc, mv |-> mvId, pic |-> picId]],
                       mv |-> mv, pic |-> pic]]

\* Mutant of LastRowDone: the motion vectors are not let go of.
LastRowDonePicOnly(d, cnt) ==
  LET e == d.set[CHOOSE i \in Entries : d.set[i].cnt = cnt]
  IN [d EXCEPT !.pic = B!Release(@, e.pic, "CODEC")]

\* The thread that codes the last row lets go of the picture.
LastRowDone(d, cnt) ==
  LET e == d.set[CHOOSE i \in Entries : d.set[i].cnt = cnt]
  IN [d EXCEPT !.mv = B!Release(@, e.mv, "CODEC"),
               !.pic = B!Release(@, e.pic, "CODEC")]

\* Mutant of Reconned: the earliest in coding order.
ReconnedByCount(d) ==
  LET S == Marked(d, "IO")
  IN CHOOSE i \in S : \A j \in S : d.set[i].cnt <= d.set[j].cnt

\* The earliest picture in display order whose recon has not been given back.
Reconned(d) ==
  LET R == Marked(d, "IO")
  IN CHOOSE i \in R : \A j \in R : d.set[i].poc <= d.set[j].poc

GiveRecon(d) == [d EXCEPT !.pic = B!Release(@, d.set[Reconned(d)].pic, "IO")]

\* The pictures kept for prediction have their motion vectors kept too, each in
\* a buffer of its own.
MvTracks(d) ==
  /\ \A i \in Marked(d, "REF") : "REF" \in d.mv[d.set[i].mv]
  /\ \A i, j \in Marked(d, "REF") : d.set[i].mv = d.set[j].mv => i = j
=============================================================================
