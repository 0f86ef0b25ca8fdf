---------------------------- MODULE EncSequence -----------------------------
(***************************************************************************)
(* The encoder over a sequence of pictures (ih264e_encode and what it      *)
(* calls): the application hands over pictures in display order; the        *)
(* encoder queues them, picks the next one in coding order from the picture *)
(* stack (PicStack), codes it with the reference pictures of its list       *)
(* (RefPics), and gives back reconstructed pictures in display order.       *)
(*                                                                         *)
(* One call of ih264e_encode is one action: the call returns only when its  *)
(* threads have left the frame (EncPool, EncSpawn), and the application may *)
(* not make a second call meanwhile.                                       *)
(***************************************************************************)
EXTENDS Integers, Sequences, FiniteSetsExt, SequencesExt

CONSTANTS
  Configs,          \* configurations of the encoder and of the application
  MaxInp,           \* MAX_NUM_INP_FRAMES
  MaxFlush          \* bound: calls after the end of the stream

ASSUME EncSequenceAssumption ==
  /\ MaxInp \in Nat /\ MaxFlush \in Nat
  /\ \A c \in Configs :
       /\ c.numB \in Nat /\ c.numB + 2 <= MaxInp
       /\ c.maxRef \in Nat \ {0} /\ (c.numB > 0 => c.maxRef >= 2)
       /\ c.intra \in Nat \ {0}
       /\ c.idr \in Nat \ {0} /\ c.idr % c.intra = 0
       /\ c.altRef \in Nat /\ c.pics \in Nat
       /\ c.requests \subseteq {"I", "IDR"} /\ c.changes \subseteq Nat \ {0}
       /\ c.skips \subseteq {"feed", "flush"}
       /\ c.ends \subseteq {"picture", "after"}
       /\ {c.recon, c.nulls, c.overflows} \subseteq BOOLEAN

VARIABLES
  cfg,          \* s_cfg, and what the application does with the encoder
  ps,           \* ps_pic_handling
  inp,          \* as_inp_list, with each picture's time stamp
  picCnt,       \* i4_pic_cnt
  pendingIdr,   \* i4_pending_idr_flag
  forceType,    \* force_curr_frame_type
  intra,        \* u4_i_frm_interval, which can change
  lastSeen,     \* i4_last_inp_buff_received
  dpb,          \* as_ref_set and its two buffer managers
  out,          \* the last call's result
  fed,          \* the number of pictures handed over
  flushes,      \* the number of calls made after the end of the stream
  queued,       \* history: the pictures put in the queue
  idrAsked,     \* history: where an IDR picture is due and has not followed yet
  coded,        \* history: the pictures coded, in coding order
  shown         \* history: the pictures given back, by their poc

stackVars == <<ps, inp, picCnt, pendingIdr>>
appVars == <<fed, flushes, lastSeen>>
history == <<queued, idrAsked, coded, shown>>
vars == <<cfg, stackVars, forceType, intra, lastSeen, dpb, out, fed, flushes,
          history>>

\* The configuration: what ih264e_init and the set-up commands leave in s_cfg.
NumB == cfg.numB                \* u4_num_bframes
MaxRef == cfg.maxRef            \* u4_max_ref_cnt
IdrInterval == cfg.idr          \* u4_idr_frm_interval
Recon == cfg.recon              \* u4_enable_recon
AltRef == cfg.altRef            \* u4_enable_alt_ref
\* And the application: the number of pictures it hands over (a bound), the
\* picture types and intra intervals it may ask for, where the source is skipped
\* for its frame rate, whether it makes calls without a picture, where it sets
\* u4_is_last, and whether the bitstream buffer may overflow.
MaxPics == cfg.pics
Requests == cfg.requests
IntraChanges == cfg.changes
Skips == cfg.skips
NullInputs == cfg.nulls
EndMarks == cfg.ends
Overflows == cfg.overflows

P == INSTANCE PicStack
R == INSTANCE RefPics

NoPic == 0
\* Pictures are numbered from 1 in display order; their time stamps are too, but
\* from 0.
Pictures == 1..MaxPics
Input == [pic : Pictures \cup {NoPic}, last : BOOLEAN]
InpSlots == 0..MaxInp-1

NoResult == [last |-> FALSE, err |-> "none"]

Init ==
  /\ cfg \in Configs
  /\ ps = P!InitPicHandling(cfg.intra)
  /\ inp = [i \in InpSlots |-> [pic |-> NoPic, last |-> FALSE]]
  /\ picCnt = -1 /\ pendingIdr = FALSE /\ forceType = "NA"
  /\ intra = cfg.intra
  /\ lastSeen = FALSE
  /\ dpb = R!InitRefSet
  /\ out = NoResult
  /\ fed = 0 /\ flushes = 0
  /\ queued = {} /\ idrAsked = {} /\ coded = << >> /\ shown = << >>

\* The application goes on until a call says it was the last, or fails.
Going == ~out.last /\ out.err \in {"none", "overflow"}

-----------------------------------------------------------------------------
(* What the application may ask for before a call. *)

\* IVE_CMD_CTL_SET_FRAMETYPE
SetFrameType(type) ==
  /\ Going /\ forceType = "NA" /\ ~lastSeen
  /\ forceType' = type
  /\ UNCHANGED <<stackVars, intra, dpb, out, appVars, history>>

\* IVE_CMD_CTL_SET_GOP_PARAMS
SetIntraInterval(n) ==
  /\ Going /\ n # intra /\ ~lastSeen
  /\ intra' = n
  /\ ps' = P!RegisterNewIntra(ps, n)
  /\ UNCHANGED <<inp, picCnt, pendingIdr, forceType, dpb, out, appVars, history>>

-----------------------------------------------------------------------------
(* A call of ih264e_encode with the input buffer "in". *)

\* What the application hands over: pictures, calls with no picture in between
\* if it makes any, and the end of the stream, on the last picture or after it.
Give(in) ==
  /\ Going
  /\ IF lastSeen THEN in = [pic |-> NoPic, last |-> TRUE]
     ELSE \/ in.pic = fed + 1 /\ (in.last => "picture" \in EndMarks)
          \/ in.pic = NoPic /\ IF in.last THEN "after" \in EndMarks ELSE NullInputs
  /\ lastSeen => flushes < MaxFlush
  /\ fed' = IF in.pic = NoPic THEN fed ELSE in.pic
  /\ flushes' = IF lastSeen THEN flushes + 1 ELSE flushes
  /\ lastSeen' = (lastSeen \/ in.last)

\* Recon in display order, and u4_is_last withheld while there is any left.
\* "enc" is the buffer that was encoded, d the reference list by then.
GiveBack(d, cnt, enc, err) ==
  LET due == Recon /\ (cnt > NumB \/ enc.last) /\ R!Marked(d, "IO") # {}
      rest == IF due THEN R!GiveRecon(d) ELSE d
      held == Recon /\ R!Marked(rest, "IO") # {}
  IN /\ dpb' = rest
     /\ shown' = IF due THEN Append(shown, d.set[R!Reconned(d)].poc) ELSE shown
     /\ out' = [last |-> enc.last /\ ~held, err |-> err]

\* No picture, and the stream has not ended: the call is not counted.
EncodeNoInput(in) ==
  /\ Give(in) /\ in.pic = NoPic /\ ~lastSeen'
  /\ GiveBack(dpb, picCnt, in, "none")
  /\ UNCHANGED <<stackVars, forceType, intra, queued, idrAsked, coded>>

\* The source is skipped: it is not queued, the call is not counted, and an
\* empty picture is given back, so that no recon is.
EncodeSkip(in) ==
  /\ Give(in) /\ (in.pic # NoPic \/ lastSeen')
  /\ (IF lastSeen' THEN "flush" ELSE "feed") \in Skips
  /\ out' = [last |-> in.last /\ ~(Recon /\ R!Marked(dpb, "IO") # {}),
             err |-> "none"]
  /\ UNCHANGED <<stackVars, forceType, intra, dpb, history>>

\* ih264e_input_queue_update, up to the delay: the picture, or an empty buffer
\* once the stream has ended, goes into the queue and on the stack.
Cnt == picCnt + 1
IdrDueByInterval == Cnt % IdrInterval = 0      \* mutant of IdrDue
IdrDue == forceType = "IDR" \/ Cnt % IdrInterval = 0
Forced == Cnt > 0 /\ (IdrDue \/ forceType = "I")
Stacked == P!AddPic(IF Forced THEN P!SetForceI(ps) ELSE ps, Cnt)
Queued(in) == [inp EXCEPT ![Cnt % MaxInp] = in]

\* History: the application or the interval wants an IDR picture here.
Asked ==
  IF forceType = "IDR" \/ Cnt % IdrInterval = 0 THEN idrAsked \cup {Cnt} ELSE idrAsked

Queue(in) ==
  /\ Give(in) /\ (in.pic # NoPic \/ lastSeen')
  /\ picCnt' = Cnt
  /\ forceType' = "NA"
  /\ queued' = IF in.pic = NoPic THEN queued ELSE queued \cup {in.pic}
  /\ UNCHANGED intra

EncodeDelay(in) ==
  /\ Queue(in) /\ Cnt < NumB
  /\ ps' = Stacked /\ inp' = Queued(in)
  /\ pendingIdr' = (pendingIdr \/ IdrDue)
  /\ idrAsked' = Asked
  /\ GiveBack(dpb, Cnt, [in EXCEPT !.last = FALSE], "none")
  /\ UNCHANGED coded

\* The picture at the head of the stack, its type, and the buffer it is in.
Picked == P!TopPic(Stacked)
PickedSlot == Picked.id % MaxInp
PickedType ==
  IF Picked.type = "I" /\ (pendingIdr \/ IdrDue) THEN "IDR" ELSE Picked.type

\* A P picture that is an empty buffer after the end would end the stream with
\* B pictures left: the last of these is coded in its place, and theirs is the
\* end of the stream.
LastBSlot(slots) ==
  LET S == {i \in InpSlots : slots[i].pic > 1}
  IN CHOOSE i \in S : \A j \in S : slots[j].pic <= slots[i].pic

Trailing(slots) ==
  /\ slots[PickedSlot].last /\ PickedType = "P" /\ NumB > 0
  /\ \E i \in InpSlots : slots[i].pic > 1

EncSlot(slots) == IF Trailing(slots) THEN LastBSlot(slots) ELSE PickedSlot

\* Mutant of Dequeue: the slot keeps its buffer.
DequeueKeeps(in) ==
  LET slots == Queued(in)
  IN /\ Queue(in) /\ Cnt >= NumB
     /\ inp' = [slots EXCEPT ![EncSlot(slots)] = slots[PickedSlot]]
     /\ pendingIdr' = ((pendingIdr \/ IdrDue) /\ Picked.type # "I")

Dequeue(in) ==
  LET slots == Queued(in)
      swapped == [slots EXCEPT ![EncSlot(slots)] = slots[PickedSlot]]
  IN /\ Queue(in) /\ Cnt >= NumB
     /\ inp' = [swapped EXCEPT ![PickedSlot].pic = NoPic]
     /\ pendingIdr' = ((pendingIdr \/ IdrDue) /\ Picked.type # "I")

EncBuf(in) == Queued(in)[EncSlot(Queued(in))]

\* The buffer at the head is empty: nothing is coded, and the head stays.
EncodeEmpty(in) ==
  /\ Dequeue(in) /\ EncBuf(in).pic = NoPic
  /\ ps' = P!GotPic(Stacked)
  /\ idrAsked' = Asked
  /\ GiveBack(dpb, Cnt, EncBuf(in), "none")
  /\ UNCHANGED coded

\* ih264e_pic_init: with alternate references some P pictures are none.
IsRef == PickedType # "B"
           /\ ~(AltRef > 0 /\ PickedType = "P" /\ Cnt % (AltRef + 1) # 0)

\* Mutant of RefPocs: the two references of a B picture are swapped.
RefPocsSwapped ==
  LET refs == R!Refs(dpb)
      poc(i) == dpb.set[refs[i]].poc
  IN CASE PickedType = "P" -> IF refs = << >> THEN << >> ELSE <<poc(1), poc(1)>>
       [] PickedType = "B" -> IF Len(refs) < 2 THEN << >> ELSE <<poc(1), poc(2)>>
       [] OTHER -> << >>

\* The reference pictures of a P picture are twice the same.
RefPocs ==
  LET refs == R!Refs(dpb)
      poc(i) == dpb.set[refs[i]].poc
  IN CASE PickedType = "P" -> IF refs = << >> THEN << >> ELSE <<poc(1), poc(1)>>
       [] PickedType = "B" -> IF Len(refs) < 2 THEN << >> ELSE <<poc(2), poc(1)>>
       [] OTHER -> << >>

NeedsRefs == PickedType \in {"P", "B"}

NewPic == R!NewPicture(dpb, PickedType, Cnt, Picked.id, IsRef, Recon)

CodedPic(in) ==
  [pic |-> EncBuf(in).pic, type |-> PickedType, poc |-> Picked.id, refs |-> RefPocs]

\* The frame is coded by the threads; an overflow of the bitstream buffer is an
\* error the call reports and goes on from, but the threads may all have left
\* before the last row.
EncodePicture(in) ==
  /\ Dequeue(in) /\ EncBuf(in).pic # NoPic
  /\ NewPic.err = "none" /\ (NeedsRefs => RefPocs # << >>)
  /\ ps' = P!PopPic(P!GotPic(Stacked))
  /\ coded' = Append(coded, CodedPic(in))
  /\ idrAsked' = IF PickedType = "IDR" THEN {n \in Asked : n > Picked.id} ELSE Asked
  /\ \/ GiveBack(R!LastRowDone(NewPic.refs, Cnt), Cnt, EncBuf(in), "none")
     \/ Overflows /\ GiveBack(NewPic.refs, Cnt, EncBuf(in), "overflow")

\* No buffer is free, or a reference picture is missing, where the program
\* dereferences a null pointer.
EncodeFails(in) ==
  /\ Dequeue(in) /\ EncBuf(in).pic # NoPic
  /\ LET err == IF NewPic.err = "none" /\ NeedsRefs /\ RefPocs = << >>
                THEN "NO_REF" ELSE NewPic.err
     IN err # "none" /\ out' = [last |-> FALSE, err |-> err]
  /\ ps' = P!GotPic(Stacked)
  /\ idrAsked' = Asked
  /\ dpb' = NewPic.refs
  /\ UNCHANGED <<coded, shown>>

Encode ==
  \E in \in Input :
    \/ EncodeNoInput(in) \/ EncodeSkip(in) \/ EncodeDelay(in)
    \/ EncodeEmpty(in) \/ EncodePicture(in) \/ EncodeFails(in)

Next ==
  /\ \/ \E type \in Requests : SetFrameType(type)
     \/ \E n \in IntraChanges : SetIntraInterval(n)
     \/ Encode
  /\ UNCHANGED cfg

Spec == Init /\ [][Next]_vars
-----------------------------------------------------------------------------
Errors == {"none", "overflow", "ASSERT", "NO_FREE_MVBANK", "NO_FREE_PICBUF",
           "NO_REF"}

CodedPics ==
  [pic : Pictures, type : {"IDR", "I", "P", "B"}, poc : Nat, refs : Seq(Nat)]

(* Every variable has its type; the picture stack's indices stay in its ring. *)
TypeOK ==
  /\ cfg \in Configs
  /\ ps \in P!PicHandling
  /\ inp \in [InpSlots -> Input]
  /\ picCnt \in Nat \cup {-1}
  /\ pendingIdr \in BOOLEAN
  /\ forceType \in {"NA", "I", "IDR"}
  /\ intra \in Nat
  /\ lastSeen \in BOOLEAN
  /\ dpb \in R!RefSets
  /\ out \in [last : BOOLEAN, err : Errors]
  /\ fed \in 0..MaxPics /\ flushes \in 0..MaxFlush
  /\ queued \subseteq Pictures
  /\ coded \in Seq(CodedPics)
  /\ shown \in Seq(Nat) /\ idrAsked \subseteq Nat

(* No picture is coded twice, and none that was not queued: the two rings, the
   picture stack and the input list, and the swap at the end of the stream
   never hand out a stale slot.  When the encoder says that it gave the last
   output, every picture that was queued has been coded. *)
CodedOnce ==
  /\ \A i, j \in DOMAIN coded : i # j => coded[i].pic # coded[j].pic
  /\ LET all == {coded[i].pic : i \in DOMAIN coded} IN
     all \subseteq queued /\ (out.last => all = queued)

(* "Once output starts we will have a constant stream of output with no gaps":
   until the end of the stream all but the last NumB queued pictures are coded,
   and after it NumB + 2 calls give everything back. *)
NoGaps ==
  /\ Going /\ ~lastSeen => Len(coded) = Max({0, Cardinality(queued) - NumB})
  /\ Going => flushes < NumB + 2

(* The order of the picture order counts in the stream is the order in which
   the application handed the pictures over, also when the last B picture is
   coded in the place of the P picture that never came.  Recon comes in that
   order, and it has all come when the encoder says that it gave the last
   output. *)
DisplayOrder ==
  /\ \A i, j \in DOMAIN coded :
       coded[i].poc < coded[j].poc => coded[i].pic < coded[j].pic
  /\ \A i \in 1..Len(shown)-1 : shown[i] < shown[i + 1]
  /\ out.last /\ Recon =>
       ToSet(shown) = {coded[i].poc : i \in DOMAIN coded}

\* The poc of the IDR picture that the picture coded i-th belongs to.
IdrPoc(i) == Max({coded[j].poc : j \in {k \in 1..i : coded[k].type = "IDR"}})

(* A P picture is predicted from an earlier picture, and a B picture from one
   picture before it and one after it in display order; neither from a picture
   before the last IDR picture, where a decoder has dropped it, nor from a B
   picture; and whenever one needs its references they are there. *)
RefsFit ==
  /\ out.err # "NO_REF"
  /\ \A i \in DOMAIN coded :
    LET c == coded[i] IN
    /\ i = 1 => c.type = "IDR"
    /\ c.type = "P" => c.refs[1] \in IdrPoc(i)..c.poc-1
    /\ c.type = "B" => /\ c.refs[1] \in IdrPoc(i)..c.poc-1
                       /\ c.refs[2] > c.poc
    /\ \A k \in DOMAIN c.refs : \E j \in 1..i-1 :
         coded[j].poc = c.refs[k] /\ coded[j].type # "B"

(* There is always an unused entry in the reference list, a free motion vector
   buffer and a free picture buffer for the next picture: the one extra buffer
   is enough, also with pictures held for recon, and a picture's motion vectors
   are kept exactly as long as the picture is kept for prediction. *)
BuffersSuffice ==
  /\ out.err \notin {"ASSERT", "NO_FREE_MVBANK", "NO_FREE_PICBUF"}
  /\ R!MvTracks(dpb)

(* Without B pictures, where an IDR picture is due, because the application asks
   for one or by the IDR interval, the next picture coded is one. *)
IdrHonoured ==
  NumB = 0 => \A n \in idrAsked, i \in DOMAIN coded : coded[i].poc < n
=============================================================================
