---------------------------- MODULE DecPictures ----------------------------
(***************************************************************************)
(* The pictures of the decoder: which buffers hold them, which of them are  *)
(* references, and when each is shown (decoder/ih264d_api.c,                *)
(* ih264d_parse_slice.c, ih264d_utils.c, ih264d_dpb_mgr.c).  A call of      *)
(* ih264d_video_decode is StartPicture, which takes buffers and fetches a   *)
(* picture to show, and EndPicture, which orders the display and marks the  *)
(* references; or Refuse, when no buffer is free; or, after a flush,        *)
(* FlushCall.  The pictures are complete frames of the stream of            *)
(* CodedStream; some may be lost before they reach the decoder.             *)
(* Display buffers are the decoder's own, or shared with the application,   *)
(* which then returns each one it was given (AppRelease).                   *)
(***************************************************************************)
EXTENDS Integers, FiniteSets, Sequences

CONSTANTS
  Configs,          \* the configurations
  MaxFrameNum,      \* frame numbers are below it
  MaxIdx,           \* the largest long-term index a stream uses
  NumNodes,         \* MAX_REF_BUFS
  Slots,            \* MAX_FRAMES: the places of the display list
  MaxPics,          \* 2 * H264_MAX_REF_PICS: the decoder has no more picture buffers
  MinShared,        \* the least number of shared buffers, 6 in the code: a bound
  PocSpan,          \* more than the order counts of a period (see CodedStream)
  NoBuf,            \* no buffer
  None              \* no picture

ASSUME DecPicturesAssumption ==
  /\ MaxIdx \in Nat
  /\ {MaxFrameNum, NumNodes, Slots, MaxPics, MinShared, PocSpan} \subseteq Nat \ {0}
  /\ NoBuf \notin Nat

VARIABLES
  conf,      \* the configuration, and the buffers it leads to
  stream,    \* what the stream has sent
  left,      \* the pictures it may still send
  lost,      \* whether one of them did not reach the lists
  pic,       \* the picture buffers' manager
  mv,        \* the motion vector buffers' manager
  mvOf,      \* as_buf_id_info_map: the motion vectors of a picture buffer
  frameNum,  \* i4_frame_num of a picture buffer
  lists,     \* the reference lists
  failed,    \* u1_mmco_error_in_seq
  reset,     \* u1_mmco_equalto5
  waiting,   \* ai4_poc_buf_id_map: [buf, poc] of the pictures to be ordered
  queue,     \* the display manager: buffers in the order they are shown
  base,      \* i4_prev_max_display_seq
  maxPoc,    \* i4_max_poc
  cur,       \* the picture being decoded, with its buffer, or None
  out,       \* the buffer the current call shows
  flush,     \* u1_flushfrm
  flushes,   \* the flushes the application may still ask for
  mapped,    \* u4_disp_buf_mapping: the shared buffers the application has
  holds,     \* (ghost) the picture whose samples are in a buffer
  due,       \* (ghost) the pictures decoded and not shown yet
  shown      \* (ghost) the last picture shown

config == <<conf, flushes>>
refs == <<lists, failed, reset>>
bufs == <<pic, mv, mvOf, frameNum>>
order == <<waiting, queue, base, maxPoc>>
ghosts == <<holds, due, shown>>
vars == <<conf, stream, left, lost, pic, mv, mvOf, frameNum, lists, failed, reset, waiting,
          queue, base, maxPoc, cur, out, flush, flushes, mapped, holds, due, shown>>

S == INSTANCE CodedStream
D == INSTANCE DpbLists
P == INSTANCE BufMgr WITH Bufs <- conf.pics
M == INSTANCE BufMgr WITH Bufs <- conf.mvs

ASSUME ConfigsAssumption ==
  /\ \A c \in Configs :
       /\ {c.dpbSize, c.reorder, c.cmds, c.trail, c.length, c.flushes} \subseteq Nat
       /\ {c.vui, c.frameOut, c.shared, c.lossy, c.quiet, c.idrNext} \subseteq BOOLEAN
       /\ c.numRef \in 1 .. NumNodes - 1     \* at most 16 of 32
  /\ MaxIdx < D!NoLong
  /\ None \notin [p : S!AnyPicture, buf : Nat]

NoKey == -1

Least(a, b) == IF a < b THEN a ELSE b
Most(a, b) == IF a > b THEN a ELSE b

\* ih264d_init_pic, ih264d_get_dpb_size and ih264d_create_mv_bank: the delay of
\* the display and the number of buffers.  An application that shares its
\* buffers gives as many as ih264d_get_buf_info asks for.
Delay(c) == IF c.frameOut THEN 0 ELSE IF c.vui THEN c.reorder + 1 ELSE c.dpbSize
NumPicsNoSpare(c) == Delay(c) + c.numRef        \* mutant of NumPics
NumPics(c) == IF c.shared
              THEN Most((IF c.vui THEN c.reorder + 1 ELSE c.dpbSize) + c.numRef + 1, MinShared)
              ELSE Least(Most(Delay(c) + c.numRef + 1, 2), MaxPics)
NumMvs(c) == Most(Least(c.numRef + 1, NumPics(c)), 2)
Setup(c) == [c |-> c, delay |-> Delay(c), pics |-> 0 .. NumPics(c) - 1,
             mvs |-> 0 .. NumMvs(c) - 1, maxDec |-> Least(c.dpbSize, NumPics(c))]

\* An application that shares its buffers has returned one of them before the
\* first picture.
Init ==
  /\ conf \in {Setup(c) : c \in Configs}
  /\ stream = S!Opening /\ left = conf.c.length /\ lost = FALSE
  /\ mapped = IF conf.c.shared THEN conf.pics \ {0} ELSE {}
  /\ pic = [b \in conf.pics |-> IF b \in mapped THEN {"IO"} ELSE {}]
  /\ mv = M!AllFree
  /\ mvOf = [b \in conf.pics |-> 0] /\ frameNum = [b \in conf.pics |-> 0]
  /\ lists = D!Empty /\ failed = FALSE /\ reset = FALSE
  /\ waiting = {} /\ queue = <<>> /\ base = 0 /\ maxPoc = 0
  /\ cur = None /\ out = NoBuf
  /\ flush = FALSE /\ flushes = conf.c.flushes
  /\ holds = [b \in conf.pics |-> NoKey] /\ due = {} /\ shown = NoKey

-----------------------------------------------------------------------------
\* ih264d_free_ref_pic_mv_bufs for a set of picture buffers.
Unref(m, B) == [b \in conf.pics |-> IF b \in B THEN P!Release(m, b, "REF")[b] ELSE m[b]]
UnrefMv(m, B) ==
  [v \in conf.mvs |-> IF \E b \in B : mvOf[b] = v THEN M!Release(m, v, "REF")[v] ELSE m[v]]

\* ih264_disp_mgr_add refuses a buffer that is queued.
Enqueue(q, b) == IF \E i \in DOMAIN q : q[i] = b THEN q ELSE Append(q, b)
Front(q) == IF q = <<>> THEN NoBuf ELSE Head(q)
Rest(q) == IF q = <<>> THEN <<>> ELSE Tail(q)

First(w) == CHOOSE e \in w : \A f \in w : e.poc <= f.poc

QueueAllNone(w, q) == q                 \* mutant of QueueAll

\* ih264d_release_display_bufs: everything that waits is queued, in order.
QueueAll(w, q) ==
  LET after[i \in 0 .. Cardinality(w)] ==
        IF i = 0 THEN [w |-> w, q |-> q]
        ELSE LET e == First(after[i - 1].w) IN
             [w |-> after[i - 1].w \ {e}, q |-> Enqueue(after[i - 1].q, e.buf)]
  IN after[Cardinality(w)].q

\* ih264d_assign_display_seq: once enough wait, the first of them is queued.
DueEarly(w) == w # {} /\ Cardinality(w) + 1 >= conf.delay      \* mutant of Due
Due(w) == w # {} /\ Cardinality(w) >= conf.delay
QueueFirst(w, q) == IF Due(w) THEN Enqueue(q, First(w).buf) ELSE q
WithoutFirst(w) == IF Due(w) THEN w \ {First(w)} ELSE w

\* What the application sees: b is shown.
Show(b) ==
  IF b = NoBuf THEN UNCHANGED <<due, shown>>
  ELSE due' = due \ {holds[b]} /\ shown' = holds[b]

-----------------------------------------------------------------------------
\* The check at the head of ih264d_video_decode, with shared buffers: a free
\* buffer that the application has is marked, up to the first that it has not.
Marked ==
  [b \in conf.pics |->
     IF /\ pic[b] = {} /\ b \in mapped
        /\ \A a \in 0 .. b - 1 : pic[a] = {} => a \in mapped
     THEN {"busy", "IO"} ELSE pic[b]]
Available == conf.c.shared => \E b \in conf.pics \ mapped : pic[b] = {}

\* No free buffer: the call fails, to be repeated when one is returned.
CallFails ==
  /\ cur = None /\ ~flush /\ left > 0 /\ ~Available /\ mapped # {}
  /\ pic' = Marked
  /\ UNCHANGED <<config, stream, left, lost, mv, mvOf, frameNum, refs, order, cur, out,
                 flush, mapped, ghosts>>

\* No free buffer, and none with the application: the check never ends.
Hangs == ~Available /\ mapped = {}

\* ih264d_parse_decode_slice: where the display numbers of a period begin.
NewMax(p) == Most(maxPoc, p.poc)
Base(p) == IF p.poc = 0 THEN base + NewMax(p) + conf.maxDec + 1 ELSE base

\* The picture buffers when one is asked for: for an IDR picture that finds
\* none, all are released from display and from reference.
FreePic == P!HasFree(pic)
PicsFor(p) ==
  IF FreePic \/ ~p.idr THEN IF conf.c.shared THEN Marked ELSE pic
  ELSE LET m == Unref(pic, conf.pics) IN
       [b \in conf.pics |-> P!Release(m, b, "IO")[b]]
MvsFor(p) == IF FreePic \/ ~p.idr THEN mv ELSE UnrefMv(mv, conf.pics)
HasPic(p) == P!HasFree(PicsFor(p))
HasMv(p) == M!HasFree(MvsFor(p))

Parsed(p) ==
  /\ Available
  /\ stream' = S!Advance(stream, p, conf.c)
  /\ left' = left - 1
  /\ base' = Base(p)
  /\ maxPoc' = IF p.poc = 0 THEN 0 ELSE NewMax(p)

\* ih264d_start_of_pic finds no buffer.  A picture buffer that was taken when
\* the motion vectors run out stays taken.
Refuse(p) ==
  /\ Parsed(p)
  /\ ~HasPic(p) \/ ~HasMv(p)
  /\ pic' = IF HasPic(p) THEN P!Take(PicsFor(p)) ELSE PicsFor(p)
  /\ mv' = MvsFor(p)
  /\ lost' = TRUE
  /\ UNCHANGED <<config, mvOf, frameNum, refs, waiting, queue, cur, out, flush, mapped, ghosts>>

\* ih264d_start_of_pic, and the picture fetched for display.
StartPicture(p) ==
  /\ Parsed(p)
  /\ HasPic(p) /\ HasMv(p)
  /\ LET b == P!NextFree(PicsFor(p))
         v == M!NextFree(MvsFor(p))
     IN /\ pic' = P!Take(PicsFor(p))
        /\ mv' = M!Take(MvsFor(p))
        /\ mvOf' = [mvOf EXCEPT ![b] = v]
        /\ frameNum' = [frameNum EXCEPT ![b] = p.fn]
        /\ lists' = D!AssignPicNum(lists, p.fn, frameNum', MaxFrameNum)
        /\ cur' = [p |-> p, buf |-> b]
        /\ holds' = [holds EXCEPT ![b] = p.key]
  /\ out' = Front(queue)
  /\ queue' = Rest(queue)
  /\ UNCHANGED <<config, lost, failed, reset, waiting, flush, mapped, due, shown>>

\* A picture of the stream does not reach the decoder.
Lose(p) ==
  /\ conf.c.lossy
  /\ stream' = S!Advance(stream, p, conf.c)
  /\ left' = left - 1
  /\ lost' = TRUE
  /\ UNCHANGED <<config, bufs, refs, order, cur, out, flush, mapped, ghosts>>

-----------------------------------------------------------------------------
\* Command 5 of the picture: a picture that is not a reference has no commands
\* and leaves the flag of the one before it.
Resets(p) == IF p.ref THEN S!Resets(p.cmds) ELSE reset
Restarts(p) == p.idr \/ Resets(p)

\* ih264d_end_of_pic_dispbuf_mgr: the pictures that were waiting.
OldWaiting(p) == IF Restarts(p) THEN {} ELSE waiting
OldQueue(p) == IF Restarts(p) THEN QueueAll(waiting, queue) ELSE queue
EndBase(p) == IF Restarts(p) THEN base + maxPoc + conf.maxDec + 1 ELSE base
Entry(p) == [buf |-> cur.buf, poc |-> EndBase(p) + IF Restarts(p) THEN 0 ELSE p.poc]

\* The display list and queue at the end of a picture: ordered before the
\* picture is inserted or, to show each at once, after.
AfterFirst(p) == IF conf.c.frameOut THEN OldWaiting(p) ELSE WithoutFirst(OldWaiting(p))
Inserted(p) == IF Cardinality(AfterFirst(p)) = Slots THEN AfterFirst(p)
               ELSE AfterFirst(p) \cup {Entry(p)}
EndWaiting(p) == IF conf.c.frameOut THEN WithoutFirst(Inserted(p)) ELSE Inserted(p)
EndQueue(p) == IF conf.c.frameOut THEN QueueFirst(Inserted(p), OldQueue(p))
               ELSE QueueFirst(OldWaiting(p), OldQueue(p))

\* The picture the call shows.
EndOut(p) == IF conf.c.frameOut THEN Front(EndQueue(p)) ELSE out

\* u1_mmco_error_in_seq when the picture is marked: emptying the lists clears it.
Erring(p) == failed /\ ~Restarts(p)

\* ih264d_end_of_pic_processing: the marking, unless an error stopped it.
Cleared(p) == IF Restarts(p) THEN D!ResetRefs(lists) ELSE D!Done(lists, {})
Marking(p, l) ==
  IF p.idr THEN D!MarkIdr(l, cur.buf, p.isLong)
  ELSE IF p.ref /\ ~Erring(p)
       THEN D!DoMmcoBuffer(l, p.adaptive, p.cmds, p.fn, cur.buf, conf.c.numRef)
       ELSE D!Done(l, {})

\* mutant of EndPic
EndPicNotShown(p, first, then) ==
  LET m == Unref(pic, first) IN
  Unref(IF p.ref THEN P!SetStatus(m, cur.buf, "REF")
        ELSE P!Release(m, cur.buf, "IO"), then)

\* The buffers: marked for reference and display, released by what they show
\* and by what the marking drops, first and then.
EndPic(p, first, then) ==
  LET b == cur.buf
      m1 == Unref(pic, first)
      m2 == IF p.ref THEN P!SetStatus(m1, b, "REF") ELSE m1
      m3 == P!SetStatus(m2, b, "IO")
      m4 == IF EndOut(p) = NoBuf \/ conf.c.shared THEN m3
            ELSE P!Release(m3, EndOut(p), "IO")
  IN Unref(m4, then)
EndMvKeeps(p, first, then) ==           \* mutant of EndMv
  LET m == IF p.ref THEN M!SetStatus(mv, mvOf[cur.buf], "REF") ELSE mv IN
  UnrefMv(UnrefMv(m, first), then)

EndMv(p, first, then) ==
  LET v == mvOf[cur.buf]
      m1 == UnrefMv(mv, first)
      m2 == IF p.ref THEN M!SetStatus(m1, v, "REF") ELSE M!Release(m1, v, "REF")
  IN UnrefMv(m2, then)

\* The rest of the call.
EndPicture ==
  /\ cur # None
  /\ LET p == cur.p
         cleared == Cleared(p)
         marked == Marking(p, cleared.l)
     IN
     /\ waiting' = EndWaiting(p)
     /\ queue' = IF conf.c.frameOut THEN Rest(EndQueue(p)) ELSE EndQueue(p)
     /\ base' = EndBase(p)
     /\ maxPoc' = IF Restarts(p) THEN 0 ELSE maxPoc
     /\ pic' = EndPic(p, cleared.rel, marked.rel)
     /\ mv' = EndMv(p, cleared.rel, marked.rel)
     /\ lists' = marked.l
     /\ failed' = IF p.idr THEN FALSE
                  ELSE Erring(p) \/ (p.ref /\ ~marked.ok)
     /\ reset' = Resets(p)
     /\ frameNum' = [frameNum EXCEPT ![cur.buf] =
                       IF p.ref THEN S!MarkedNum(p.cmds, p.fn) ELSE @]
     /\ mapped' = IF conf.c.shared THEN mapped \cup ({EndOut(p)} \ {NoBuf}) ELSE mapped
     /\ LET b == EndOut(p)
            all == due \cup {p.key}
        IN IF b = NoBuf THEN due' = all /\ UNCHANGED shown
           ELSE due' = all \ {holds[b]} /\ shown' = holds[b]
  /\ cur' = None /\ out' = NoBuf
  /\ UNCHANGED <<config, stream, left, lost, mvOf, flush, holds>>

-----------------------------------------------------------------------------
\* ih264d_set_flush_mode: references and display are released, the lists stay.
\* The last flush is kept for the end of the stream.
FlushStart ==
  /\ cur = None /\ stream # S!Opening
  /\ flushes > (IF left = 0 THEN 0 ELSE 1)
  /\ flush' = TRUE /\ flushes' = flushes - 1
  /\ pic' = Unref(pic, conf.pics)
  /\ mv' = UnrefMv(mv, conf.pics)
  /\ waiting' = {} /\ queue' = QueueAll(waiting, queue)
  /\ base' = base + maxPoc + conf.maxDec + 1 /\ maxPoc' = 0
  /\ stream' = IF conf.c.idrNext THEN [stream EXCEPT !.fresh = TRUE] ELSE stream
  /\ UNCHANGED <<conf, left, lost, mvOf, frameNum, refs, cur, out, mapped, ghosts>>

\* ih264d_video_decode during a flush: one picture is shown, or the flush ends
\* and, with shared buffers, the application has them all.
FlushCall ==
  /\ cur = None /\ flush
  /\ LET b == Front(queue)
         end == b = NoBuf
     IN /\ queue' = Rest(queue)
        /\ flush' = ~end
        /\ Show(b)
        /\ pic' = IF end THEN [x \in conf.pics |-> IF x \in mapped
                                                   THEN P!Release(pic, x, "IO")[x] ELSE pic[x]]
                  ELSE IF conf.c.shared THEN pic ELSE P!Release(pic, b, "IO")
        /\ mapped' = IF ~conf.c.shared THEN mapped
                     ELSE IF end THEN conf.pics ELSE mapped \cup {b}
  /\ UNCHANGED <<config, stream, left, lost, mv, mvOf, frameNum, refs, waiting, base, maxPoc,
                 cur, out, holds>>

\* ih264d_rel_display_frame, between calls of the decoder.
AppRelease(b) ==
  /\ cur = None /\ b \in mapped
  /\ pic' = P!Release(pic, b, "IO")
  /\ mapped' = mapped \ {b}
  /\ UNCHANGED <<config, stream, left, lost, mv, mvOf, frameNum, refs, order, cur, out, flush,
                 ghosts>>

\* The pictures the stream may send next, between calls and before its end.
Coming == IF cur # None \/ flush \/ left = 0 THEN {} ELSE S!Pictures(stream, conf.c)

Next ==
  \/ \E p \in Coming : StartPicture(p) \/ Refuse(p) \/ Lose(p)
  \/ EndPicture \/ CallFails \/ FlushStart \/ FlushCall
  \/ \E b \in conf.pics : AppRelease(b)

Spec == Init /\ [][Next]_vars

\* The application goes on calling: it returns what it was given, decodes the
\* stream to its end and then flushes; and a call that has begun returns.
\* Each step is named by what tells it from the others.
NextCall == cur = None /\ ~flush /\ left > 0 /\ Available /\ left' = left - 1
Return == cur # None /\ cur' = None
LastFlush == cur = None /\ left = 0 /\ ~flush /\ flushes > 0 /\ flush' = TRUE

FairSpec ==
  /\ Spec
  /\ WF_left(NextCall) /\ WF_cur(Return) /\ WF_flush(LastFlush) /\ WF_vars(FlushCall)
  /\ WF_vars(\E b \in conf.pics : AppRelease(b))

-----------------------------------------------------------------------------
\* A configuration whose streams stay within what ih264d_init_pic sizes the
\* buffers and the delay of the display for: neither pictures out of order nor
\* those that trail the last reference are more than the delay, and order
\* counts stay below those of the next period.
Step(c) == c.reorder + 1
Fits(c) ==
  /\ c.quiet /\ c.idrNext
  /\ IF c.frameOut THEN c.reorder = 0
     ELSE c.reorder < Delay(c) /\ c.trail <= Delay(c) /\ Delay(c) <= Slots
  /\ Delay(c) + c.numRef + 1 <= MaxPics
  /\ c.length * Step(c) < PocSpan

Keys == -1 .. (conf.c.length + 2) * PocSpan

TypeOK ==
  /\ conf \in {Setup(c) : c \in Configs}
  /\ left \in 0 .. conf.c.length /\ flushes \in 0 .. conf.c.flushes
  /\ {lost, failed, reset, flush} \subseteq BOOLEAN
  /\ pic \in P!Managers /\ mv \in M!Managers
  /\ mvOf \in [conf.pics -> conf.mvs] /\ frameNum \in [conf.pics -> 0 .. MaxFrameNum - 1]
  /\ lists.st \in 0 .. NumNodes /\ lists.lt \in 0 .. NumNodes
  /\ lists.max \in 0 .. MaxIdx \cup {D!NoLong}
  /\ lists.nst \in 0 .. NumNodes /\ lists.nlt \in 0 .. NumNodes
  /\ {e.buf : e \in waiting} \subseteq conf.pics /\ Cardinality(waiting) <= Slots
  /\ queue \in Seq(conf.pics)
  /\ base \in Nat /\ maxPoc \in Nat
  /\ cur = None \/ cur.buf \in conf.pics
  /\ out \in conf.pics \cup {NoBuf} /\ mapped \subseteq conf.pics
  /\ holds \in [conf.pics -> Keys] /\ due \subseteq Keys /\ shown \in Keys

Shorts == {D!ShortAt(lists, k) : k \in 1 .. lists.nst}
Longs == {D!LongAt(lists, k) : k \in 1 .. lists.nlt}
Listed == {lists.node[n].buf : n \in (Shorts \cup Longs) \ {D!Nil}}
Waiting == {e.buf : e \in waiting}
Queued == {queue[i] : i \in DOMAIN queue}

\* The lists are lists: as many nodes as are counted, each in use and with a
\* picture, and no other node in use; also after pictures were lost and
\* marking commands failed (decoder/ih264d_dpb_mgr.c follows the links by the
\* counts).
Walkable ==
  /\ Cardinality(Shorts) = lists.nst /\ Cardinality(Longs) = lists.nlt
  /\ D!Nil \notin Shorts \cup Longs
  /\ {n \in D!Nodes : lists.node[n].use = "short"} = Shorts
  /\ {n \in D!Nodes : lists.node[n].use = "long"} = Longs
  /\ NoBuf \notin Listed

\* The lists can be walked, the last short-term node ends its list, and after
\* every picture they say what the stream says: the same short-term pictures
\* with their numbers, the latest first, the same long-term pictures by their
\* indices, and no index is refused that the stream allows
\* (ih264d_do_mmco_buffer against section 8.2.5).
InStep ==
  /\ Walkable
  /\ lists.nst > 0 /\ ~lost => lists.node[D!ShortAt(lists, lists.nst)].ps = D!Nil
  /\ cur = None /\ ~lost =>
    LET Node(n) == lists.node[n]
        Pic(n) == [pic |-> holds[Node(n).buf], fn |-> frameNum[Node(n).buf]]
        Recency(k) == S!Wrap(Pic(D!ShortAt(lists, k)).fn, stream.prev)
    IN /\ {Pic(n) : n \in Shorts} = stream.mk.short
       /\ \A i, j \in 1 .. lists.nst : i < j => Recency(i) > Recency(j)
       /\ {Node(n).lt : n \in Longs} = DOMAIN stream.mk.long
       /\ \A n \in Longs : holds[Node(n).buf] = stream.mk.long[Node(n).lt]
       /\ \A i, j \in 1 .. lists.nlt :
            i < j => Node(D!LongAt(lists, i)).lt < Node(D!LongAt(lists, j)).lt
       /\ stream.mk.max >= 0 => lists.max = stream.mk.max

\* Between calls a buffer is taken for a reason: REF when a list has it, IO
\* when it is to be shown or with the application, and motion vectors for
\* every reference and no other picture.
HeldForReason ==
  cur = None /\ ~lost =>
    LET refd == IF stream.fresh THEN {} ELSE Listed
        io == Waiting \cup Queued \cup mapped
    IN /\ \A b \in conf.pics :
            /\ "REF" \in pic[b] <=> b \in refd
            /\ b \in Waiting \cup Queued => "IO" \in pic[b]
            /\ "IO" \in pic[b] => b \in io
            /\ pic[b] # {"busy"}
       /\ Waiting \cap Queued = {} /\ mapped \cap (Waiting \cup Queued) = {}
       /\ \A v \in conf.mvs : mv[v] # {} <=> \E b \in refd : mvOf[b] = v
       /\ \A a, b \in refd : mvOf[a] = mvOf[b] => a = b

\* The buffers suffice: no picture of a complete stream is refused, the check
\* for a free buffer ends, and no more pictures wait than the delay, so that
\* each finds a place in the display list (ih264d_init_pic sizes the pools,
\* ih264d_insert_pic_in_display_list fails when the list is full).
BuffersSuffice ==
  /\ lost => conf.c.lossy
  /\ cur = None /\ ~flush => ~Hangs
  /\ Cardinality(waiting) <= conf.delay

\* Pictures are shown in the order of their order counts, across IDR pictures,
\* resets and flushes (ih264d_assign_display_seq, ih264d_release_display_bufs).
DisplayOrder ==
  ~lost => LET s == <<shown>> \o (IF out = NoBuf THEN <<>> ELSE <<holds[out]>>)
                     \o [i \in DOMAIN queue |-> holds[queue[i]]]
           IN \A i, j \in DOMAIN s : i < j => s[i] < s[j]

\* Every picture decoded and not shown yet is waiting, queued or being shown,
\* its samples untouched; and no picture is decoded into a buffer that is a
\* reference of it or is with the application (ih264d_start_of_pic).
SamplesKept ==
  ~lost =>
    /\ due = {holds[b] : b \in Waiting \cup Queued \cup ({out} \ {NoBuf})}
    /\ cur # None => cur.buf \notin mapped \cup (IF cur.p.idr THEN {} ELSE Listed)

\* Every picture is shown in the end.
EventuallyShown == due # {} ~> due = {} \/ lost
=============================================================================
