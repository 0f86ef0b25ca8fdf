---------------------------- MODULE CodedStream ----------------------------
(***************************************************************************)
(* The pictures of a conforming stream of frames, in decoding order, as the *)
(* decoder reads them in the headers of its slices.  A picture p has        *)
(*   idr, ref, isLong    nal_unit_type 5, nal_ref_idc and                   *)
(*                       long_term_reference_flag,                          *)
(*   adaptive, cmds      the marking it asks for (see RefMarking),          *)
(*   fn, poc             frame_num and the picture order count,             *)
(*   key                 its place in the order of display.                 *)
(* What the stream has sent is a record s: mk, its marking; prev, the frame *)
(* number of the last reference picture; period, the number of IDR pictures *)
(* and resets; sent, the order counts since the last one; last, the order   *)
(* count of the last reference picture; reset, whether the last picture had *)
(* command 5; and fresh, whether an IDR picture must follow.                *)
(* A configuration c bounds what is sent: numRef (num_ref_frames), reorder  *)
(* (the pictures that may precede another in decoding and follow it in      *)
(* display), cmds (the commands of a picture), trail (the pictures that may *)
(* follow the last reference picture in display while others than           *)
(* references are sent) and quiet (whether a picture with command 5 is      *)
(* followed by a reference picture).                                        *)
(***************************************************************************)
EXTENDS RefMarking

CONSTANT PocSpan    \* more than the order counts of a period

Opening == [mk |-> Nothing, prev |-> 0, period |-> 0, sent |-> {}, last |-> 0,
            reset |-> FALSE, fresh |-> TRUE]

Key(period, poc) == period * PocSpan + poc

\* The order counts the next picture may have: above those sent, leaving at
\* most reorder places open, or one of the open places.  An IDR picture is
\* also the first of its period in display.
NextPocs(s, c) ==
  LET top == Max(s.sent)
      later(poc) == Cardinality({q \in s.sent : q > poc})
  IN {poc \in 1 .. top + 1 + c.reorder :
        /\ poc \notin s.sent
        /\ later(poc) <= c.reorder}

Coded(s, idr, ref, isLong, adaptive, cmds, poc) ==
  [idr |-> idr, ref |-> ref, isLong |-> isLong, adaptive |-> adaptive, cmds |-> cmds,
   fn |-> IF idr THEN 0 ELSE (s.prev + 1) % MaxFrameNum,
   poc |-> poc,
   key |-> IF idr \/ Resets(cmds) THEN Key(s.period + 1, 0) ELSE Key(s.period, poc)]

AnyPicture ==
  [idr : BOOLEAN, ref : BOOLEAN, isLong : BOOLEAN, adaptive : BOOLEAN,
   cmds : Seq(AnyCommand), fn : Nat, poc : Int, key : Int]

IdrPictures(s, c) ==
  {Coded(s, TRUE, TRUE, isLong, FALSE, <<>>, 0) : isLong \in {FALSE, c.cmds > 0}}

\* A picture with command 5 follows all others in display, and later ones
\* count from it.
RefPictures(s, c) ==
  LET p(cmds, poc) == Coded(s, FALSE, TRUE, FALSE, cmds # <<>>, cmds, poc)
      fn == p(<<>>, 0).fn
      lists == CommandLists(s.mk, fn, Key(s.period, PocSpan - 1), c.cmds)
      pocs(cmds) == IF Resets(cmds) THEN {Max(s.sent) + 1} ELSE NextPocs(s, c)
      fits(cmds) == Size(Mark(s.mk, cmds # <<>>, cmds, fn, -1, c.numRef)) <= c.numRef
  IN IF fn \in {e.fn : e \in s.mk.short} THEN {}
     ELSE UNION {{p(cmds, poc) : poc \in pocs(cmds)} : cmds \in {l \in lists : fits(l)}}

\* Until the next reference picture at most c.trail pictures follow the last
\* one in display.
OtherPictures(s, c) ==
  LET trail(poc) == Cardinality({q \in s.sent \cup {poc} : q > s.last}) IN
  IF c.quiet /\ s.reset THEN {}
  ELSE {Coded(s, FALSE, FALSE, FALSE, FALSE, <<>>, poc) :
          poc \in {k \in NextPocs(s, c) : trail(k) <= c.trail}}

Pictures(s, c) ==
  IdrPictures(s, c)
  \cup (IF s.fresh THEN {} ELSE RefPictures(s, c) \cup OtherPictures(s, c))

\* The stream once picture p is sent.
Advance(s, p, c) ==
  LET restart == p.idr \/ Resets(p.cmds) IN
  [mk |-> IF p.idr THEN MarkIdr(p.key, p.isLong)
          ELSE IF p.ref THEN Mark(s.mk, p.adaptive, p.cmds, p.fn, p.key, c.numRef)
          ELSE s.mk,
   prev |-> IF p.ref THEN MarkedNum(p.cmds, p.fn) ELSE s.prev,
   period |-> IF restart THEN s.period + 1 ELSE s.period,
   sent |-> IF restart THEN {0} ELSE s.sent \cup {p.poc},
   last |-> IF restart THEN 0 ELSE IF p.ref THEN p.poc ELSE s.last,
   reset |-> Resets(p.cmds),
   fresh |-> FALSE]
=============================================================================
