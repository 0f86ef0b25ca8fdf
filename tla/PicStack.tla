------------------------------ MODULE PicStack ------------------------------
(***************************************************************************)
(* The picture stack of the encoder's rate control library                 *)
(* (encoder/irc_picture_type.c): pictures enter in display order and leave *)
(* in coding order, each with its type.  The stack is a ring; the reference *)
(* pictures and the B pictures of the coming sub-GOPs are written at two    *)
(* indices that run ahead of the index pictures are read at.               *)
(*                                                                         *)
(* GOPs are closed and the inter frame interval never changes: that is all *)
(* the encoder asks of the library (i4_is_gop_closed is 1 in               *)
(* ih264e_rc_init and nobody calls irc_change_inter_frm_int_call).  The     *)
(* frames of the current GOP and of the steady state are then the same.    *)
(***************************************************************************)
EXTENDS Integers

CONSTANT NumB       \* u4_num_bframes

Inter == NumB + 1                                  \* i4_inter_frm_int
MaxInter == IF Inter = 1 THEN 2 ELSE Inter + 2     \* i4_max_inter_frm_int
Ring == MaxInter + 1
Slots == 0..Ring-1

\* The pictures of a closed GOP of n frames: P, B, the B pictures of an
\* incomplete last sub-GOP, and whether a P directly follows another.
FindPicDistbn(n) ==
  LET p == IF n = 1 THEN 0 ELSE (n - 2) \div Inter + 1
      b == n - 1 - p
  IN [p |-> p, b |-> b,
      incomp |-> b - (Inter - 1) * ((n - 1) \div Inter),
      extra |-> n > 1 /\ (n - 2) % Inter = 0]

PicTypes == {"I", "P", "B"}

(* pic_handling_t *)
PicHandling ==
  [stack : [Slots -> [id : Int, type : PicTypes]],  \* as_pic_stack
   top : Int,           \* i4_stack_count, where pictures are read
   bIdx : Slots,        \* i4_b_pic_idx, where the next B picture goes
   refIdx : Slots,      \* i4_ref_pic_idx, where the next I or P picture goes
   disp : Nat,          \* i4_pic_disp_order_no
   buf : Nat,           \* i4_buf_pic_no
   pCount : Nat,        \* i4_p_count_in_gop
   bCount : Nat,        \* i4_b_count_in_gop
   bSub : Nat,          \* i4_b_count_in_subgop
   first : BOOLEAN,     \* i4_is_first_gop
   gop : [p : Nat, b : Nat, incomp : Int, extra : BOOLEAN],
   prev : PicTypes,     \* e_previous_pic_type
   force : BOOLEAN,     \* i4_force_I_frame
   newIntra : Nat]      \* i4_new_intra_frm_int, 0 when no change is asked for

InitPicHandling(intra) ==
  [stack |-> [i \in Slots |-> [id |-> 0, type |-> "I"]], top |-> -1,
   bIdx |-> 2, refIdx |-> 0, disp |-> 0, buf |-> 0,
   pCount |-> 0, bCount |-> 0, bSub |-> 0, first |-> TRUE,
   gop |-> FindPicDistbn(intra), prev |-> "I", force |-> FALSE, newIntra |-> 0]

SetForceI(s) == [s EXCEPT !.force = TRUE]

RegisterNewIntra(s, intra) == [s EXCEPT !.newIntra = intra]

StartNewGop(s) == [s EXCEPT !.disp = 0, !.buf = 0, !.first = FALSE]

\* A B picture, unless all of the GOP's are there: its last picture is a P.
NextIsB(s) == s.buf % Inter # 0 /\ s.bCount # s.gop.b

NextType(s) == IF NextIsB(s) THEN "B" ELSE IF s.disp = 0 THEN "I" ELSE "P"

\* A forced I picture begins a new GOP: at once without B pictures, otherwise
\* right after a P picture.
ApplyForce(s) ==
  IF ~s.force THEN s
  ELSE IF NextType(s) = "I" THEN [s EXCEPT !.force = FALSE]
  ELSE IF Inter = 1 THEN StartNewGop(s)
  ELSE IF s.prev = "P" /\ NextType(s) # "P"
  THEN [StartNewGop(s) EXCEPT !.bIdx = (@ + 1) % Ring]
  ELSE s

\* irc_update_pic_distbn at a GOP boundary, for a change of the intra interval.
\* The second picture of a GOP is the one that sees it.
ApplyIntra(s, disp) ==
  IF s.newIntra = 0 \/ disp # 1 THEN s
  ELSE [s EXCEPT !.gop = FindPicDistbn(s.newIntra),
                 !.buf = IF s.disp = 0 THEN 0 ELSE 1,
                 !.disp = IF s.newIntra = 1 THEN 0 ELSE @,
                 !.bSub = 0, !.newIntra = 0]

PutB(s, id) ==
  LET b == s.bCount + 1
      endOfGop == b = s.gop.b
      endOfSubgop == endOfGop \/ s.bSub + 1 >= Inter - 1
      threeRefs == s.gop.incomp = 0 /\ s.gop.p > 1
                     /\ s.disp # s.gop.p + s.gop.b - 1
      step == IF endOfGop THEN IF threeRefs THEN 4 ELSE 3
              ELSE IF endOfSubgop THEN 2 ELSE 1
  IN [s EXCEPT !.stack[s.bIdx] = [id |-> id, type |-> "B"],
               !.bIdx = (@ + step) % Ring,
               !.bCount = b,
               !.bSub = IF endOfSubgop THEN 0 ELSE @ + 1,
               !.prev = "B"]

\* Mutant of PutI: the index of the next I or P picture stays.
PutIStays(s, id) ==
  [s EXCEPT !.stack[s.refIdx] = [id |-> id, type |-> "I"],
            !.pCount = 0, !.bCount = 0, !.bSub = 0, !.prev = "I"]

PutI(s, id) ==
  [s EXCEPT !.stack[s.refIdx] = [id |-> id, type |-> "I"],
            !.refIdx = (@ + 1) % Ring,
            !.pCount = 0, !.bCount = 0, !.bSub = 0, !.prev = "I"]

PutP(s, id) ==
  LET shortEnd == s.pCount + 1 = s.gop.p /\ s.gop.p > 1
                    /\ (s.gop.incomp # 0 \/ s.gop.extra)
  IN [s EXCEPT !.stack[s.refIdx] = [id |-> id, type |-> "P"],
               !.refIdx = (@ + IF shortEnd THEN s.gop.incomp + 1 ELSE Inter) % Ring,
               !.pCount = @ + 1, !.prev = "P"]

Put(s, id) ==
  LET t == NextType(s)
      s1 == CASE t = "B" -> PutB(s, id) [] t = "I" -> PutI(s, id)
              [] OTHER -> PutP(s, id)
      endOfGop == s.disp = s.gop.p + s.gop.b
  IN [s1 EXCEPT !.disp = IF endOfGop THEN 0 ELSE @ + 1,
                !.buf = IF endOfGop THEN 0 ELSE @ + 1,
                !.first = @ /\ ~endOfGop,
                !.top = IF s.first /\ s.disp = 0 THEN 0 ELSE @]

AddPic(s, id) == Put(ApplyIntra(ApplyForce(s), s.disp), id)

\* irc_get_pic_from_stack: the picture, and what a forced I picture resets.
TopPic(s) == s.stack[s.top]
GotPic(s) == IF TopPic(s).type = "I" THEN [s EXCEPT !.force = FALSE] ELSE s

\* irc_update_pic_handling, once the picture is coded.
PopPic(s) == [s EXCEPT !.top = (@ + 1) % Ring]
=============================================================================
