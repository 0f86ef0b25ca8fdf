---------------------------- MODULE RateControl -----------------------------
(***************************************************************************)
(* The encoder's rate control (encoder/irc_*.c): how many bits the frames  *)
(* of the current period still have, how full the buffer is that they are   *)
(* sent through, and the corrections both get when the GOP structure or the *)
(* rates change.                                                           *)
(*                                                                         *)
(* Pictures are I and P only (the scene change code needs an inter frame    *)
(* interval of one), so a picture leaves the picture stack in the call that *)
(* put it there, and one call of ih264e_encode is one action: rate control  *)
(* runs at its beginning (ih264e_encode's thread) and at its end.  The      *)
(* rate-distortion model is abstract: any estimate, and frames that miss    *)
(* their target.  The code counts bits in floats; up to 2^24, where the     *)
(* integers here stay, they are exact.                                      *)
(***************************************************************************)
EXTENDS Integers

CONSTANTS
  Modes,          \* subset of {"CBR", "VBR"}: CBR_NLDRC, VBR_STORAGE
  Intervals,      \* intra frame intervals that may be asked for
  BitRates,       \* target bit rates, in bits per second
  PeakRate,       \* peak bit rate of VBR storage
  FrameRates,     \* frame rates, in frames per 1000 seconds
  First,          \* the rates the encoder is created with
  Delay,          \* buffer delay, in milliseconds
  MaxBuffer,      \* size of the decoder's buffer, in bits
  Estimates,      \* estimates of the rate-distortion model, in bits
  Misses,         \* by how much a frame can miss its target
  TicksPerSecond, \* the unit frames' durations are measured in
  Corners,        \* what else may happen: "together", an I frame is forced while
                  \* an interval change waits; "allIntra", the interval becomes 1;
                  \* "untrained", an I frame is forced, or a rate changed, while the
                  \* bits of another forced one wait
  MaxPics,        \* bound: pictures
  MaxChanges      \* bound: changes of the bit rate and of the frame rate

ASSUME RateControlAssumption ==
  /\ Modes \subseteq {"CBR", "VBR"}
  /\ Intervals \subseteq Nat \ {0}
  /\ BitRates \subseteq Nat /\ FrameRates \subseteq Nat \ {0}
  /\ PeakRate \in Nat /\ Delay \in Nat /\ MaxBuffer \in Nat
  /\ Estimates \subseteq Nat /\ Misses \subseteq Int
  /\ TicksPerSecond \in Nat
  /\ First \in [bit : BitRates, frame : FrameRates]
  /\ \A f \in FrameRates :
       (TicksPerSecond * 1000) % f = 0 /\ (First.frame * 1000) % f = 0
  /\ Corners \subseteq {"together", "allIntra", "untrained"} /\ MaxPics \in Nat /\ MaxChanges \in Nat

VARIABLES
  mode,      \* e_rc_type
  pics,      \* ps_pic_handling: the picture stack
  gop,       \* ps_pic_handling: its counts for bit allocation
  budget,    \* s_rbip: the bits left in the period
  saved,     \* vq_saved_bits
  second,    \* ps_error_bits: the bits the division of a second leaves over
  rates,     \* i4_bit_rate and i4_frame_rate
  cbr,       \* ps_cbr_buffer
  vbv,       \* ps_vbr_storage_vbv
  trained,   \* au1_is_first_frm_coded
  coded,     \* the number of pictures coded
  changes,   \* the number of rate changes
  balance,   \* history: bits the coded frames were given, less what they took
  unpaid,    \* history: bits given since the last whole second was settled
  clock,     \* history: where in the current second the coded frames end
  spilled,   \* history: bits the buffer model has dropped at frames with a target
  sunk       \* history: how far frames without one took the decoder's buffer below
             \* empty, until it is filled again

allocVars == <<budget, saved, second, rates>>
history == <<balance, unpaid, clock, spilled, sunk>>
vars == <<mode, pics, gop, allocVars, cbr, vbv, trained, coded, changes, history>>

P == INSTANCE PicStack WITH NumB <- 0

Smaller(a, b) == IF a < b THEN a ELSE b
Larger(a, b) == IF a > b THEN a ELSE b
PerFrame(bits, frames) == (bits * 1000) \div frames     \* X_PROD_Y_DIV_Z

GopSize == pics.gop.p + 1
GopsInPeriod == IF mode = "CBR" THEN 1 ELSE 3           \* ..._BIT_ALLOC_PERIOD

-----------------------------------------------------------------------------
(* The bits left in the period (rem_bit_in_prd_t). *)

\* check_update_rbip: the GOPs of the period have a new size.
Resize(b, size) ==
  [b EXCEPT !.bits = @ + b.gops * (size - b.frames) * b.perFrame, !.frames = size]

\* irc_ba_update_rbip
Give(b, size, bits) == [Resize(b, size) EXCEPT !.bits = @ + bits]

\* irc_ba_change_rbip: "left" frames are left in the GOP.
ChangePeriod(b, left, perFrame, gops) ==
  [b EXCEPT !.bits = @ + (perFrame - b.perFrame) * ((b.gops - 1) * b.frames + left)
                       + (gops - b.gops) * b.frames * perFrame,
            !.gops = gops, !.perFrame = perFrame]

\* Mutant of AfterFrame: the GOP added for a scene change stays in the period
\* when its bits are taken back.
AfterFrameGopsStay(b, g, size, bits, scd) ==
  LET used == Give(b, size, bits)
      wider == IF scd /\ used.gops < 3
               THEN ChangePeriod(used, g.p, used.perFrame, used.gops + 2) ELSE used
  IN IF ~g.last THEN wider
     ELSE IF wider.gops > GopsInPeriod
     THEN [Give(ChangePeriod(wider, g.p, wider.perFrame, wider.gops - 1), size,
                wider.perFrame * size) EXCEPT !.gops = wider.gops]
     ELSE Give(wider, size, wider.perFrame * size)

\* irc_ba_update_cur_frm_consumed_bits: a scene change adds two GOPs to the
\* period, the end of a GOP takes one back and adds the next one's bits.
AfterFrame(b, g, size, bits, scd) ==
  LET left == g.i + g.p
      used == Give(b, size, bits)
      wider == IF scd /\ used.gops < 3
               THEN ChangePeriod(used, left, used.perFrame, used.gops + 2) ELSE used
      narrower == IF g.last /\ wider.gops > GopsInPeriod
                  THEN ChangePeriod(wider, left, wider.perFrame, wider.gops - 1)
                  ELSE wider
  IN IF g.last THEN Give(narrower, size, narrower.perFrame * size) ELSE narrower

\* irc_ba_check_and_update_bit_allocation: what the saved bits gain.
ToSaved(b, size) ==
  LET most == b.gops * size * vbv.perFrame
  IN IF b.bits > most THEN b.bits - most
     ELSE IF b.bits < 0 THEN b.bits
     ELSE IF saved < 0 THEN -Smaller(saved, most - b.bits)
     ELSE 0

-----------------------------------------------------------------------------
(* What a second of frames leaves over (error_bits_t). *)

ErrorBits(e) == IF e.due THEN e.bitRate - e.accum ELSE 0

\* Mutant of NextFrame: the bits of the second before are not forgotten.
NextFrameKeeps(e) ==
  LET now == e.now + e.step
  IN [e EXCEPT !.accum = @ + PerFrame(e.bitRate, e.frameRate),
               !.now = IF now >= e.whole THEN now - e.whole ELSE now,
               !.due = now >= e.whole]

\* irc_update_error_bits
NextFrame(e) ==
  LET now == e.now + e.step
  IN [e EXCEPT !.accum = (IF e.due THEN 0 ELSE @) + PerFrame(e.bitRate, e.frameRate),
               !.now = IF now >= e.whole THEN now - e.whole ELSE now,
               !.due = now >= e.whole]

InitSecond(bitRate, frameRate) ==
  [now |-> 0, whole |-> frameRate, step |-> 1000, due |-> FALSE,
   frameRate |-> frameRate, accum |-> 0, bitRate |-> bitRate]

ChangeSecond(e, bitRate, frameRate) ==
  [e EXCEPT !.bitRate = bitRate, !.frameRate = frameRate,
            !.step = (e.whole * 1000) \div frameRate]

-----------------------------------------------------------------------------
(* The buffers. *)

CbrBuffer(level, bitRate, frameRate) ==
  LET size == Smaller((bitRate * Delay) \div 1000, MaxBuffer)
  IN [level |-> level, size |-> size, drain |-> PerFrame(bitRate, frameRate),
      upper |-> size - size \div 8]

\* Mutant of CbrTarget: what the buffer already holds does not count.
CbrTargetFull(est) == Smaller(est, cbr.upper)

\* irc_cbr_buffer_constraint_check; i4_low_thr is the drain of a frame.
CbrTarget(est) ==
  LET most == Larger(cbr.upper - cbr.level, 0)
      least == Larger(cbr.drain - (cbr.level - cbr.drain), 0)
  IN IF est > most THEN most ELSE IF est < least THEN least ELSE est

\* irc_get_max_target_bits
VbvNext == Smaller(vbv.level + vbv.inflow + ErrorBits(vbv.second), vbv.size)
VbrTarget(est) == Smaller(est, VbvNext)

Target(est) == IF mode = "CBR" THEN CbrTarget(est) ELSE Larger(VbrTarget(est), 0)

\* irc_update_cbr_buffer, whose own error bits never come due.  What a lower rate
\* has left above the buffer's size is dropped with the rest, and not counted.
CbrUpdate(bits, hasTarget) ==
  LET level == Larger(cbr.level + bits - cbr.drain, 0)
      above == Larger(cbr.level - cbr.size, 0)
  IN /\ cbr' = [cbr EXCEPT !.level = Smaller(level, cbr.size)]
     /\ spilled' = spilled + IF hasTarget THEN Larger(level - cbr.size - above, 0) ELSE 0
     /\ UNCHANGED <<vbv, sunk>>

\* irc_update_vbr_vbv
VbvUpdate(bits, hasTarget) ==
  LET owed == IF VbvNext < 0 THEN sunk ELSE 0
  IN /\ vbv' = [vbv EXCEPT !.level = VbvNext - bits, !.second = NextFrame(@)]
     /\ sunk' = IF hasTarget THEN owed ELSE Larger(owed, bits - VbvNext)
     /\ UNCHANGED <<cbr, spilled>>

-----------------------------------------------------------------------------
Init ==
  /\ mode \in Modes
  /\ \E n \in Intervals, b \in {First.bit}, f \in {First.frame} :
       /\ pics = P!InitPicHandling(n)
       /\ gop = [i |-> 1, p |-> n - 1, fif |-> 0, forced |-> FALSE, last |-> FALSE]
       /\ budget = [bits |-> PerFrame(b, f) * n * GopsInPeriod, frames |-> n,
                    gops |-> GopsInPeriod, perFrame |-> PerFrame(b, f)]
       /\ rates = [bit |-> b, frame |-> f, source |-> f]
       /\ second = InitSecond(b, f)
       /\ cbr = CbrBuffer(0, b, f)
       /\ vbv = [level |-> MaxBuffer, size |-> MaxBuffer,
                 inflow |-> PerFrame(PeakRate, f), perFrame |-> PerFrame(PeakRate, f),
                 second |-> InitSecond(PeakRate, f)]
  /\ saved = 0 /\ trained = {} /\ coded = 0 /\ changes = 0
  /\ balance = 0 /\ unpaid = 0 /\ clock = 0 /\ spilled = 0 /\ sunk = 0

-----------------------------------------------------------------------------
(* Commands of the application, between two calls. *)

\* irc_ba_change_remaining_bits_in_period
ChangeAllocation(b, f, source) ==
  /\ budget' = ChangePeriod(budget, gop.i + gop.p, PerFrame(b, f), budget.gops)
  /\ second' = ChangeSecond(second, b, f)
  /\ rates' = [bit |-> b, frame |-> f, source |-> source]
  /\ gop.forced => "untrained" \in Corners
  /\ changes < MaxChanges /\ changes' = changes + 1
  /\ UNCHANGED <<mode, pics, gop, saved, trained, coded, history>>

\* irc_change_avg_bit_rate, for IVE_CMD_CTL_SET_BITRATE: called when the rate is another
\* one (ih264e_api.c:2418), higher or lower.  irc_change_cbr_vbv_bit_rate keeps the level
\* of the CBR buffer, so that a lower rate can leave more in it than its new size.
SetBitRate(b) ==
  /\ b # rates.bit
  /\ ChangeAllocation(b, rates.frame, rates.source)
  /\ cbr' = IF mode = "CBR"
            THEN CbrBuffer(cbr.level, b, rates.source) ELSE cbr
  /\ UNCHANGED vbv

\* irc_change_frame_rate, for IVE_CMD_CTL_SET_FRAMERATE
SetFrameRate(f) ==
  /\ f # rates.source
  /\ ChangeAllocation(rates.bit, f, f)
  /\ cbr' = IF mode = "CBR" THEN CbrBuffer(cbr.level, rates.bit, f) ELSE cbr
  /\ vbv' = IF mode = "VBR"
            THEN [vbv EXCEPT !.inflow = PerFrame(PeakRate, f),
                             !.second = ChangeSecond(@, PeakRate, f)]
            ELSE vbv

\* irc_change_frm_rate_for_bit_alloc, when source frames are skipped: the
\* buffers keep their frame rate.
PullDownRate(f) ==
  /\ f # rates.frame
  /\ ChangeAllocation(rates.bit, f, rates.source)
  /\ vbv' = IF mode = "VBR" THEN [vbv EXCEPT !.perFrame = PerFrame(PeakRate, f)]
            ELSE vbv
  /\ UNCHANGED cbr

\* irc_change_intra_frm_int_call, for IVE_CMD_CTL_SET_GOP_PARAMS
SetIntraInterval(n) ==
  /\ n # GopSize /\ pics.newIntra # n /\ (n = 1 => "allIntra" \in Corners)
  /\ pics' = P!RegisterNewIntra(pics, n)
  /\ UNCHANGED <<mode, gop, allocVars, cbr, vbv, trained, coded, changes, history>>

-----------------------------------------------------------------------------
(* A call of ih264e_encode. *)

\* Mutant of PutGop: the frames left in the GOP that is cut short stay.
PutGopKeeps(before, put) ==
  LET opened == before.force /\ P!NextType(before) # "I"
      n == put.gop.p
  IN [gop EXCEPT !.fif = IF opened THEN before.pCount + 1 ELSE @,
                 !.forced = @ \/ opened,
                 !.p = @ + IF P!ApplyForce(before).disp >= 1 THEN n - before.gop.p
                           ELSE 0]

\* irc_add_pic_to_stack and irc_get_pic_from_stack, on the counts: a forced I
\* frame starts a GOP; then, if the interval changes, the frames left in the GOP
\* follow, unless the GOP has just been started.
PutGop(before, put) ==
  LET opened == before.force /\ P!NextType(before) # "I"
      change == put.gop.p - before.gop.p
  IN [gop EXCEPT
        !.fif = IF opened THEN before.pCount + before.bCount + 1 ELSE @,
        !.forced = @ \/ opened,
        !.i = IF opened THEN 1 ELSE @,
        !.p = (IF opened THEN before.gop.p ELSE @)
              + IF P!ApplyForce(before).disp >= P!MaxInter - 1 THEN change ELSE 0]

\* irc_update_pic_handling, on the counts
PopGop(g, type, p) ==
  LET left == [g EXCEPT !.i = IF type = "I" THEN @ - 1 ELSE @,
                        !.p = IF type = "P" THEN @ - 1 ELSE @,
                        !.last = FALSE]
  IN IF left.i <= 0 /\ left.p <= 0 THEN [left EXCEPT !.i = 1, !.p = p, !.last = TRUE]
     ELSE left

\* irc_get_frame_level_qp, on the budget: a forced I frame brings a GOP's worth
\* of bits for the frames that were coded in the GOP it cuts short.
Forced(g, size) ==
  IF g.forced THEN Give(budget, size, budget.perFrame * g.fif) ELSE Resize(budget, size)

\* One picture is put on the stack and coded.  Until the model is trained it has no
\* target and takes what its quantizer makes of it, however much.  A scene change is
\* a P frame that took at least its estimate; afterwards the model is trained anew.
Encode(force, est, miss, scd) ==
  LET before == IF force THEN P!SetForceI(pics) ELSE pics
      put == P!AddPic(before, 0)
      type == P!TopPic(put).type
      size == put.gop.p + 1
      isTrained == "I" \in trained /\ ("P" \in trained \/ size = 1)
      queried == PutGop(before, put)
      popped == PopGop(queried, type, put.gop.p)
      bits == IF isTrained THEN Larger(Target(est) + miss, 0) ELSE est
      given == budget.perFrame + ErrorBits(second)
      after == AfterFrame(IF isTrained THEN Forced(queried, size) ELSE budget,
                          popped, size, ErrorBits(second) - bits, scd)
      toSaved == IF mode = "VBR" /\ popped.last THEN ToSaved(after, size) ELSE 0
      tick == clock + (TicksPerSecond * 1000) \div rates.frame
  IN /\ coded < MaxPics /\ coded' = coded + 1
     /\ force => /\ coded > 0
                 /\ "together" \in Corners \/ pics.newIntra = 0
                 /\ "untrained" \in Corners \/ ~gop.forced
     /\ ~isTrained => miss = 0
     /\ scd => type = "P" /\ (isTrained => miss >= 0)
     /\ pics' = P!PopPic(P!GotPic(put))
     /\ gop' = [popped EXCEPT !.forced = @ /\ ~isTrained]
     /\ budget' = [after EXCEPT !.bits = @ - toSaved]
     /\ saved' = saved + toSaved
     /\ second' = NextFrame(second)
     /\ IF mode = "CBR" THEN CbrUpdate(bits, isTrained) ELSE VbvUpdate(bits, isTrained)
     /\ trained' = (IF scd THEN {} ELSE trained)
                   \cup (IF bits > 0 THEN {IF scd THEN "I" ELSE type} ELSE {})
     /\ balance' = balance + given - bits
     /\ unpaid' = unpaid + given - (IF second.due THEN second.bitRate ELSE 0)
     /\ clock' = IF tick >= TicksPerSecond THEN tick - TicksPerSecond ELSE tick
     /\ UNCHANGED <<mode, rates, changes>>

Next ==
  \/ \E b \in BitRates : SetBitRate(b)
  \/ \E f \in FrameRates : SetFrameRate(f) \/ PullDownRate(f)
  \/ \E n \in Intervals : SetIntraInterval(n)
  \/ \E force, scd \in BOOLEAN, est \in Estimates, miss \in Misses :
        Encode(force, est, miss, scd)

Spec == Init /\ [][Next]_vars

-----------------------------------------------------------------------------
TypeOK ==
  /\ mode \in Modes
  /\ gop \in [i : Int, p : Int, fif : Nat, forced : BOOLEAN, last : BOOLEAN]
  /\ budget \in [bits : Int, frames : Nat, gops : 1..4, perFrame : Nat]
  /\ rates \in [bit : BitRates, frame : FrameRates, source : FrameRates]
  /\ trained \subseteq {"I", "P"} /\ coded \in 0..MaxPics
  /\ saved \in Int /\ balance \in Int /\ unpaid \in Int /\ spilled \in Nat /\ sunk \in Nat

\* The counts bit allocation works on, taken down as pictures are coded, agree
\* with the picture stack's, taken up as pictures come in: what is left of the
\* GOP is what has not come in yet, and a GOP ends for one when it ends for the
\* other, whatever I frames were forced and intervals changed on the way
\* (irc_picture_type.c:881 leaves this open).
GopInPhase ==
  /\ gop.i = IF pics.disp = 0 THEN 1 ELSE 0
  /\ gop.i + gop.p = GopSize - pics.disp
  /\ gop.last => pics.disp = 0

\* The bits left in the period are those of the frames left in it, at the
\* current rate, corrected by what the coded frames have gained or lost: nothing
\* is lost or given twice by a forced I frame, a scene change, or a change of
\* the interval or of the rates.  The frames of a GOP cut short are still owed
\* while their bits wait for the model to be trained.
BudgetBalanced ==
  budget.bits + saved =
    balance + budget.perFrame
              * (gop.i + gop.p + (budget.gops - 1) * budget.frames
                 - IF gop.forced THEN gop.fif ELSE 0)

\* The seconds the error bits are settled at are those of the coded frames, and
\* since the last one the frames were given their share and no more.
SecondsPaid ==
  /\ unpaid = second.accum
  /\ second.now * TicksPerSecond = clock * second.whole

\* The thresholds of irc_cbr_buffer_constraint_check and irc_get_max_target_bits leave
\* room for a frame that misses its target by up to a frame's drain.  CBR: a frame
\* coded to a target makes irc_update_cbr_buffer drop no bit, but those that a lower
\* rate left above the smaller buffer before the frame ("Should not be coming here",
\* irc_cbr_buffer_control.c:371-375, which is reached then without any miss).  VBR,
\* the rates unchanged: the decoder's buffer lacks at most the miss of one frame.
\* Frames coded before the model is trained have no target, nothing bounds them, and
\* what they drop or lack is excused: in VBR, until the buffer is filled again.
BufferHolds ==
  /\ spilled = 0
  /\ changes = 0 => \E miss \in Misses : vbv.level >= -Larger(miss, sunk)

\* "Else Provide the extra bits from the saved bits pool": bits saved in one
\* period are given to a later one that can take them.
SavedGiven ==
  [][saved > 0 /\ gop'.last /\ budget'.bits > 0
       /\ budget'.bits < budget'.gops * GopSize' * vbv'.perFrame
     => saved' < saved]_vars
=============================================================================
