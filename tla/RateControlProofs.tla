------------------------- MODULE RateControlProofs --------------------------
(***************************************************************************)
(* Proofs about RateControl for any rates, intervals, estimates and number *)
(* of pictures.                                                            *)
(***************************************************************************)
EXTENDS RateControl, TLAPS

-----------------------------------------------------------------------------
(* The picture stack without B pictures. *)

\* Every picture is a reference, and the ring has three slots.
LEMMA NoBPictures == P!Inter = 1 /\ P!MaxInter = 2 /\ P!Ring = 3 /\ P!Slots = 0..2
BY DEF P!Inter, P!MaxInter, P!Ring, P!Slots

\* The types of the stack: P!PicHandling, with names for the larger parts.
Stacks == [P!Slots -> [id : Int, type : P!PicTypes]]
Gops == [p : Nat, b : Nat, incomp : Int, extra : BOOLEAN]
Pictures ==
  [stack : Stacks, top : Int, bIdx : P!Slots, refIdx : P!Slots, disp : Nat, buf : Nat,
   pCount : Nat, bCount : Nat, bSub : Nat, first : BOOLEAN, gop : Gops,
   prev : P!PicTypes, force : BOOLEAN, newIntra : Nat]

\* A GOP of n pictures has n-1 P pictures.
LEMMA DistbnFacts ==
  ASSUME NEW n \in Nat \ {0}
  PROVE  /\ P!FindPicDistbn(n) \in Gops
         /\ P!FindPicDistbn(n).p = n - 1
         /\ P!FindPicDistbn(n).b = 0
         /\ P!FindPicDistbn(n).incomp = 0
<1>1. (n - 2) \div P!Inter + 1 = n - 1
  BY NoBPictures
<1>2. (P!Inter - 1) * ((n - 1) \div P!Inter) = 0
  BY NoBPictures
<1>3. (IF n = 1 THEN 0 ELSE (n - 2) \div P!Inter + 1) = n - 1
  BY <1>1
<1>4. (n > 1 /\ (n - 2) % P!Inter = 0) \in BOOLEAN
  OBVIOUS
<1>5. QED
  BY <1>2, <1>3, <1>4 DEF P!FindPicDistbn, Gops

\* The next picture is an I picture at the beginning of a GOP, otherwise a P.
LEMMA NextTypeIs ==
  ASSUME NEW s, s.buf \in Nat
  PROVE  P!NextType(s) = IF s.disp = 0 THEN "I" ELSE "P"
<1>1. s.buf % P!Inter = 0
  BY NoBPictures
<1>2. QED
  BY <1>1 DEF P!NextType, P!NextIsB

\* A forced I picture begins a new GOP.
LEMMA ForceFacts ==
  ASSUME NEW s \in Pictures
  PROVE  LET r == P!ApplyForce(s) IN
         /\ r \in Pictures
         /\ r.disp = IF s.force THEN 0 ELSE s.disp
         /\ r.first = (s.first /\ ~(s.force /\ s.disp # 0))
         /\ r.force => s.force
         /\ r.gop = s.gop /\ r.newIntra = s.newIntra /\ r.pCount = s.pCount
         /\ r.bCount = s.bCount /\ r.refIdx = s.refIdx /\ r.top = s.top
<1> DEFINE r == P!ApplyForce(s)
<1>1. s.buf \in Nat /\ s.disp \in Nat /\ s.first \in BOOLEAN /\ s.force \in BOOLEAN
  BY DEF Pictures
<1>2. P!NextType(s) = IF s.disp = 0 THEN "I" ELSE "P"
  BY <1>1, NextTypeIs
<1>3. CASE ~s.force
  <2>1. r = s
    BY <1>3 DEF P!ApplyForce
  <2>2. QED
    BY <1>1, <1>3, <2>1
<1>4. CASE s.force /\ s.disp = 0
  <2>1. r = [s EXCEPT !.force = FALSE]
    BY <1>2, <1>4 DEF P!ApplyForce
  <2>2. QED
    BY <1>1, <1>4, <2>1 DEF Pictures
<1>5. CASE s.force /\ s.disp # 0
  <2>1. r = [s EXCEPT !.disp = 0, !.buf = 0, !.first = FALSE]
    BY <1>2, <1>5, NoBPictures DEF P!ApplyForce, P!StartNewGop
  <2>2. [s EXCEPT !.disp = 0, !.buf = 0, !.first = FALSE] \in Pictures
    BY DEF Pictures
  <2>3. /\ r.disp = 0 /\ r.first = FALSE
        /\ r.gop = s.gop /\ r.newIntra = s.newIntra /\ r.pCount = s.pCount
        /\ r.bCount = s.bCount /\ r.refIdx = s.refIdx /\ r.top = s.top
    BY <2>1 DEF Pictures
  <2>4. QED
    BY <1>5, <2>1, <2>2, <2>3
<1>6. QED
  BY <1>1, <1>3, <1>4, <1>5

\* A new intra interval is taken at the second picture of a GOP.
LEMMA IntraFacts ==
  ASSUME NEW s \in Pictures, NEW disp \in Nat
  PROVE  LET r == P!ApplyIntra(s, disp)
             takes == s.newIntra # 0 /\ disp = 1 IN
         /\ r \in Pictures
         /\ r.disp = IF takes /\ s.newIntra = 1 THEN 0 ELSE s.disp
         /\ r.gop = IF takes THEN P!FindPicDistbn(s.newIntra) ELSE s.gop
         /\ r.newIntra = IF takes THEN 0 ELSE s.newIntra
         /\ r.first = s.first /\ r.pCount = s.pCount /\ r.force = s.force
         /\ r.bCount = s.bCount /\ r.refIdx = s.refIdx /\ r.top = s.top
<1> DEFINE r == P!ApplyIntra(s, disp)
<1>1. CASE ~(s.newIntra # 0 /\ disp = 1)
  <2>1. r = s
    BY <1>1 DEF P!ApplyIntra
  <2>2. QED
    BY <1>1, <2>1
<1>2. CASE s.newIntra # 0 /\ disp = 1
  <2>1. r = [s EXCEPT !.gop = P!FindPicDistbn(s.newIntra),
                      !.buf = IF s.disp = 0 THEN 0 ELSE 1,
                      !.disp = IF s.newIntra = 1 THEN 0 ELSE s.disp,
                      !.bSub = 0, !.newIntra = 0]
    BY <1>2 DEF P!ApplyIntra, Pictures
  <2>2. s.newIntra \in Nat \ {0}
    BY <1>2 DEF Pictures
  <2>3. P!FindPicDistbn(s.newIntra) \in Gops
    BY <2>2, DistbnFacts
  <2>4. \A g \in Gops, b, d \in Nat :
          [s EXCEPT !.gop = g, !.buf = b, !.disp = d, !.bSub = 0, !.newIntra = 0] \in Pictures
    BY DEF Pictures
  <2>5. r \in Pictures
    <3>1. PICK b \in Nat : b = IF s.disp = 0 THEN 0 ELSE 1
      OBVIOUS
    <3>2. PICK d \in Nat : d = IF s.newIntra = 1 THEN 0 ELSE s.disp
      BY DEF Pictures
    <3>3. PICK g \in Gops : g = P!FindPicDistbn(s.newIntra)
      BY <2>3
    <3>4. r = [s EXCEPT !.gop = g, !.buf = b, !.disp = d, !.bSub = 0, !.newIntra = 0]
      BY <2>1, <3>1, <3>2, <3>3, Zenon
    <3>5. [s EXCEPT !.gop = g, !.buf = b, !.disp = d, !.bSub = 0, !.newIntra = 0] \in Pictures
      BY <2>4
    <3> HIDE DEF r
    <3>6. QED
      BY <3>4, <3>5
  <2>6. /\ r.disp = IF s.newIntra = 1 THEN 0 ELSE s.disp
        /\ r.gop = P!FindPicDistbn(s.newIntra) /\ r.newIntra = 0
        /\ r.first = s.first /\ r.pCount = s.pCount /\ r.force = s.force
        /\ r.bCount = s.bCount /\ r.refIdx = s.refIdx /\ r.top = s.top
    BY <2>1 DEF Pictures
  <2>7. QED
    BY <1>2, <2>5, <2>6
<1>3. QED
  BY <1>1, <1>2

\* The picture is written at the index of the reference pictures.
LEMMA PutFacts ==
  ASSUME NEW s \in Pictures
  PROVE  LET r == P!Put(s, 0)
             type == IF s.disp = 0 THEN "I" ELSE "P" IN
         /\ r \in Pictures
         /\ r.disp = IF s.disp = s.gop.p + s.gop.b THEN 0 ELSE s.disp + 1
         /\ r.first = (s.first /\ s.disp # s.gop.p + s.gop.b)
         /\ r.top = IF s.first /\ s.disp = 0 THEN 0 ELSE s.top
         /\ r.gop = s.gop /\ r.newIntra = s.newIntra /\ r.force = s.force
         /\ r.pCount = IF type = "I" THEN 0 ELSE s.pCount + 1
         /\ r.bCount = IF type = "I" THEN 0 ELSE s.bCount
         /\ s.gop.incomp = 0 => r.refIdx = (s.refIdx + 1) % 3
         /\ r.stack[s.refIdx].type = type
<1> DEFINE r == P!Put(s, 0)
           type == IF s.disp = 0 THEN "I" ELSE "P"
           end == s.disp = s.gop.p + s.gop.b
           stack == [s.stack EXCEPT ![s.refIdx] = [id |-> 0, type |-> type]]
<1>1. /\ s.buf \in Nat /\ s.disp \in Nat /\ s.first \in BOOLEAN /\ s.refIdx \in 0..2
      /\ s.pCount \in Nat /\ s.gop \in Gops /\ s.stack \in Stacks
  BY NoBPictures DEF Pictures
<1>2. P!NextType(s) = type
  BY <1>1, NextTypeIs
<1>3. stack \in Stacks /\ stack[s.refIdx].type = type /\ type \in P!PicTypes
  BY <1>1, NoBPictures DEF Stacks, P!PicTypes
<1>4. s.gop.incomp \in Int /\ s.gop.p \in Nat /\ s.gop.b \in Nat /\ end \in BOOLEAN
  BY <1>1 DEF Gops
<1> HIDE DEF stack, type, end
<1>5. \A i \in 0..2, p, b, u \in Nat, t \in Stacks, y \in P!PicTypes :
        [s EXCEPT !.stack = t, !.refIdx = i, !.pCount = p, !.bCount = b, !.bSub = u,
                  !.prev = y] \in Pictures
  BY NoBPictures DEF Pictures
<1>6. PICK q \in Pictures :
        /\ r = [q EXCEPT !.disp = IF s.disp = s.gop.p + s.gop.b THEN 0 ELSE @ + 1,
                         !.buf = IF s.disp = s.gop.p + s.gop.b THEN 0 ELSE @ + 1,
                         !.first = @ /\ ~(s.disp = s.gop.p + s.gop.b),
                         !.top = IF s.first /\ s.disp = 0 THEN 0 ELSE @]
        /\ q.disp = s.disp /\ q.first = s.first /\ q.top = s.top /\ q.buf = s.buf
        /\ q.gop = s.gop /\ q.newIntra = s.newIntra /\ q.force = s.force
        /\ q.pCount = IF type = "I" THEN 0 ELSE s.pCount + 1
        /\ q.bCount = IF type = "I" THEN 0 ELSE s.bCount
        /\ s.gop.incomp = 0 => q.refIdx = (s.refIdx + 1) % 3
        /\ q.stack = stack
  <2>1. CASE type = "I"
    <3>1. PICK q : q = P!PutI(s, 0)
      OBVIOUS
    <3>2. q = [s EXCEPT !.stack = stack, !.refIdx = (s.refIdx + 1) % 3,
                        !.pCount = 0, !.bCount = 0, !.bSub = 0, !.prev = "I"]
      BY <2>1, <3>1, NoBPictures DEF P!PutI, Pictures, stack
    <3>3. (s.refIdx + 1) % 3 \in 0..2 /\ "I" \in P!PicTypes
      BY <1>1 DEF P!PicTypes
    <3>4. q \in Pictures
      BY <1>3, <1>5, <3>2, <3>3
    <3>5. /\ q.disp = s.disp /\ q.first = s.first /\ q.top = s.top /\ q.buf = s.buf
          /\ q.gop = s.gop /\ q.newIntra = s.newIntra /\ q.force = s.force
          /\ q.pCount = 0 /\ q.bCount = 0 /\ q.refIdx = (s.refIdx + 1) % 3
          /\ q.stack = stack
      BY <3>2 DEF Pictures
    <3>6. r = [q EXCEPT !.disp = IF s.disp = s.gop.p + s.gop.b THEN 0 ELSE @ + 1,
                        !.buf = IF s.disp = s.gop.p + s.gop.b THEN 0 ELSE @ + 1,
                        !.first = @ /\ ~(s.disp = s.gop.p + s.gop.b),
                        !.top = IF s.first /\ s.disp = 0 THEN 0 ELSE @]
      BY <1>2, <2>1, <3>1 DEF P!Put
    <3>7. QED
      BY <2>1, <3>4, <3>5, <3>6
  <2>2. CASE type = "P"
    <3>1. PICK q : q = P!PutP(s, 0)
      OBVIOUS
    <3>2. PICK i \in 0..2 : /\ s.gop.incomp = 0 => i = (s.refIdx + 1) % 3
                            /\ q = [s EXCEPT !.stack = stack, !.refIdx = i,
                                             !.pCount = s.pCount + 1, !.bCount = s.bCount,
                                             !.bSub = s.bSub, !.prev = "P"]
      <4> DEFINE j == (s.refIdx + IF s.pCount + 1 = s.gop.p /\ s.gop.p > 1
                                     /\ (s.gop.incomp # 0 \/ s.gop.extra)
                                  THEN s.gop.incomp + 1 ELSE P!Inter) % P!Ring
      <4>1. q = [s EXCEPT !.stack = stack, !.refIdx = j, !.pCount = s.pCount + 1,
                          !.bCount = s.bCount, !.bSub = s.bSub, !.prev = "P"]
        BY <2>2, <3>1 DEF P!PutP, Pictures, stack
      <4>2. j \in 0..2 /\ (s.gop.incomp = 0 => j = (s.refIdx + 1) % 3)
        <5>1. PICK ends \in BOOLEAN :
                ends <=> s.pCount + 1 = s.gop.p /\ s.gop.p > 1
                         /\ (s.gop.incomp # 0 \/ s.gop.extra)
          OBVIOUS
        <5>2. PICK c \in Int : c = s.gop.incomp
          BY <1>4
        <5>3. PICK n \in Int : n = IF ends THEN c + 1 ELSE 1
          <6>1. CASE ends
            BY <6>1
          <6>2. CASE ~ends
            BY <6>2
          <6>3. QED
            BY <6>1, <6>2, Zenon
        <5>4. j = (s.refIdx + n) % 3
          BY <5>1, <5>2, <5>3, NoBPictures
        <5>5. c = 0 => n = 1
          BY <5>3
        <5>6. (s.refIdx + n) % 3 \in 0..2
          BY <1>1
        <5>7. QED
          BY <5>2, <5>4, <5>5, <5>6
      <4> HIDE DEF j
      <4>3. QED
        BY <4>1, <4>2, Zenon
    <3>3. s.pCount + 1 \in Nat /\ s.bCount \in Nat /\ s.bSub \in Nat /\ "P" \in P!PicTypes
      BY DEF Pictures, P!PicTypes
    <3>4. q \in Pictures
      BY <1>3, <1>5, <3>2, <3>3
    <3>5. /\ q.disp = s.disp /\ q.first = s.first /\ q.top = s.top /\ q.buf = s.buf
          /\ q.gop = s.gop /\ q.newIntra = s.newIntra /\ q.force = s.force
          /\ q.pCount = s.pCount + 1 /\ q.bCount = s.bCount
          /\ s.gop.incomp = 0 => q.refIdx = (s.refIdx + 1) % 3
          /\ q.stack = stack
      BY <3>2 DEF Pictures
    <3>6. r = [q EXCEPT !.disp = IF s.disp = s.gop.p + s.gop.b THEN 0 ELSE @ + 1,
                        !.buf = IF s.disp = s.gop.p + s.gop.b THEN 0 ELSE @ + 1,
                        !.first = @ /\ ~(s.disp = s.gop.p + s.gop.b),
                        !.top = IF s.first /\ s.disp = 0 THEN 0 ELSE @]
      BY <1>2, <2>2, <3>1 DEF P!Put
    <3>7. QED
      BY <2>2, <3>4, <3>5, <3>6
  <2>3. QED
    BY <2>1, <2>2 DEF type
<1>7. PICK d \in Nat, b \in Nat, f \in BOOLEAN, t \in Int :
        /\ r = [q EXCEPT !.disp = d, !.buf = b, !.first = f, !.top = t]
        /\ d = IF s.disp = s.gop.p + s.gop.b THEN 0 ELSE s.disp + 1
        /\ f = (s.first /\ s.disp # s.gop.p + s.gop.b)
        /\ t = IF s.first /\ s.disp = 0 THEN 0 ELSE s.top
  <2>1. PICK d : d = IF s.disp = s.gop.p + s.gop.b THEN 0 ELSE q.disp + 1
    OBVIOUS
  <2>2. PICK b : b = IF s.disp = s.gop.p + s.gop.b THEN 0 ELSE q.buf + 1
    OBVIOUS
  <2>3. PICK f : f = (q.first /\ ~(s.disp = s.gop.p + s.gop.b))
    OBVIOUS
  <2>4. PICK t : t = IF s.first /\ s.disp = 0 THEN 0 ELSE q.top
    OBVIOUS
  <2>5. d \in Nat /\ b \in Nat /\ t \in Int
    BY <2>1, <2>2, <2>4 DEF Pictures
  <2>6. f \in BOOLEAN
    BY <2>3
  <2>7. r = [q EXCEPT !.disp = d, !.buf = b, !.first = f, !.top = t]
    BY <1>6, <2>1, <2>2, <2>3, <2>4, Zenon
  <2>8. d = IF s.disp = s.gop.p + s.gop.b THEN 0 ELSE s.disp + 1
    BY <1>6, <2>1
  <2>9. f = (s.first /\ s.disp # s.gop.p + s.gop.b)
    BY <1>6, <2>3, Zenon
  <2>10. t = IF s.first /\ s.disp = 0 THEN 0 ELSE s.top
    BY <1>6, <2>4
  <2>11. QED
    BY <2>5, <2>6, <2>7, <2>8, <2>9, <2>10, Zenon
<1> HIDE DEF r
<1>8. r \in Pictures
  <2>1. [q EXCEPT !.disp = d, !.buf = b, !.first = f, !.top = t] \in Pictures
    BY DEF Pictures
  <2>2. QED
    BY <1>7, <2>1
<1>9. /\ r.disp = d /\ r.first = f /\ r.top = t
      /\ r.gop = q.gop /\ r.newIntra = q.newIntra /\ r.force = q.force
      /\ r.pCount = q.pCount /\ r.bCount = q.bCount /\ r.refIdx = q.refIdx
      /\ r.stack = q.stack
  BY <1>7 DEF Pictures
<1>10. r.first = (s.first /\ s.disp # s.gop.p + s.gop.b)
  BY <1>7, <1>9, Zenon
<1>11. r.stack[s.refIdx].type = type
  BY <1>3, <1>6, <1>9
<1>12. QED
  BY <1>6, <1>7, <1>8, <1>9, <1>10, <1>11 DEF r, type

-----------------------------------------------------------------------------
(* The parts of a call of Encode. *)

Before(force) == IF force THEN P!SetForceI(pics) ELSE pics
Put(force) == P!AddPic(Before(force), 0)
Queried(force) == PutGop(Before(force), Put(force))
Popped(force) == PopGop(Queried(force), P!TopPic(Put(force)).type, Put(force).gop.p)
Size(force) == Put(force).gop.p + 1
Tick == clock + (TicksPerSecond * 1000) \div rates.frame

\* What a call does to the counts and the budget, the model being trained or not,
\* the picture taking "bits" and the saved bits gaining "toSaved".
After(force, scd, isTrained, bits) ==
  AfterFrame(IF isTrained THEN Forced(Queried(force), Size(force)) ELSE budget,
             Popped(force), Size(force), ErrorBits(second) - bits, scd)

Call(force, est, miss, scd, isTrained, bits, toSaved) ==
  /\ coded < MaxPics /\ coded' = coded + 1
  /\ force => /\ coded > 0
              /\ "together" \in Corners \/ pics.newIntra = 0
              /\ "untrained" \in Corners \/ ~gop.forced
  /\ ~isTrained => miss = 0
  /\ bits = IF isTrained THEN Larger(Target(est) + miss, 0) ELSE est
  /\ toSaved = IF mode = "VBR" /\ Popped(force).last
               THEN ToSaved(After(force, scd, isTrained, bits), Size(force)) ELSE 0
  /\ pics' = P!PopPic(P!GotPic(Put(force)))
  /\ gop' = [Popped(force) EXCEPT !.forced = @ /\ ~isTrained]
  /\ budget' = [After(force, scd, isTrained, bits) EXCEPT !.bits = @ - toSaved]
  /\ saved' = saved + toSaved
  /\ second' = NextFrame(second)
  /\ mode = "CBR" => CbrUpdate(bits, isTrained)
  /\ mode # "CBR" => VbvUpdate(bits, isTrained)
  /\ balance' = balance + (budget.perFrame + ErrorBits(second)) - bits
  /\ unpaid' = unpaid + (budget.perFrame + ErrorBits(second))
                      - (IF second.due THEN second.bitRate ELSE 0)
  /\ clock' = IF Tick >= TicksPerSecond THEN Tick - TicksPerSecond ELSE Tick
  /\ UNCHANGED <<mode, rates, changes>>

\* A step that codes a picture is such a call.
LEMMA EncodeParts ==
  ASSUME NEW force \in BOOLEAN, NEW est, NEW miss, NEW scd, Encode(force, est, miss, scd)
  PROVE  \E isTrained \in BOOLEAN : \E bits, toSaved :
           Call(force, est, miss, scd, isTrained, bits, toSaved)
<1>1. PICK isTrained \in BOOLEAN :
        isTrained = ("I" \in trained /\ ("P" \in trained \/ Size(force) = 1))
  OBVIOUS
<1>2. PICK bits : bits = IF isTrained THEN Larger(Target(est) + miss, 0) ELSE est
  OBVIOUS
<1>3. PICK toSaved : toSaved = IF mode = "VBR" /\ Popped(force).last
                               THEN ToSaved(After(force, scd, isTrained, bits), Size(force))
                               ELSE 0
  OBVIOUS
<1>4. Call(force, est, miss, scd, isTrained, bits, toSaved)
  BY <1>1, <1>2, <1>3, Zenon
     DEF Encode, Call, After, Before, Put, Queried, Popped, Size, Tick
<1>5. QED
  BY <1>4

-----------------------------------------------------------------------------
(* Every count is a number, and every rate one of those asked for. *)

\* The types of rate control's state.
Counts == [i : Int, p : Int, fif : Nat, forced : BOOLEAN, last : BOOLEAN]
Budgets == [bits : Int, frames : Nat, gops : Int, perFrame : Nat]
Seconds == [now : Nat, whole : FrameRates, step : Nat, due : BOOLEAN,
            frameRate : FrameRates, accum : Int, bitRate : Nat]
CbrBuffers == [level : Int, size : Int, drain : Int, upper : Int]
VbvBuffers == [level : Int, size : Int, inflow : Nat, perFrame : Nat, second : Seconds]

Numbers ==
  /\ mode \in Modes /\ pics \in Pictures /\ gop \in Counts
  /\ budget \in Budgets /\ saved \in Int /\ second \in Seconds
  /\ rates \in [bit : BitRates, frame : FrameRates, source : FrameRates]
  /\ cbr \in CbrBuffers /\ vbv \in VbvBuffers
  /\ coded \in Nat /\ changes \in Nat
  /\ balance \in Int /\ unpaid \in Int /\ clock \in Nat
  /\ spilled \in Int /\ sunk \in Int

\* The rates and margins are numbers.
LEMMA RatesAreNumbers ==
  /\ \A f \in FrameRates : f \in Nat /\ f > 0
  /\ \A b \in BitRates : b \in Nat
  /\ \A e \in Estimates : e \in Nat
  /\ \A m \in Misses : m \in Int
  /\ First.bit \in BitRates /\ First.frame \in FrameRates
  /\ PeakRate \in Nat /\ Delay \in Nat /\ MaxBuffer \in Nat
  /\ TicksPerSecond \in Nat
BY RateControlAssumption

\* A quotient of numbers is a number.
LEMMA QuotientFacts ==
  ASSUME NEW a \in Nat, NEW b \in Nat \ {0}
  PROVE  a \div b \in Nat
OBVIOUS

\* A rate's share of a frame is a number of bits.
LEMMA PerFrameFacts ==
  ASSUME NEW b \in Nat, NEW f \in FrameRates
  PROVE  PerFrame(b, f) \in Nat
BY RateControlAssumption, QuotientFacts DEF PerFrame

\* After a frame, the error bits have its share, the second its duration, and the next
\* frame settles the second if this one ends it.
LEMMA NextFrameFacts ==
  ASSUME NEW e \in Seconds
  PROVE  /\ NextFrame(e) \in Seconds /\ ErrorBits(e) \in Int
         /\ NextFrame(e).accum = (IF e.due THEN 0 ELSE e.accum) + PerFrame(e.bitRate, e.frameRate)
         /\ NextFrame(e).now = IF e.now + e.step >= e.whole THEN (e.now + e.step) - e.whole
                                                            ELSE e.now + e.step
         /\ NextFrame(e).due <=> e.now + e.step >= e.whole
         /\ NextFrame(e).whole = e.whole /\ NextFrame(e).step = e.step
         /\ NextFrame(e).frameRate = e.frameRate /\ NextFrame(e).bitRate = e.bitRate
<1>1. /\ e.now \in Nat /\ e.step \in Nat /\ e.due \in BOOLEAN /\ e.accum \in Int
      /\ e.bitRate \in Nat /\ e.frameRate \in FrameRates /\ e.whole \in Nat
  BY RatesAreNumbers DEF Seconds
<1>2. PICK a \in Int : a = (IF e.due THEN 0 ELSE e.accum) + PerFrame(e.bitRate, e.frameRate)
  BY <1>1, PerFrameFacts
<1>3. PICK n \in Nat : n = IF e.now + e.step >= e.whole THEN (e.now + e.step) - e.whole
                                                        ELSE e.now + e.step
  BY <1>1
<1>4. PICK d : d = (e.now + e.step >= e.whole)
  OBVIOUS
<1>5. d \in BOOLEAN
  BY <1>4
<1>11. NextFrame(e) = [e EXCEPT !.accum = a, !.now = n, !.due = d]
  <2>1. NextFrame(e) =
          [e EXCEPT !.accum = (IF e.due THEN 0 ELSE e.accum) + PerFrame(e.bitRate, e.frameRate),
                    !.now = IF e.now + e.step >= e.whole THEN (e.now + e.step) - e.whole
                                                         ELSE e.now + e.step,
                    !.due = e.now + e.step >= e.whole]
    BY DEF NextFrame
  <2>2. QED
    BY <1>2, <1>3, <1>4, <2>1, Zenon
<1>6. [e EXCEPT !.accum = a, !.now = n, !.due = d] \in Seconds
  BY <1>5 DEF Seconds
<1>7. NextFrame(e) \in Seconds
  BY <1>11, <1>6
<1>8. /\ NextFrame(e).accum = a /\ NextFrame(e).now = n /\ NextFrame(e).due = d
      /\ NextFrame(e).whole = e.whole /\ NextFrame(e).step = e.step
      /\ NextFrame(e).frameRate = e.frameRate /\ NextFrame(e).bitRate = e.bitRate
  BY <1>11, <1>5 DEF Seconds
<1>9. ErrorBits(e) \in Int
  BY <1>1 DEF ErrorBits
<1>10. QED
  BY <1>2, <1>3, <1>4, <1>7, <1>8, <1>9

\* A second is well-formed when it starts and when the rates change in it.
LEMMA SecondFacts ==
  ASSUME NEW b \in Nat, NEW f \in FrameRates
  PROVE  /\ InitSecond(b, f) \in Seconds
         /\ \A e \in Seconds : ChangeSecond(e, b, f) \in Seconds
<1>1. f \in Nat \ {0}
  BY RatesAreNumbers
<1>2. InitSecond(b, f) \in Seconds
  BY <1>1 DEF InitSecond, Seconds
<1>3. ASSUME NEW e \in Seconds
      PROVE  ChangeSecond(e, b, f) \in Seconds
  <2>1. e.whole \in Nat
    BY RatesAreNumbers DEF Seconds
  <2>2. PICK n \in Nat : n = (e.whole * 1000) \div f
    BY <1>1, <2>1, QuotientFacts
  <2>3. [e EXCEPT !.bitRate = b, !.frameRate = f, !.step = n] \in Seconds
    BY DEF Seconds
  <2>4. QED
    BY <2>2, <2>3 DEF ChangeSecond
<1>4. QED
  BY <1>2, <1>3

\* The buffer of any rates is made of numbers.
LEMMA CbrBufferFacts ==
  ASSUME NEW level \in Int, NEW b \in Nat, NEW f \in FrameRates
  PROVE  CbrBuffer(level, b, f) \in CbrBuffers
<1>1. (b * Delay) \div 1000 \in Int
  BY RateControlAssumption, QuotientFacts
<1>2. PICK size \in Int : size = Smaller((b * Delay) \div 1000, MaxBuffer)
  BY <1>1, RateControlAssumption DEF Smaller
<1>3. size \div 8 \in Int /\ PerFrame(b, f) \in Int
  BY PerFrameFacts
<1>4. CbrBuffer(level, b, f) = [level |-> level, size |-> size, drain |-> PerFrame(b, f),
                                upper |-> size - size \div 8]
  BY <1>2 DEF CbrBuffer
<1>5. QED
  BY <1>3, <1>4 DEF CbrBuffers

\* A target is a number of bits.
LEMMA TargetFacts ==
  ASSUME Numbers, NEW est \in Int
  PROVE  Target(est) \in Int
<1>1. CbrTarget(est) \in Int
  BY DEF Numbers, CbrBuffers, CbrTarget, Larger
<1>2. VbrTarget(est) \in Int
  BY NextFrameFacts DEF Numbers, VbvBuffers, VbrTarget, VbvNext, Smaller
<1>3. QED
  BY <1>1, <1>2 DEF Target, Larger

-----------------------------------------------------------------------------
(* The bits left in the period, against the frames left in it. *)

\* What the bits exceed the share of the frames left by, with "left" frames left
\* in the GOP.
Surplus(b, left) == b.bits - b.perFrame * (left + (b.gops - 1) * b.frames)

\* Resizing the GOPs keeps the surplus: the GOP in progress is resized as well.
LEMMA ResizeFacts ==
  ASSUME NEW b \in Budgets, NEW size \in Nat
  PROVE  LET r == Resize(b, size) IN
         /\ r \in Budgets /\ r.frames = size /\ r.gops = b.gops /\ r.perFrame = b.perFrame
         /\ \A left \in Int : Surplus(r, left + (size - b.frames)) = Surplus(b, left)
<1> DEFINE r == Resize(b, size)
<1>1. b.bits \in Int /\ b.frames \in Nat /\ b.gops \in Int /\ b.perFrame \in Nat
  BY DEF Budgets
<1>2. PICK x : x = b.bits + b.gops * (size - b.frames) * b.perFrame
  OBVIOUS
<1>3. x \in Int
  BY <1>1, <1>2
<1>4. r = [b EXCEPT !.bits = x, !.frames = size]
  BY <1>2 DEF Resize
<1>5. [b EXCEPT !.bits = x, !.frames = size] \in Budgets
  BY <1>3 DEF Budgets
<1> HIDE DEF r
<1>6. r \in Budgets
  BY <1>4, <1>5
<1>7. r.bits = x /\ r.frames = size /\ r.gops = b.gops /\ r.perFrame = b.perFrame
  BY <1>4 DEF Budgets
<1>8. ASSUME NEW left \in Int
      PROVE  Surplus(r, left + (size - b.frames)) = Surplus(b, left)
  <2>1. PICK n \in Int, f \in Int, g \in Int, p \in Int :
          n = b.bits /\ f = b.frames /\ g = b.gops /\ p = b.perFrame
    BY <1>1
  <2>2. (n + g * (size - f) * p) - p * ((left + (size - f)) + (g - 1) * size)
          = n - p * (left + (g - 1) * f)
    OBVIOUS
  <2>3. x = n + g * (size - f) * p
    BY <1>2, <2>1
  <2>4. Surplus(r, left + (size - b.frames)) = x - p * ((left + (size - f)) + (g - 1) * size)
    BY <1>7, <2>1 DEF Surplus
  <2>5. Surplus(b, left) = n - p * (left + (g - 1) * f)
    BY <2>1 DEF Surplus
  <2>6. QED
    BY <2>2, <2>3, <2>4, <2>5
<1>9. QED
  BY <1>6, <1>7, <1>8 DEF r

\* Bits given are a surplus, once the GOPs have their size.
LEMMA GiveFacts ==
  ASSUME NEW b \in Budgets, NEW size \in Nat, NEW bits \in Int
  PROVE  LET r == Give(b, size, bits) IN
         /\ r \in Budgets /\ r.frames = size /\ r.gops = b.gops /\ r.perFrame = b.perFrame
         /\ \A left \in Int : Surplus(r, left + (size - b.frames)) = Surplus(b, left) + bits
<1> DEFINE r == Give(b, size, bits)
<1>1. PICK q : q = Resize(b, size)
  OBVIOUS
<1>2. /\ q \in Budgets /\ q.frames = size /\ q.gops = b.gops /\ q.perFrame = b.perFrame
      /\ \A left \in Int : Surplus(q, left + (size - b.frames)) = Surplus(b, left)
  BY <1>1, ResizeFacts
<1>3. r = [q EXCEPT !.bits = q.bits + bits]
  BY <1>1 DEF Give
<1>4. q.bits \in Int /\ q.frames \in Nat /\ q.gops \in Int /\ q.perFrame \in Nat
  BY <1>2 DEF Budgets
<1> HIDE DEF r
<1>5. PICK x \in Int : x = q.bits + bits
  BY <1>4
<1>6. [q EXCEPT !.bits = x] \in Budgets
  BY <1>2 DEF Budgets
<1>7. r \in Budgets
  BY <1>3, <1>5, <1>6
<1>8. r.bits = x /\ r.frames = q.frames /\ r.gops = q.gops /\ r.perFrame = q.perFrame
  BY <1>2, <1>3, <1>5 DEF Budgets
<1>9. ASSUME NEW left \in Int
      PROVE  Surplus(r, left) = Surplus(q, left) + bits
  <2>1. PICK share \in Int : share = q.perFrame * (left + (q.gops - 1) * q.frames)
    BY <1>4
  <2>2. Surplus(q, left) = q.bits - share /\ Surplus(r, left) = (q.bits + bits) - share
    BY <1>5, <1>8, <2>1 DEF Surplus
  <2>3. QED
    BY <1>4, <2>2
<1>10. ASSUME NEW left \in Int
       PROVE  Surplus(r, left + (size - b.frames)) = Surplus(b, left) + bits
  <2>1. left + (size - b.frames) \in Int
    BY DEF Budgets
  <2>2. Surplus(r, left + (size - b.frames)) = Surplus(q, left + (size - b.frames)) + bits
    BY <1>9, <2>1
  <2>3. QED
    BY <1>2, <2>2
<1>11. QED
  BY <1>2, <1>7, <1>8, <1>10 DEF r

\* A change of the rate, or of the GOPs in the period, keeps the surplus.
LEMMA ChangePeriodFacts ==
  ASSUME NEW b \in Budgets, NEW left \in Int, NEW perFrame \in Nat, NEW gops \in Int
  PROVE  LET r == ChangePeriod(b, left, perFrame, gops) IN
         /\ r \in Budgets /\ r.frames = b.frames /\ r.gops = gops /\ r.perFrame = perFrame
         /\ Surplus(r, left) = Surplus(b, left)
<1> DEFINE r == ChangePeriod(b, left, perFrame, gops)
<1>1. PICK n \in Int, f \in Nat, g \in Int, p \in Nat :
        n = b.bits /\ f = b.frames /\ g = b.gops /\ p = b.perFrame
  BY DEF Budgets
<1>2. PICK x \in Int : x = n + (perFrame - p) * ((g - 1) * f + left) + (gops - g) * f * perFrame
  OBVIOUS
<1>3. r = [b EXCEPT !.bits = x, !.gops = gops, !.perFrame = perFrame]
  BY <1>1, <1>2 DEF ChangePeriod
<1>4. [b EXCEPT !.bits = x, !.gops = gops, !.perFrame = perFrame] \in Budgets
  BY DEF Budgets
<1> HIDE DEF r
<1>5. r \in Budgets
  BY <1>3, <1>4
<1>6. r.bits = x /\ r.frames = f /\ r.gops = gops /\ r.perFrame = perFrame
  BY <1>1, <1>3 DEF Budgets
<1>7. Surplus(r, left) = x - perFrame * (left + (gops - 1) * f)
  BY <1>6 DEF Surplus
<1>8. Surplus(b, left) = n - p * (left + (g - 1) * f)
  BY <1>1 DEF Surplus
<1>9. x - perFrame * (left + (gops - 1) * f) = n - p * (left + (g - 1) * f)
  BY <1>2
<1>10. QED
  BY <1>1, <1>5, <1>6, <1>7, <1>8, <1>9 DEF r

\* The frames left count for their share.
LEMMA SurplusOfFrames ==
  ASSUME NEW b \in Budgets, NEW left \in Int, NEW more \in Int
  PROVE  /\ Surplus(b, left) \in Int
         /\ Surplus(b, left + more) = Surplus(b, left) - b.perFrame * more
<1>1. PICK n \in Int, f \in Nat, g \in Int, p \in Nat :
        n = b.bits /\ f = b.frames /\ g = b.gops /\ p = b.perFrame
  BY DEF Budgets
<1>2. \A l \in Int : Surplus(b, l) = n - p * (l + (g - 1) * f)
  BY <1>1 DEF Surplus
<1>3. n - p * ((left + more) + (g - 1) * f) = (n - p * (left + (g - 1) * f)) - p * more
  OBVIOUS
<1>4. n - p * (left + (g - 1) * f) \in Int /\ left + more \in Int
  OBVIOUS
<1>5. QED
  BY <1>1, <1>2, <1>3, <1>4

\* A change of the GOPs in the period at the same rate keeps the surplus for any
\* number of frames left.
LEMMA ChangeGopsFacts ==
  ASSUME NEW b \in Budgets, NEW left \in Int, NEW gops \in Int
  PROVE  LET r == ChangePeriod(b, left, b.perFrame, gops) IN
         /\ r \in Budgets /\ r.frames = b.frames /\ r.gops = gops /\ r.perFrame = b.perFrame
         /\ \A l \in Int : Surplus(r, l) = Surplus(b, l)
<1> DEFINE r == ChangePeriod(b, left, b.perFrame, gops)
<1>1. b.perFrame \in Nat
  BY DEF Budgets
<1>2. /\ r \in Budgets /\ r.frames = b.frames /\ r.gops = gops /\ r.perFrame = b.perFrame
      /\ Surplus(r, left) = Surplus(b, left)
  BY <1>1, ChangePeriodFacts
<1> HIDE DEF r
<1>3. ASSUME NEW l \in Int
      PROVE  Surplus(r, l) = Surplus(b, l)
  <2>1. PICK more \in Int : l = left + more
    <3>1. l = left + (l - left) /\ l - left \in Int
      OBVIOUS
    <3>2. QED
      BY <3>1
  <2>2. Surplus(r, left + more) = Surplus(r, left) - r.perFrame * more
    BY <1>2, SurplusOfFrames
  <2>3. Surplus(b, left + more) = Surplus(b, left) - b.perFrame * more
    BY SurplusOfFrames
  <2>4. QED
    BY <1>2, <2>1, <2>2, <2>3
<1>4. QED
  BY <1>2, <1>3 DEF r

\* The bits of a frame: at the end of a GOP, the next one's frames come with them.
LEMMA AfterFrameFacts ==
  ASSUME NEW b \in Budgets, NEW g \in Counts, NEW size \in Nat, NEW bits \in Int,
         NEW scd \in BOOLEAN, NEW left \in Int, g.last => left + (size - b.frames) = 0
  PROVE  LET r == AfterFrame(b, g, size, bits, scd) IN
         /\ r \in Budgets /\ r.frames = size /\ r.perFrame = b.perFrame
         /\ Surplus(r, IF g.last THEN size ELSE left + (size - b.frames))
              = Surplus(b, left) + bits
<1> DEFINE r == AfterFrame(b, g, size, bits, scd)
<1>1. PICK l \in Int, p \in Nat :
        /\ l = left + (size - b.frames)
        /\ p = b.perFrame
  BY DEF Budgets
<1>2. PICK more \in Int : more = g.i + g.p
  BY DEF Counts
<1>3. PICK used \in Budgets : /\ used = Give(b, size, bits)
                              /\ used.frames = size /\ used.perFrame = p
                              /\ Surplus(used, l) = Surplus(b, left) + bits
  BY <1>1, GiveFacts
<1>4. PICK wider \in Budgets :
        /\ wider = IF scd /\ used.gops < 3
                   THEN ChangePeriod(used, more, used.perFrame, used.gops + 2) ELSE used
        /\ wider.frames = size /\ wider.perFrame = p /\ Surplus(wider, l) = Surplus(used, l)
  <2>1. PICK n \in Int : n = used.gops + 2
    BY DEF Budgets
  <2>2. PICK w : w = ChangePeriod(used, more, used.perFrame, n)
    OBVIOUS
  <2>3. /\ w \in Budgets /\ w.frames = used.frames /\ w.perFrame = used.perFrame
        /\ \A k \in Int : Surplus(w, k) = Surplus(used, k)
    <3>1. LET c == ChangePeriod(used, more, used.perFrame, n) IN
          /\ c \in Budgets /\ c.frames = used.frames /\ c.gops = n /\ c.perFrame = used.perFrame
          /\ \A k \in Int : Surplus(c, k) = Surplus(used, k)
      BY ChangeGopsFacts
    <3>2. QED
      BY <2>2, <3>1, Zenon
  <2>4. CASE scd /\ used.gops < 3
    BY <1>3, <2>1, <2>2, <2>3, <2>4
  <2>5. CASE ~(scd /\ used.gops < 3)
    BY <1>3, <2>5
  <2>6. QED
    BY <2>4, <2>5
<1>5. PICK narrower \in Budgets :
        /\ narrower = IF g.last /\ wider.gops > GopsInPeriod
                      THEN ChangePeriod(wider, more, wider.perFrame, wider.gops - 1) ELSE wider
        /\ narrower.frames = size /\ narrower.perFrame = p
        /\ Surplus(narrower, l) = Surplus(wider, l)
  <2>1. PICK n \in Int : n = wider.gops - 1
    BY DEF Budgets
  <2>2. PICK w : w = ChangePeriod(wider, more, wider.perFrame, n)
    OBVIOUS
  <2>3. /\ w \in Budgets /\ w.frames = wider.frames /\ w.perFrame = wider.perFrame
        /\ \A k \in Int : Surplus(w, k) = Surplus(wider, k)
    <3>1. LET c == ChangePeriod(wider, more, wider.perFrame, n) IN
          /\ c \in Budgets /\ c.frames = wider.frames /\ c.gops = n /\ c.perFrame = wider.perFrame
          /\ \A k \in Int : Surplus(c, k) = Surplus(wider, k)
      BY ChangeGopsFacts
    <3>2. QED
      BY <2>2, <3>1, Zenon
  <2>4. CASE g.last /\ wider.gops > GopsInPeriod
    BY <1>4, <2>1, <2>2, <2>3, <2>4
  <2>5. CASE ~(g.last /\ wider.gops > GopsInPeriod)
    BY <1>4, <2>5
  <2>6. QED
    BY <2>4, <2>5
<1>6. r = IF g.last THEN Give(narrower, size, narrower.perFrame * size) ELSE narrower
  BY <1>2, <1>3, <1>4, <1>5, Zenon DEF AfterFrame
<1> HIDE DEF r
<1>7. CASE ~g.last
  <2>1. r = narrower
    BY <1>6, <1>7
  <2>2. Surplus(narrower, l) = Surplus(b, left) + bits
    BY <1>3, <1>4, <1>5
  <2>3. (IF g.last THEN size ELSE left + (size - b.frames)) = l
    BY <1>1, <1>7
  <2>4. QED
    BY <1>1, <1>5, <2>1, <2>2, <2>3, Zenon DEF r
<1>8. CASE g.last
  <2>1. narrower.perFrame * size = p * size /\ p * size \in Int
    BY <1>5
  <2>9. PICK x \in Int : x = p * size
    BY <2>1
  <2>2. r = Give(narrower, size, x)
    BY <1>6, <1>8, <2>1, <2>9
  <2>3. /\ r \in Budgets /\ r.frames = size /\ r.perFrame = p
        /\ Surplus(r, size + (size - narrower.frames)) = Surplus(narrower, size) + x
    <3>1. size \in Int
      OBVIOUS
    <3>2. /\ Give(narrower, size, x) \in Budgets /\ Give(narrower, size, x).frames = size
          /\ Give(narrower, size, x).perFrame = narrower.perFrame
          /\ \A k \in Int : Surplus(Give(narrower, size, x), k + (size - narrower.frames))
                             = Surplus(narrower, k) + x
      BY GiveFacts
    <3>3. QED
      BY <1>5, <2>2, <3>1, <3>2, Zenon
  <2>4. Surplus(narrower, 0 + size) = Surplus(narrower, 0) - narrower.perFrame * size
    <3>1. size \in Int /\ 0 \in Int
      OBVIOUS
    <3>2. QED
      BY <3>1, SurplusOfFrames, Zenon
  <2>5. Surplus(narrower, 0) \in Int
    BY SurplusOfFrames
  <2>6. Surplus(r, size) = Surplus(narrower, 0)
    <3>1. size + (size - narrower.frames) = size /\ 0 + size = size
      BY <1>5
    <3>2. Surplus(r, size) = (Surplus(narrower, 0) - x) + x
      BY <2>1, <2>3, <2>4, <2>9, <3>1
    <3>3. QED
      BY <2>5, <3>2
  <2>7. Surplus(narrower, 0) = Surplus(b, left) + bits
    BY <1>1, <1>3, <1>4, <1>5, <1>8
  <2>8. (IF g.last THEN size ELSE left + (size - b.frames)) = size
    BY <1>8
  <2>10. QED
    BY <1>1, <2>3, <2>6, <2>7, <2>8, Zenon DEF r
<1>9. QED
  BY <1>7, <1>8 DEF r

-----------------------------------------------------------------------------
(* The counts for bit allocation. *)

\* A picture taken off the stack is taken down; after the last one the counts are
\* those of a GOP.
LEMMA PopGopFacts ==
  ASSUME NEW g \in Counts, NEW type, NEW p \in Int
  PROVE  LET r == PopGop(g, type, p)
             i == g.i - (IF type = "I" THEN 1 ELSE 0)
             q == g.p - (IF type = "P" THEN 1 ELSE 0)
             ends == i <= 0 /\ q <= 0 IN
         /\ r \in Counts /\ r.fif = g.fif /\ r.forced = g.forced
         /\ r.last = ends
         /\ r.i = IF ends THEN 1 ELSE i
         /\ r.p = IF ends THEN p ELSE q
<1>1. g.i \in Int /\ g.p \in Int /\ g.fif \in Nat /\ g.forced \in BOOLEAN
  BY DEF Counts
<1>2. PICK i \in Int : i = g.i - (IF type = "I" THEN 1 ELSE 0)
  BY <1>1
<1>3. PICK q \in Int : q = g.p - (IF type = "P" THEN 1 ELSE 0)
  BY <1>1
<1>4. i = IF type = "I" THEN g.i - 1 ELSE g.i
  BY <1>1, <1>2
<1>5. q = IF type = "P" THEN g.p - 1 ELSE g.p
  BY <1>1, <1>3
<1>6. PICK left : left = [g EXCEPT !.i = i, !.p = q, !.last = FALSE]
  OBVIOUS
<1>7. left \in Counts
  <2>1. [g EXCEPT !.i = i, !.p = q, !.last = FALSE] \in Counts
    BY DEF Counts
  <2>2. QED
    BY <1>6, <2>1
<1>8. left.i = i /\ left.p = q /\ left.last = FALSE /\ left.fif = g.fif /\ left.forced = g.forced
  BY <1>6 DEF Counts
<1>9. PopGop(g, type, p) = IF i <= 0 /\ q <= 0 THEN [left EXCEPT !.i = 1, !.p = p, !.last = TRUE]
                           ELSE left
  <2>1. left = [g EXCEPT !.i = IF type = "I" THEN g.i - 1 ELSE g.i,
                         !.p = IF type = "P" THEN g.p - 1 ELSE g.p, !.last = FALSE]
    BY <1>4, <1>5, <1>6, Zenon
  <2>2. PopGop(g, type, p) = IF left.i <= 0 /\ left.p <= 0
                             THEN [left EXCEPT !.i = 1, !.p = p, !.last = TRUE] ELSE left
    BY <2>1, Zenon DEF PopGop
  <2>3. QED
    BY <1>8, <2>2
<1>10. CASE i <= 0 /\ q <= 0
  <2>1. PICK r : r = PopGop(g, type, p)
    OBVIOUS
  <2>2. r = [left EXCEPT !.i = 1, !.p = p, !.last = TRUE]
    BY <1>9, <1>10, <2>1, Zenon
  <2>3. [left EXCEPT !.i = 1, !.p = p, !.last = TRUE] \in Counts
    <3>1. \A a \in Int, l \in BOOLEAN : [left EXCEPT !.i = a, !.p = p, !.last = l] \in Counts
      BY <1>7 DEF Counts
    <3>2. 1 \in Int /\ TRUE \in BOOLEAN
      OBVIOUS
    <3>3. QED
      BY <3>1, <3>2, Zenon
  <2>4. r.i = 1 /\ r.p = p /\ r.last = TRUE /\ r.fif = g.fif /\ r.forced = g.forced
    BY <1>7, <1>8, <2>2 DEF Counts
  <2>5. QED
    <3>1. r \in Counts
      BY <2>2, <2>3
    <3>2. QED
      BY <1>2, <1>3, <1>10, <2>1, <2>4, <3>1
<1>11. CASE ~(i <= 0 /\ q <= 0)
  <2>1. PopGop(g, type, p) = left
    BY <1>9, <1>11
  <2>2. QED
    BY <1>2, <1>3, <1>7, <1>8, <1>11, <2>1
<1>12. QED
  BY <1>10, <1>11

\* A forced I picture starts a GOP of the counts; a new interval changes the frames
\* left in the GOP.
LEMMA PutGopFacts ==
  ASSUME gop \in Counts, NEW before \in Pictures, NEW put \in Pictures
  PROVE  LET r == PutGop(before, put)
             opened == before.force /\ before.disp # 0
             change == IF before.disp >= 1 /\ ~before.force
                       THEN put.gop.p - before.gop.p ELSE 0 IN
         /\ r \in Counts
         /\ r.fif = IF opened THEN before.pCount + before.bCount + 1 ELSE gop.fif
         /\ r.forced = (gop.forced \/ opened)
         /\ r.i = IF opened THEN 1 ELSE gop.i
         /\ r.p = (IF opened THEN before.gop.p ELSE gop.p) + change
         /\ r.last = gop.last
<1>1. /\ before.buf \in Nat /\ before.disp \in Nat /\ before.force \in BOOLEAN
      /\ before.pCount \in Nat /\ before.bCount \in Nat
      /\ before.gop.p \in Nat /\ put.gop.p \in Nat
  BY DEF Pictures, Gops
<1>2. gop.i \in Int /\ gop.p \in Int /\ gop.fif \in Nat /\ gop.forced \in BOOLEAN
  BY DEF Counts
<1>3. P!NextType(before) = IF before.disp = 0 THEN "I" ELSE "P"
  BY <1>1, NextTypeIs
<1>4. P!ApplyForce(before).disp = IF before.force THEN 0 ELSE before.disp
  BY ForceFacts
<1>5. PICK opened \in BOOLEAN : opened = (before.force /\ before.disp # 0)
  BY <1>1
<1>6. (before.force /\ P!NextType(before) # "I") = opened
  BY <1>3, <1>5
<1>7. PICK change \in Int : change = IF before.disp >= 1 /\ ~before.force
                                     THEN put.gop.p - before.gop.p ELSE 0
  BY <1>1
<1>8. (IF P!ApplyForce(before).disp >= P!MaxInter - 1 THEN put.gop.p - before.gop.p ELSE 0)
        = change
  BY <1>1, <1>4, <1>7, NoBPictures
<1>9. PICK f \in Nat : f = IF opened THEN before.pCount + before.bCount + 1 ELSE gop.fif
  BY <1>1, <1>2
<1>10. PICK o \in BOOLEAN : o = (gop.forced \/ opened)
  BY <1>2
<1>11. PICK i \in Int : i = IF opened THEN 1 ELSE gop.i
  BY <1>2
<1>12. PICK p \in Int : p = (IF opened THEN before.gop.p ELSE gop.p) + change
  BY <1>1, <1>2
<1>13. PICK r : r = PutGop(before, put)
  OBVIOUS
<1>14. r = [gop EXCEPT !.fif = f, !.forced = o, !.i = i, !.p = p]
  <2>1. PutGop(before, put) =
          [gop EXCEPT !.fif = IF before.force /\ P!NextType(before) # "I"
                              THEN before.pCount + before.bCount + 1 ELSE gop.fif,
                      !.forced = gop.forced \/ (before.force /\ P!NextType(before) # "I"),
                      !.i = IF before.force /\ P!NextType(before) # "I" THEN 1 ELSE gop.i,
                      !.p = (IF before.force /\ P!NextType(before) # "I" THEN before.gop.p
                             ELSE gop.p)
                            + (IF P!ApplyForce(before).disp >= P!MaxInter - 1
                               THEN put.gop.p - before.gop.p ELSE 0)]
    BY Zenon DEF PutGop
  <2>2. QED
    BY <1>6, <1>8, <1>9, <1>10, <1>11, <1>12, <1>13, <2>1, Zenon
<1>15. [gop EXCEPT !.fif = f, !.forced = o, !.i = i, !.p = p] \in Counts
  BY DEF Counts
<1>16. r \in Counts
  BY <1>14, <1>15
<1>17. r.fif = f /\ r.forced = o /\ r.i = i /\ r.p = p /\ r.last = gop.last
  BY <1>14 DEF Counts
<1>18. QED
  BY <1>5, <1>7, <1>9, <1>10, <1>11, <1>12, <1>13, <1>16, <1>17

-----------------------------------------------------------------------------
(* The types are kept by every step. *)

\* The picture stack of a call, before and after the picture is put on it and taken
\* off it.
LEMMA BeforeFacts ==
  ASSUME pics \in Pictures, NEW force \in BOOLEAN
  PROVE  LET r == Before(force) IN
         /\ r \in Pictures /\ r.force = (pics.force \/ force)
         /\ r.disp = pics.disp /\ r.gop = pics.gop /\ r.newIntra = pics.newIntra
         /\ r.pCount = pics.pCount /\ r.bCount = pics.bCount /\ r.first = pics.first
         /\ r.refIdx = pics.refIdx /\ r.top = pics.top
<1>1. PICK r : r = Before(force)
  OBVIOUS
<1>2. CASE ~force
  BY <1>2 DEF Before, Pictures
<1>3. CASE force
  <2>1. r = [pics EXCEPT !.force = TRUE]
    BY <1>1, <1>3 DEF Before, P!SetForceI
  <2>2. [pics EXCEPT !.force = TRUE] \in Pictures
    BY DEF Pictures
  <2>3. /\ r.force = TRUE
        /\ r.disp = pics.disp /\ r.gop = pics.gop /\ r.newIntra = pics.newIntra
        /\ r.pCount = pics.pCount /\ r.bCount = pics.bCount /\ r.first = pics.first
        /\ r.refIdx = pics.refIdx /\ r.top = pics.top
    BY <2>1 DEF Pictures
  <2>4. r \in Pictures
    BY <2>1, <2>2
  <2>5. QED
    BY <1>1, <1>3, <2>3, <2>4
<1>4. QED
  BY <1>2, <1>3

\* Taking a picture from the stack moves its top and, after an I picture, forgets that
\* one was forced; the rest stays.
LEMMA PopPicFacts ==
  ASSUME NEW s \in Pictures
  PROVE  LET r == P!PopPic(P!GotPic(s)) IN
         /\ r \in Pictures /\ r.top = (s.top + 1) % 3
         /\ r.force = (s.force /\ P!TopPic(s).type # "I")
         /\ r.disp = s.disp /\ r.gop = s.gop /\ r.newIntra = s.newIntra
         /\ r.pCount = s.pCount /\ r.bCount = s.bCount /\ r.first = s.first
         /\ r.refIdx = s.refIdx
<1>1. s.top \in Int /\ s.force \in BOOLEAN
  BY DEF Pictures
<1>2. PICK f \in BOOLEAN : f = (s.force /\ P!TopPic(s).type # "I")
  BY <1>1
<1>3. PICK q : q = P!GotPic(s)
  OBVIOUS
<1>4. q = [s EXCEPT !.force = f]
  <2>1. CASE P!TopPic(s).type = "I"
    BY <1>2, <1>3, <2>1 DEF P!GotPic
  <2>2. CASE P!TopPic(s).type # "I"
    <3>1. [s EXCEPT !.force = s.force] = s
      BY DEF Pictures
    <3>2. QED
      BY <1>1, <1>2, <1>3, <2>2, <3>1 DEF P!GotPic
  <2>3. QED
    BY <2>1, <2>2
<1>5. [s EXCEPT !.force = f] \in Pictures
  BY DEF Pictures
<1>6. q \in Pictures
  BY <1>4, <1>5
<1>7. /\ q.force = f /\ q.top = s.top
      /\ q.disp = s.disp /\ q.gop = s.gop /\ q.newIntra = s.newIntra
      /\ q.pCount = s.pCount /\ q.bCount = s.bCount /\ q.first = s.first
      /\ q.refIdx = s.refIdx
  BY <1>4 DEF Pictures
<1>8. PICK t \in Int : t = (q.top + 1) % 3
  BY <1>1, <1>7
<1>9. PICK r : r = P!PopPic(q)
  OBVIOUS
<1>10. r = [q EXCEPT !.top = t]
  BY <1>8, <1>9, NoBPictures DEF P!PopPic
<1>11. [q EXCEPT !.top = t] \in Pictures
  BY <1>6 DEF Pictures
<1>12. r \in Pictures
  BY <1>10, <1>11
<1>13. /\ r.force = q.force /\ r.top = t
       /\ r.disp = q.disp /\ r.gop = q.gop /\ r.newIntra = q.newIntra
       /\ r.pCount = q.pCount /\ r.bCount = q.bCount /\ r.first = q.first
       /\ r.refIdx = q.refIdx
  BY <1>6, <1>10 DEF Pictures
<1>14. QED
  BY <1>2, <1>3, <1>7, <1>8, <1>9, <1>12, <1>13

\* The picture stack and the counts stay well-formed when a picture is put on and taken off.
LEMMA PutIsPictures ==
  ASSUME pics \in Pictures, gop \in Counts, NEW force \in BOOLEAN
  PROVE  /\ Put(force) \in Pictures /\ P!PopPic(P!GotPic(Put(force))) \in Pictures
         /\ Queried(force) \in Counts /\ Popped(force) \in Counts
         /\ Size(force) \in Nat
<1>1. Before(force) \in Pictures
  BY BeforeFacts
<1>2. P!ApplyForce(Before(force)) \in Pictures
  BY <1>1, ForceFacts
<1>3. Before(force).disp \in Nat
  BY <1>1 DEF Pictures
<1>4. P!ApplyIntra(P!ApplyForce(Before(force)), Before(force).disp) \in Pictures
  BY <1>2, <1>3, IntraFacts
<1>5. Put(force) \in Pictures
  BY <1>4, PutFacts DEF Put, P!AddPic
<1>6. P!PopPic(P!GotPic(Put(force))) \in Pictures
  BY <1>5, PopPicFacts
<1>7. Put(force).gop.p \in Nat
  BY <1>5 DEF Pictures, Gops
<1>8. Queried(force) \in Counts
  BY <1>1, <1>5, PutGopFacts DEF Queried
<1>9. Put(force).gop.p \in Int
  BY <1>7
<1>10. Popped(force) \in Counts
  BY <1>8, <1>9, PopGopFacts DEF Popped
<1>11. QED
  BY <1>5, <1>6, <1>7, <1>8, <1>10 DEF Size

\* What the saved bits gain is a number of bits.
LEMMA ToSavedFacts ==
  ASSUME Numbers, NEW b \in Budgets, NEW size \in Nat
  PROVE  ToSaved(b, size) \in Int
<1>1. b.bits \in Int /\ b.gops \in Int /\ vbv.perFrame \in Nat /\ saved \in Int
  BY DEF Numbers, Budgets, VbvBuffers
<1>2. PICK most \in Int : most = b.gops * size * vbv.perFrame
  BY <1>1
<1>3. ToSaved(b, size) = IF b.bits > most THEN b.bits - most
                         ELSE IF b.bits < 0 THEN b.bits
                         ELSE IF saved < 0 THEN -Smaller(saved, most - b.bits)
                         ELSE 0
  BY <1>2, Zenon DEF ToSaved
<1>4. Smaller(saved, most - b.bits) \in Int
  BY <1>1 DEF Smaller
<1>5. QED
  BY <1>1, <1>3, <1>4

\* The forced or resized budget is a budget.
LEMMA ForcedFacts ==
  ASSUME budget \in Budgets, NEW g \in Counts, NEW size \in Nat
  PROVE  /\ Forced(g, size) \in Budgets /\ Forced(g, size).frames = size
         /\ Forced(g, size).perFrame = budget.perFrame
         /\ \A left \in Int : Surplus(Forced(g, size), left + (size - budget.frames))
                               = Surplus(budget, left)
                                 + IF g.forced THEN budget.perFrame * g.fif ELSE 0
<1>1. PICK x \in Int : x = budget.perFrame * g.fif
  BY DEF Budgets, Counts
<1>2. CASE g.forced
  <2>1. Forced(g, size) = Give(budget, size, x)
    BY <1>1, <1>2 DEF Forced
  <2>2. LET r == Give(budget, size, x) IN
        /\ r \in Budgets /\ r.frames = size /\ r.gops = budget.gops
        /\ r.perFrame = budget.perFrame
        /\ \A left \in Int : Surplus(r, left + (size - budget.frames))
                               = Surplus(budget, left) + x
    BY GiveFacts
  <2>3. QED
    BY <1>1, <1>2, <2>1, <2>2, Zenon
<1>3. CASE ~g.forced
  <2>1. Forced(g, size) = Resize(budget, size)
    BY <1>3 DEF Forced
  <2>2. LET r == Resize(budget, size) IN
        /\ r \in Budgets /\ r.frames = size /\ r.gops = budget.gops
        /\ r.perFrame = budget.perFrame
        /\ \A left \in Int : Surplus(r, left + (size - budget.frames)) = Surplus(budget, left)
    BY ResizeFacts
  <2>3. ASSUME NEW left \in Int
        PROVE  Surplus(budget, left) + 0 = Surplus(budget, left)
    <3>1. 0 \in Int
      OBVIOUS
    <3>2. Surplus(budget, left) \in Int
      BY <3>1, SurplusOfFrames, Zenon
    <3>3. QED
      BY <3>2
  <2>4. QED
    BY <1>3, <2>1, <2>2, <2>3, Zenon
<1>4. QED
  BY <1>2, <1>3

\* The types hold at the start.
LEMMA NumbersInit == Init => Numbers
<1> SUFFICES ASSUME Init PROVE Numbers
  OBVIOUS
<1>1. PICK n \in Intervals :
        /\ pics = P!InitPicHandling(n)
        /\ gop = [i |-> 1, p |-> n - 1, fif |-> 0, forced |-> FALSE, last |-> FALSE]
        /\ budget = [bits |-> PerFrame(First.bit, First.frame) * n * GopsInPeriod, frames |-> n,
                     gops |-> GopsInPeriod, perFrame |-> PerFrame(First.bit, First.frame)]
  BY DEF Init
<1>2. n \in Nat \ {0}
  BY RateControlAssumption
<1>3. /\ First.bit \in Nat /\ First.bit \in BitRates /\ First.frame \in FrameRates
      /\ PeakRate \in Nat /\ MaxBuffer \in Nat
  BY RatesAreNumbers
<1>4. /\ PerFrame(First.bit, First.frame) \in Nat /\ PerFrame(PeakRate, First.frame) \in Nat
      /\ GopsInPeriod \in Int
  BY <1>3, PerFrameFacts DEF GopsInPeriod
<1>5. pics \in Pictures
  <2>1. [i \in P!Slots |-> [id |-> 0, type |-> "I"]] \in Stacks
    BY DEF Stacks, P!PicTypes
  <2>2. P!FindPicDistbn(n) \in Gops
    BY <1>2, DistbnFacts
  <2>3. "I" \in P!PicTypes /\ 2 \in P!Slots /\ 0 \in P!Slots
    BY NoBPictures DEF P!PicTypes
  <2>4. P!InitPicHandling(n) \in Pictures
    BY <2>1, <2>2, <2>3 DEF P!InitPicHandling, Pictures
  <2>5. QED
    BY <1>1, <2>4
<1>6. gop \in Counts
  BY <1>1, <1>2 DEF Counts
<1>7. budget \in Budgets
  <2>1. PICK x \in Int : x = PerFrame(First.bit, First.frame) * n * GopsInPeriod
    BY <1>2, <1>4
  <2>2. QED
    BY <1>1, <1>2, <1>4, <2>1 DEF Budgets
<1>8. second \in Seconds
  BY <1>3, SecondFacts DEF Init
<1>9. rates \in [bit : BitRates, frame : FrameRates, source : FrameRates]
  BY <1>3 DEF Init
<1>10. cbr \in CbrBuffers
  BY <1>3, CbrBufferFacts DEF Init
<1>11. vbv \in VbvBuffers
  <2>1. InitSecond(PeakRate, First.frame) \in Seconds
    BY <1>3, SecondFacts
  <2>2. vbv = [level |-> MaxBuffer, size |-> MaxBuffer,
               inflow |-> PerFrame(PeakRate, First.frame),
               perFrame |-> PerFrame(PeakRate, First.frame),
               second |-> InitSecond(PeakRate, First.frame)]
    BY DEF Init
  <2>3. QED
    BY <1>3, <1>4, <2>1, <2>2 DEF VbvBuffers
<1>12. /\ saved = 0 /\ coded = 0 /\ changes = 0 /\ balance = 0 /\ unpaid = 0 /\ clock = 0
       /\ spilled = 0 /\ sunk = 0 /\ mode \in Modes
  BY DEF Init
<1>13. QED
  BY <1>5, <1>6, <1>7, <1>8, <1>9, <1>10, <1>11, <1>12 DEF Numbers

\* A change of the rates: the period and the second get the new ones.
LEMMA ChangeAllocationFacts ==
  ASSUME Numbers, NEW b \in BitRates, NEW f \in FrameRates, NEW source \in FrameRates,
         ChangeAllocation(b, f, source)
  PROVE  /\ budget' \in Budgets /\ budget'.frames = budget.frames
         /\ budget'.perFrame = PerFrame(b, f)
         /\ Surplus(budget', gop.i + gop.p) = Surplus(budget, gop.i + gop.p)
         /\ second' = ChangeSecond(second, b, f) /\ second' \in Seconds
         /\ rates' = [bit |-> b, frame |-> f, source |-> source]
         /\ rates' \in [bit : BitRates, frame : FrameRates, source : FrameRates]
         /\ changes' = changes + 1
         /\ gop.forced => "untrained" \in Corners
         /\ UNCHANGED <<mode, pics, gop, saved, trained, coded, balance, unpaid, clock,
                         spilled, sunk>>
<1>1. b \in Nat
  BY RatesAreNumbers
<1>2. PerFrame(b, f) \in Nat
  BY <1>1, PerFrameFacts
<1>3. budget \in Budgets /\ gop.i + gop.p \in Int /\ budget.gops \in Int /\ second \in Seconds
  BY DEF Numbers, Counts, Budgets
<1>4. budget' = ChangePeriod(budget, gop.i + gop.p, PerFrame(b, f), budget.gops)
  BY DEF ChangeAllocation
<1>5. PICK left \in Int : left = gop.i + gop.p
  BY <1>3
<1>6. PICK share \in Nat, gops \in Int : share = PerFrame(b, f) /\ gops = budget.gops
  BY <1>2, <1>3
<1>10. LET r == ChangePeriod(budget, left, share, gops) IN
       /\ r \in Budgets /\ r.frames = budget.frames /\ r.gops = gops
       /\ r.perFrame = share
       /\ Surplus(r, left) = Surplus(budget, left)
  BY <1>3, ChangePeriodFacts
<1>7. /\ budget' \in Budgets /\ budget'.frames = budget.frames
      /\ budget'.perFrame = PerFrame(b, f)
      /\ Surplus(budget', gop.i + gop.p) = Surplus(budget, gop.i + gop.p)
  BY <1>4, <1>5, <1>6, <1>10, Zenon
<1>8. second' = ChangeSecond(second, b, f) /\ ChangeSecond(second, b, f) \in Seconds
  BY <1>1, <1>3, SecondFacts DEF ChangeAllocation
<1>9. QED
  BY <1>7, <1>8 DEF ChangeAllocation, history

\* The types are kept by a change of the rates.
LEMMA NumbersRates ==
  ASSUME Numbers,
         \/ \E b \in BitRates : SetBitRate(b)
         \/ \E f \in FrameRates : SetFrameRate(f) \/ PullDownRate(f)
  PROVE  Numbers'
<1>1. /\ rates.bit \in BitRates /\ rates.frame \in FrameRates /\ rates.source \in FrameRates
      /\ cbr \in CbrBuffers /\ vbv \in VbvBuffers /\ changes \in Nat
  BY DEF Numbers
<1>2. cbr.level \in Int /\ vbv.second \in Seconds
  BY <1>1 DEF CbrBuffers, VbvBuffers
<1>3. rates.bit \in Nat /\ PeakRate \in Nat
  BY <1>1, RatesAreNumbers
<1>4. ASSUME NEW b \in BitRates, NEW f \in FrameRates, NEW source \in FrameRates,
             ChangeAllocation(b, f, source), cbr' \in CbrBuffers, vbv' \in VbvBuffers
      PROVE  Numbers'
  <2>1. changes' \in Nat
    BY <1>1, <1>4, ChangeAllocationFacts
  <2>2. QED
    BY <1>4, <2>1, ChangeAllocationFacts DEF Numbers
<1>5. ASSUME NEW b \in BitRates, SetBitRate(b)
      PROVE  Numbers'
  <2>1. ChangeAllocation(b, rates.frame, rates.source)
    BY <1>5 DEF SetBitRate
  <2>2. b \in Nat
    BY RatesAreNumbers
  <2>3. cbr' \in CbrBuffers /\ vbv' = vbv
    BY <1>1, <1>2, <1>5, <2>2, CbrBufferFacts DEF SetBitRate
  <2>4. QED
    BY <1>1, <1>4, <2>1, <2>3
<1>6. ASSUME NEW f \in FrameRates, SetFrameRate(f)
      PROVE  Numbers'
  <2>1. ChangeAllocation(rates.bit, f, f)
    BY <1>6 DEF SetFrameRate
  <2>2. cbr' \in CbrBuffers
    BY <1>1, <1>2, <1>3, <1>6, CbrBufferFacts DEF SetFrameRate
  <2>3. PICK e \in Seconds : e = ChangeSecond(vbv.second, PeakRate, f)
    BY <1>2, <1>3, SecondFacts
  <2>4. PICK x \in Nat : x = PerFrame(PeakRate, f)
    BY <1>3, PerFrameFacts
  <2>5. vbv' = IF mode = "VBR" THEN [vbv EXCEPT !.inflow = x, !.second = e] ELSE vbv
    BY <1>6, <2>3, <2>4 DEF SetFrameRate
  <2>6. [vbv EXCEPT !.inflow = x, !.second = e] \in VbvBuffers
    BY <1>1 DEF VbvBuffers
  <2>7. vbv' \in VbvBuffers
    BY <1>1, <2>5, <2>6
  <2>8. QED
    BY <1>1, <1>4, <2>1, <2>2, <2>7
<1>7. ASSUME NEW f \in FrameRates, PullDownRate(f)
      PROVE  Numbers'
  <2>1. ChangeAllocation(rates.bit, f, rates.source)
    BY <1>7 DEF PullDownRate
  <2>2. PICK x \in Nat : x = PerFrame(PeakRate, f)
    BY <1>3, PerFrameFacts
  <2>3. vbv' = IF mode = "VBR" THEN [vbv EXCEPT !.perFrame = x] ELSE vbv
    BY <1>7, <2>2 DEF PullDownRate
  <2>4. [vbv EXCEPT !.perFrame = x] \in VbvBuffers
    BY <1>1 DEF VbvBuffers
  <2>5. vbv' \in VbvBuffers
    BY <1>1, <2>3, <2>4
  <2>6. cbr' = cbr
    BY <1>7 DEF PullDownRate
  <2>7. QED
    BY <1>1, <1>4, <2>1, <2>5, <2>6
<1>8. QED
  BY <1>5, <1>6, <1>7

\* The types are kept by a call of the encoder.
LEMMA NumbersEncode ==
  ASSUME Numbers, NEW force \in BOOLEAN, NEW scd \in BOOLEAN, NEW est \in Estimates,
         NEW miss \in Misses, Encode(force, est, miss, scd)
  PROVE  Numbers'
<1>1. /\ est \in Nat /\ miss \in Int
  BY RatesAreNumbers
<1>2. /\ pics \in Pictures /\ gop \in Counts /\ budget \in Budgets /\ second \in Seconds
      /\ rates.frame \in FrameRates /\ cbr \in CbrBuffers /\ vbv \in VbvBuffers
      /\ coded \in Nat /\ clock \in Nat /\ saved \in Int /\ balance \in Int /\ unpaid \in Int
      /\ spilled \in Int /\ sunk \in Int
  BY DEF Numbers
<1>3a. PICK isTrained \in BOOLEAN :
        \E bits, toSaved : Call(force, est, miss, scd, isTrained, bits, toSaved)
  BY EncodeParts
<1>3. PICK bits, toSaved : Call(force, est, miss, scd, isTrained, bits, toSaved)
  BY <1>3a
<1>4. /\ Put(force) \in Pictures /\ P!PopPic(P!GotPic(Put(force))) \in Pictures
      /\ Queried(force) \in Counts /\ Popped(force) \in Counts /\ Size(force) \in Nat
  BY <1>2, PutIsPictures
<1>5. bits \in Int
  BY <1>1, <1>3, TargetFacts DEF Larger, Call
<1>6. ErrorBits(second) \in Int /\ NextFrame(second) \in Seconds
  BY <1>2, NextFrameFacts
<1>7. PICK used \in Budgets :
        used = IF isTrained THEN Forced(Queried(force), Size(force)) ELSE budget
  <2>1. Forced(Queried(force), Size(force)) \in Budgets
    BY <1>2, <1>4, ForcedFacts
  <2>2. QED
    BY <1>2, <2>1
<1>8. PICK after \in Budgets :
        after = AfterFrame(used, Popped(force), Size(force), ErrorBits(second) - bits, scd)
  <2>1. PICK x \in Int : x = ErrorBits(second) - bits
    BY <1>5, <1>6
  <2>2. AfterFrame(used, Popped(force), Size(force), x, scd) \in Budgets
    <3>1. PICK left \in Int : left = used.frames - Size(force)
      BY <1>4 DEF Budgets
    <3>2. left + (Size(force) - used.frames) = 0
      BY <1>4, <3>1 DEF Budgets
    <3>3. LET r == AfterFrame(used, Popped(force), Size(force), x, scd) IN
          /\ r \in Budgets /\ r.frames = Size(force) /\ r.perFrame = used.perFrame
          /\ Surplus(r, IF Popped(force).last THEN Size(force)
                        ELSE left + (Size(force) - used.frames)) = Surplus(used, left) + x
      BY <1>4, <3>2, AfterFrameFacts
    <3>4. QED
      BY <3>3
  <2>3. QED
    BY <2>1, <2>2
<1>9. toSaved \in Int
  <2>1. ToSaved(after, Size(force)) \in Int
    BY <1>4, ToSavedFacts
  <2>2. toSaved = IF mode = "VBR" /\ Popped(force).last
                  THEN ToSaved(after, Size(force)) ELSE 0
    BY <1>3, <1>7, <1>8, Zenon DEF Call, After
  <2>3. QED
    BY <2>1, <2>2
<1>10. pics' \in Pictures
  BY <1>3, <1>4 DEF Call
<1>11. gop' \in Counts
  <2>1. PICK f \in BOOLEAN : f = (Popped(force).forced /\ ~isTrained)
    BY <1>4 DEF Counts
  <2>2. gop' = [Popped(force) EXCEPT !.forced = f]
    BY <1>3, <2>1, Zenon DEF Call
  <2>3. [Popped(force) EXCEPT !.forced = f] \in Counts
    BY <1>4 DEF Counts
  <2>4. QED
    BY <2>2, <2>3
<1>12. budget' \in Budgets
  <2>1. PICK x \in Int : x = after.bits - toSaved
    BY <1>9 DEF Budgets
  <2>2. budget' = [after EXCEPT !.bits = after.bits - toSaved]
    BY <1>3, <1>7, <1>8, Zenon DEF Call, After
  <2>3. [after EXCEPT !.bits = x] \in Budgets
    BY DEF Budgets
  <2>4. QED
    BY <2>1, <2>2, <2>3
<1>13. saved' \in Int /\ second' \in Seconds /\ coded' \in Nat
  BY <1>2, <1>3, <1>6, <1>9 DEF Call
<1>14. cbr' \in CbrBuffers /\ vbv' \in VbvBuffers /\ spilled' \in Int /\ sunk' \in Int
  <2>1. CASE mode = "CBR"
    <3>1. CbrUpdate(bits, isTrained)
      BY <1>3, <2>1 DEF Call
    <3>2. PICK level \in Int : level = Larger(cbr.level + bits - cbr.drain, 0)
      BY <1>2, <1>5 DEF CbrBuffers, Larger
    <3>3. PICK x \in Int : x = Smaller(level, cbr.size)
      BY <1>2 DEF CbrBuffers, Smaller
    <3>4. cbr' = [cbr EXCEPT !.level = x]
      BY <3>1, <3>2, <3>3, Zenon DEF CbrUpdate
    <3>5. [cbr EXCEPT !.level = x] \in CbrBuffers
      BY <1>2 DEF CbrBuffers
    <3>6. /\ vbv' = vbv /\ sunk' = sunk
          /\ spilled' = spilled + IF isTrained
                                  THEN Larger(level - cbr.size
                                              - Larger(cbr.level - cbr.size, 0), 0)
                                  ELSE 0
      BY <3>1, <3>2, Zenon DEF CbrUpdate
    <3>7. spilled' \in Int
      BY <1>2, <3>6 DEF CbrBuffers, Larger
    <3>8. QED
      BY <1>2, <3>4, <3>5, <3>6, <3>7
  <2>2. CASE mode # "CBR"
    <3>1. VbvUpdate(bits, isTrained)
      BY <1>3, <2>2 DEF Call
    <3>2. vbv.second \in Seconds /\ vbv.level \in Int /\ vbv.inflow \in Nat /\ vbv.size \in Int
      BY <1>2 DEF VbvBuffers
    <3>3. ErrorBits(vbv.second) \in Int /\ NextFrame(vbv.second) \in Seconds
      BY <3>2, NextFrameFacts
    <3>4. PICK x \in Int : x = VbvNext - bits
      BY <1>5, <3>2, <3>3 DEF VbvNext, Smaller
    <3>5. PICK e \in Seconds : e = NextFrame(vbv.second)
      BY <3>3
    <3>6. vbv' = [vbv EXCEPT !.level = x, !.second = e]
      BY <3>1, <3>4, <3>5, Zenon DEF VbvUpdate
    <3>7. [vbv EXCEPT !.level = x, !.second = e] \in VbvBuffers
      BY <1>2 DEF VbvBuffers
    <3>8. PICK next \in Int : next = VbvNext
      BY <3>2, <3>3 DEF VbvNext, Smaller
    <3>9. sunk' = IF isTrained THEN IF next < 0 THEN sunk ELSE 0
                  ELSE Larger(IF next < 0 THEN sunk ELSE 0, bits - next)
      BY <3>1, <3>8 DEF VbvUpdate
    <3>10. sunk' \in Int
      BY <1>2, <1>5, <3>9 DEF Larger
    <3>11. QED
      BY <1>2, <3>1, <3>6, <3>7, <3>10 DEF VbvUpdate
  <2>3. QED
    BY <2>1, <2>2
<1>15. balance' \in Int /\ unpaid' \in Int
  BY <1>2, <1>3, <1>5, <1>6 DEF Budgets, Seconds, Call
<1>16. clock' \in Nat
  <2>1. rates.frame \in Nat \ {0} /\ TicksPerSecond \in Nat
    BY <1>2, RatesAreNumbers
  <2>2. Tick \in Nat
    BY <1>2, <2>1, QuotientFacts DEF Tick
  <2>3. QED
    BY <1>3, <2>1, <2>2 DEF Call
<1>17. QED
  BY <1>3, <1>10, <1>11, <1>12, <1>13, <1>14, <1>15, <1>16 DEF Numbers, Call

\* The types are kept by every step.
LEMMA NumbersNext == Numbers /\ [Next]_vars => Numbers'
<1> SUFFICES ASSUME Numbers, [Next]_vars PROVE Numbers'
  OBVIOUS
<1>1. ASSUME NEW n \in Intervals, SetIntraInterval(n)
      PROVE  Numbers'
  <2>1. n \in Nat
    BY RateControlAssumption
  <2>2. pics' = [pics EXCEPT !.newIntra = n]
    BY <1>1 DEF SetIntraInterval, P!RegisterNewIntra
  <2>3. [pics EXCEPT !.newIntra = n] \in Pictures
    BY <2>1 DEF Numbers, Pictures
  <2>4. pics' \in Pictures
    BY <2>2, <2>3
  <2>5. QED
    BY <1>1, <2>4 DEF Numbers, SetIntraInterval, allocVars, history
<1>2. CASE UNCHANGED vars
  BY <1>2 DEF Numbers, vars, allocVars, history
<1>3. ASSUME NEW force \in BOOLEAN, NEW scd \in BOOLEAN, NEW est \in Estimates,
             NEW miss \in Misses, Encode(force, est, miss, scd)
      PROVE  Numbers'
  BY <1>3, NumbersEncode
<1>4. QED
  BY <1>1, <1>2, <1>3, NumbersRates DEF Next

\* Every variable of rate control keeps its type, for any rates, intervals, estimates and
\* misses (the state of irc_rate_control_api.c and the modules it calls).
THEOREM NumbersKept == Spec => []Numbers
BY NumbersInit, NumbersNext, PTL DEF Spec

-----------------------------------------------------------------------------
(* The seconds. *)

\* The share of a frame stays while pictures are coded, and the bits they take are
\* the surplus they leave; a forced I frame's bits come when the model is trained.
LEMMA AfterFacts ==
  ASSUME Numbers, NEW force \in BOOLEAN, NEW scd \in BOOLEAN, NEW isTrained \in BOOLEAN,
         NEW bits \in Int, NEW left \in Int,
         Popped(force).last => left + (Size(force) - budget.frames) = 0
  PROVE  LET r == After(force, scd, isTrained, bits) IN
         /\ r \in Budgets /\ r.frames = Size(force) /\ r.perFrame = budget.perFrame
         /\ Surplus(r, IF Popped(force).last THEN Size(force)
                       ELSE left + (Size(force) - budget.frames))
              = (Surplus(budget, left)
                 + IF isTrained /\ Queried(force).forced
                   THEN budget.perFrame * Queried(force).fif ELSE 0)
                + (ErrorBits(second) - bits)
<1>1. /\ budget \in Budgets /\ second \in Seconds /\ pics \in Pictures /\ gop \in Counts
  BY DEF Numbers
<1>2. /\ Queried(force) \in Counts /\ Popped(force) \in Counts /\ Size(force) \in Nat
  BY <1>1, PutIsPictures
<1>3. PICK x \in Int : x = ErrorBits(second) - bits
  BY <1>1, NextFrameFacts
<1>4. PICK size \in Nat : size = Size(force)
  BY <1>2
<1>5. PICK l \in Int : l = left + (size - budget.frames)
  BY <1>1 DEF Budgets
<1>6. PICK g \in Counts : g = Popped(force)
  BY <1>2
<1>7. g.last => l = 0
  BY <1>4, <1>5, <1>6
<1>8. PICK more : more = IF isTrained /\ Queried(force).forced
                         THEN budget.perFrame * Queried(force).fif ELSE 0
  OBVIOUS
<1>9. CASE isTrained
  <2>1. PICK used \in Budgets : /\ used = Forced(Queried(force), size)
                                /\ used.frames = size /\ used.perFrame = budget.perFrame
                                /\ Surplus(used, left + (size - budget.frames))
                                     = Surplus(budget, left)
                                       + IF Queried(force).forced
                                         THEN budget.perFrame * Queried(force).fif ELSE 0
    BY <1>1, <1>2, ForcedFacts
  <2>2. l + (size - used.frames) = l
    BY <2>1
  <2>3. g.last => l + (size - used.frames) = 0
    BY <1>7, <2>2
  <2>4. PICK r : r = AfterFrame(used, g, size, x, scd)
    OBVIOUS
  <2>5. LET q == AfterFrame(used, g, size, x, scd) IN
        /\ q \in Budgets /\ q.frames = size /\ q.perFrame = used.perFrame
        /\ Surplus(q, IF g.last THEN size ELSE l + (size - used.frames))
             = Surplus(used, l) + x
    BY <2>3, AfterFrameFacts
  <2>6. Surplus(used, l) = Surplus(budget, left) + more
    BY <1>5, <1>8, <1>9, <2>1
  <2>7. r = After(force, scd, isTrained, bits)
    BY <1>3, <1>4, <1>6, <1>9, <2>1, <2>4 DEF After
  <2>8. Surplus(r, IF g.last THEN size ELSE l) = (Surplus(budget, left) + more) + x
    BY <2>2, <2>4, <2>5, <2>6
  <2>9. r \in Budgets /\ r.frames = size /\ r.perFrame = budget.perFrame
    BY <2>1, <2>4, <2>5
  <2>10. QED
    BY <1>3, <1>4, <1>5, <1>6, <1>8, <2>7, <2>8, <2>9, Zenon
<1>10. CASE ~isTrained
  <2>1. LET q == AfterFrame(budget, g, size, x, scd) IN
        /\ q \in Budgets /\ q.frames = size /\ q.perFrame = budget.perFrame
        /\ Surplus(q, IF g.last THEN size ELSE left + (size - budget.frames))
             = Surplus(budget, left) + x
    BY <1>1, <1>5, <1>7, AfterFrameFacts
  <2>2. PICK r : r = AfterFrame(budget, g, size, x, scd)
    OBVIOUS
  <2>3. r = After(force, scd, isTrained, bits)
    BY <1>3, <1>4, <1>6, <1>10, <2>2 DEF After
  <2>4. more = 0 /\ 0 \in Int
    BY <1>8, <1>10
  <2>5. Surplus(budget, left) \in Int
    BY <1>1, <2>4, SurplusOfFrames, Zenon
  <2>6. Surplus(budget, left) + more = Surplus(budget, left)
    BY <2>4, <2>5
  <2>7. Surplus(r, IF g.last THEN size ELSE l) = (Surplus(budget, left) + more) + x
    BY <1>5, <2>1, <2>2, <2>6, Zenon
  <2>8. QED
    BY <1>3, <1>4, <1>5, <1>6, <1>8, <2>1, <2>2, <2>3, <2>7, Zenon
<1>11. QED
  BY <1>9, <1>10

\* Numbers that agree when multiplied by a number other than zero agree.
LEMMA Cancel ==
  ASSUME NEW f \in Nat \ {0}, NEW a \in Int, NEW b \in Int, f * a = f * b
  PROVE  a = b
<1>1. f * (a - b) = 0
  OBVIOUS
<1>2. QED
  BY <1>1

\* What the error bits and the rates have to do with each other: the second is
\* counted in frames of the first rate, and a frame's duration is that of the
\* current one.
Settled ==
  /\ SecondsPaid
  /\ second.whole = First.frame /\ second.step * rates.frame = First.frame * 1000
  /\ second.bitRate = rates.bit /\ second.frameRate = rates.frame
  /\ budget.perFrame = PerFrame(rates.bit, rates.frame)

\* The first second begins with nothing to settle.
LEMMA SettledInit == Init => Settled
<1> SUFFICES ASSUME Init PROVE Settled
  OBVIOUS
<1>1. /\ First.frame \in Nat /\ First.bit \in Nat /\ TicksPerSecond \in Nat
  BY RatesAreNumbers
<1>2. /\ second = [now |-> 0, whole |-> First.frame, step |-> 1000, due |-> FALSE,
                   frameRate |-> First.frame, accum |-> 0, bitRate |-> First.bit]
      /\ rates = [bit |-> First.bit, frame |-> First.frame, source |-> First.frame]
      /\ budget.perFrame = PerFrame(First.bit, First.frame)
      /\ unpaid = 0 /\ clock = 0
  <2>1. /\ second = InitSecond(First.bit, First.frame)
        /\ rates = [bit |-> First.bit, frame |-> First.frame, source |-> First.frame]
        /\ unpaid = 0 /\ clock = 0
    BY DEF Init
  <2>2. PICK n \in Intervals :
          budget = [bits |-> PerFrame(First.bit, First.frame) * n * GopsInPeriod, frames |-> n,
                    gops |-> GopsInPeriod, perFrame |-> PerFrame(First.bit, First.frame)]
    BY DEF Init
  <2>3. QED
    BY <2>1, <2>2 DEF InitSecond
<1>3. /\ unpaid = second.accum /\ second.now = 0 /\ second.whole = First.frame
      /\ second.step = 1000 /\ rates.frame = First.frame
  BY <1>2
<1>4. SecondsPaid
  <2>1. unpaid = second.accum
    BY <1>2
  <2>2. second.now * TicksPerSecond = clock * second.whole
    BY <1>1, <1>2, <1>3
  <2>3. QED
    BY <2>1, <2>2 DEF SecondsPaid
<1>5. second.step * rates.frame = First.frame * 1000
  BY <1>1, <1>3
<1>6. QED
  BY <1>2, <1>3, <1>4, <1>5 DEF Settled

\* A new rate changes the duration of a frame, not the second.
LEMMA SettledRates ==
  ASSUME Numbers, Settled, NEW b \in BitRates, NEW f \in FrameRates, NEW source \in FrameRates,
         ChangeAllocation(b, f, source)
  PROVE  Settled'
<1>1. second \in Seconds /\ f \in Nat \ {0} /\ First.frame \in Nat
  BY RatesAreNumbers DEF Numbers
<1>2. /\ second' = ChangeSecond(second, b, f)
      /\ rates' = [bit |-> b, frame |-> f, source |-> source]
      /\ unpaid' = unpaid /\ clock' = clock
  BY ChangeAllocationFacts
<1>3. budget'.perFrame = PerFrame(b, f)
  BY ChangeAllocationFacts
<1>4. PICK n : n = (First.frame * 1000) \div f
  OBVIOUS
<1>5. second' = [second EXCEPT !.bitRate = b, !.frameRate = f, !.step = n]
  BY <1>2, <1>4 DEF ChangeSecond, Settled
<1>6. /\ second'.bitRate = b /\ second'.frameRate = f /\ second'.step = n
      /\ second'.now = second.now /\ second'.whole = second.whole
      /\ second'.accum = second.accum
  BY <1>1, <1>5 DEF Seconds
<1>7. n * f = First.frame * 1000
  <2>1. PICK x \in Nat : x = First.frame * 1000
    BY <1>1
  <2>2. x % f = 0
    BY <2>1, RateControlAssumption
  <2>3. (x \div f) * f = x
    BY <1>1, <2>2
  <2>4. QED
    BY <1>4, <2>1, <2>3
<1>8. QED
  BY <1>2, <1>3, <1>6, <1>7 DEF Settled, SecondsPaid

\* A coded frame is paid its share, and a second settled when it ends.
LEMMA SettledEncode ==
  ASSUME Numbers, Settled, NEW force \in BOOLEAN, NEW scd \in BOOLEAN, NEW est \in Estimates,
         NEW miss \in Misses, Encode(force, est, miss, scd)
  PROVE  Settled'
<1>1. /\ second \in Seconds /\ rates.frame \in Nat \ {0} /\ First.frame \in Nat \ {0}
      /\ TicksPerSecond \in Nat /\ clock \in Nat /\ unpaid \in Int /\ budget \in Budgets
  BY RatesAreNumbers DEF Numbers
<1>2a. PICK isTrained \in BOOLEAN :
        \E bits, toSaved : Call(force, est, miss, scd, isTrained, bits, toSaved)
  BY EncodeParts
<1>2. PICK bits, toSaved : Call(force, est, miss, scd, isTrained, bits, toSaved)
  BY <1>2a
<1>3. /\ second' = NextFrame(second) /\ UNCHANGED rates
      /\ unpaid' = unpaid + (budget.perFrame + ErrorBits(second))
                          - (IF second.due THEN second.bitRate ELSE 0)
      /\ clock' = IF Tick >= TicksPerSecond THEN Tick - TicksPerSecond ELSE Tick
      /\ budget' = [After(force, scd, isTrained, bits) EXCEPT !.bits = @ - toSaved]
      /\ bits = IF isTrained THEN Larger(Target(est) + miss, 0) ELSE est
  BY <1>2 DEF Call
<1>4. /\ second.now \in Nat /\ second.step \in Nat /\ second.accum \in Int
      /\ second.bitRate \in Nat /\ second.frameRate \in FrameRates
  BY <1>1 DEF Seconds
<1>5. budget'.perFrame = budget.perFrame
  <2>1. est \in Nat /\ miss \in Int
    BY RatesAreNumbers
  <2>2. bits \in Int
    BY <1>3, <2>1, TargetFacts DEF Larger
  <2>3. Size(force) \in Nat
    BY PutIsPictures DEF Numbers
  <2>4. PICK left \in Int : left = budget.frames - Size(force)
    BY <1>1, <2>3 DEF Budgets
  <2>5. left + (Size(force) - budget.frames) = 0
    BY <1>1, <2>3, <2>4 DEF Budgets
  <2>6. /\ After(force, scd, isTrained, bits) \in Budgets
        /\ After(force, scd, isTrained, bits).perFrame = budget.perFrame
    BY <2>2, <2>5, AfterFacts
  <2>7. QED
    BY <1>3, <2>6 DEF Budgets
<1>6. /\ second'.accum = (IF second.due THEN 0 ELSE second.accum)
                         + PerFrame(second.bitRate, second.frameRate)
      /\ second'.now = IF second.now + second.step >= second.whole
                       THEN (second.now + second.step) - second.whole
                       ELSE second.now + second.step
      /\ second'.whole = second.whole /\ second'.step = second.step
      /\ second'.frameRate = second.frameRate /\ second'.bitRate = second.bitRate
  BY <1>1, <1>3, NextFrameFacts
<1>7. unpaid' = second'.accum
  <2>1. PICK share \in Nat : /\ share = budget.perFrame
                             /\ share = PerFrame(second.bitRate, second.frameRate)
    BY <1>1 DEF Settled, Budgets
  <2>2. unpaid = second.accum
    BY DEF Settled, SecondsPaid
  <2>3. CASE second.due
    <3>1. second'.accum = share
      BY <1>6, <2>1, <2>3
    <3>2. unpaid' = unpaid + (share + (second.bitRate - second.accum)) - second.bitRate
      BY <1>3, <2>1, <2>3 DEF ErrorBits
    <3>3. QED
      BY <1>1, <1>4, <2>2, <3>1, <3>2
  <2>4. CASE ~second.due
    <3>1. second'.accum = second.accum + share
      BY <1>6, <2>1, <2>4
    <3>2. unpaid' = unpaid + (share + 0) - 0
      BY <1>3, <2>1, <2>4 DEF ErrorBits
    <3>3. QED
      BY <1>1, <1>4, <2>2, <3>1, <3>2
  <2>5. QED
    BY <2>3, <2>4
<1>8. second'.now * TicksPerSecond = clock' * second'.whole
  <2>1. PICK t \in Nat, w \in Nat \ {0}, f \in Nat \ {0} :
          t = TicksPerSecond /\ w = First.frame /\ f = rates.frame
    BY <1>1
  <2>2. PICK ticks \in Nat : ticks = (t * 1000) \div f
    BY QuotientFacts
  <2>3. ticks * f = t * 1000
    <3>1. PICK x \in Nat : x = t * 1000
      OBVIOUS
    <3>2. rates.frame \in FrameRates
      BY DEF Numbers
    <3>3. x % f = 0
      BY <2>1, <3>1, <3>2, RateControlAssumption
    <3>4. (x \div f) * f = x
      BY <3>3
    <3>5. QED
      BY <2>2, <3>1, <3>4
  <2>4. PICK now \in Nat, step \in Nat, c \in Nat : now = second.now /\ step = second.step
                                                    /\ c = clock
    BY <1>1, <1>4
  <2>5. now * t = c * w /\ second.whole = w /\ step * f = w * 1000
    BY <2>1, <2>4 DEF Settled, SecondsPaid
  <2>6. step * t = ticks * w
    <3>1. f * (step * t) = (step * f) * t /\ f * (ticks * w) = (ticks * f) * w
      OBVIOUS
    <3>2. (w * 1000) * t = (t * 1000) * w
      OBVIOUS
    <3>3. f * (step * t) = f * (ticks * w)
      BY <2>3, <2>5, <3>1, <3>2
    <3>4. PICK a \in Int, b \in Int : a = step * t /\ b = ticks * w
      OBVIOUS
    <3>5. QED
      BY <3>3, <3>4, Cancel
  <2>7. PICK after \in Nat, tick \in Nat : after = now + step /\ tick = c + ticks
    OBVIOUS
  <2>8. after * t = tick * w
    BY <2>5, <2>6, <2>7
  <2>9. Tick = tick
    BY <2>1, <2>2, <2>4, <2>7 DEF Tick
  <2>10. second'.now = IF after >= w THEN after - w ELSE after
    BY <1>6, <2>4, <2>5, <2>7
  <2>11. clock' = IF tick >= t THEN tick - t ELSE tick
    BY <1>3, <2>1, <2>9
  <2>12. CASE t = 0
    <3>1. tick * w = 0
      BY <2>8, <2>12
    <3>2. tick = 0
      BY <3>1
    <3>3. clock' = 0
      BY <2>11, <2>12, <3>2
    <3>4. second'.now \in Int
      BY <2>10
    <3>5. QED
      BY <1>6, <2>1, <2>5, <2>12, <3>3, <3>4
  <2>13. CASE t > 0
    <3>1. after >= w <=> tick >= t
      <4>1. ASSUME after >= w
            PROVE  tick >= t
        <5>1. after * t >= w * t
          BY <4>1
        <5>2. tick * w >= t * w
          BY <2>8, <5>1
        <5>3. QED
          BY <5>2
      <4>2. ASSUME tick >= t
            PROVE  after >= w
        <5>1. tick * w >= t * w
          BY <4>2
        <5>2. after * t >= w * t
          BY <2>8, <5>1
        <5>3. QED
          BY <2>13, <5>2
      <4>3. QED
        BY <4>1, <4>2
    <3>2. CASE after >= w
      <4>1. (after - w) * t = (tick - t) * w
        BY <2>8
      <4>2. QED
        BY <1>6, <2>1, <2>5, <2>10, <2>11, <3>1, <3>2, <4>1
    <3>3. CASE ~(after >= w)
      BY <1>6, <2>1, <2>5, <2>8, <2>10, <2>11, <3>1, <3>3
    <3>4. QED
      BY <3>2, <3>3
  <2>14. QED
    BY <2>12, <2>13
<1>9. QED
  BY <1>3, <1>5, <1>6, <1>7, <1>8 DEF Settled, SecondsPaid

\* Every step keeps the seconds settled.
LEMMA SettledNext == Numbers /\ Settled /\ [Next]_vars => Settled'
<1> SUFFICES ASSUME Numbers, Settled, [Next]_vars PROVE Settled'
  OBVIOUS
<1>1. rates.bit \in BitRates /\ rates.frame \in FrameRates /\ rates.source \in FrameRates
  BY DEF Numbers
<1>2. ASSUME NEW b \in BitRates, SetBitRate(b)
      PROVE  Settled'
  BY <1>1, <1>2, SettledRates DEF SetBitRate
<1>3. ASSUME NEW f \in FrameRates, SetFrameRate(f) \/ PullDownRate(f)
      PROVE  Settled'
  BY <1>1, <1>3, SettledRates DEF SetFrameRate, PullDownRate
<1>4. ASSUME NEW n \in Intervals, SetIntraInterval(n)
      PROVE  Settled'
  BY <1>4 DEF SetIntraInterval, allocVars, history, Settled, SecondsPaid
<1>5. CASE UNCHANGED vars
  BY <1>5 DEF vars, allocVars, history, Settled, SecondsPaid
<1>6. QED
  BY <1>2, <1>3, <1>4, <1>5, SettledEncode DEF Next

\* The error bits are settled once in every second of the coded frames, whatever the
\* frame rates are changed to on the way, and between two settlements the frames are
\* given their share and no more: irc_update_error_bits and irc_get_error_bits.
THEOREM SecondsArePaid == Spec => []SecondsPaid
<1>1. Spec => [](Numbers /\ Settled)
  BY NumbersInit, NumbersNext, SettledInit, SettledNext, PTL DEF Spec
<1>2. Settled => SecondsPaid
  BY DEF Settled
<1>3. QED
  BY <1>1, <1>2, PTL

-----------------------------------------------------------------------------
(* The buffers. *)

\* The margin the thresholds keep.  Constant bit rate: what a frame with a target misses
\* it by is no more than what drains in a frame, and the buffer takes a frame's drain and
\* a miss together.  VBR storage: a miss is no more than what flows in during a frame,
\* and a second holds a whole number of frames (with 29.97 of them the seconds take turns
\* in length, and the error bits of a long one take bits back).
CbrMargin ==
  \A b \in BitRates, f \in FrameRates, miss \in Misses :
    /\ miss <= CbrBuffer(0, b, f).drain
    /\ CbrBuffer(0, b, f).drain + miss <= CbrBuffer(0, b, f).size

VbvMargin ==
  /\ \A miss \in Misses : miss <= PerFrame(PeakRate, First.frame)
  /\ First.frame % 1000 = 0

Margins ==
  /\ "CBR" \in Modes => CbrMargin
  /\ "VBR" \in Modes => VbvMargin
  /\ Misses # {}

\* The CBR buffer is that of the current rates; a lower one may have left more in it
\* than its size.
CbrHolds ==
  mode = "CBR" => cbr = CbrBuffer(cbr.level, rates.bit, rates.source) /\ 0 <= cbr.level

\* The error bits of the decoder's buffer are those of the frames of the second.
Elapsed(e) == IF e.due THEN e.whole ELSE e.now

WholeSeconds(e) ==
  /\ e.whole = First.frame /\ e.step = 1000 /\ e.frameRate = First.frame
  /\ e.bitRate = PeakRate
  /\ e.now % 1000 = 0 /\ e.now < e.whole /\ (e.due => e.now = 0)
  /\ e.accum * 1000 = PerFrame(PeakRate, First.frame) * Elapsed(e)

Lacks == \E miss \in Misses : vbv.level >= -Larger(miss, sunk)

VbvHolds ==
  changes = 0 => /\ Lacks
                 /\ mode = "VBR" => /\ vbv.size = MaxBuffer
                                    /\ vbv.inflow = PerFrame(PeakRate, First.frame)
                                    /\ WholeSeconds(vbv.second)

BuffersInv == spilled = 0 /\ CbrHolds /\ VbvHolds

\* The sizes of a rate's buffer are numbers, whatever is in it.
LEMMA SizeFacts ==
  ASSUME NEW level \in Int, NEW b \in Nat, NEW f \in FrameRates
  PROVE  LET c == CbrBuffer(level, b, f) IN
         /\ c.level = level /\ c.size \in Nat /\ c.upper \in Int /\ c.upper <= c.size
         /\ c.drain = PerFrame(b, f) /\ c.drain \in Nat
         /\ c.size = CbrBuffer(0, b, f).size /\ c.drain = CbrBuffer(0, b, f).drain
<1>1. Delay \in Nat /\ MaxBuffer \in Nat
  BY RatesAreNumbers
<1>2. PICK r \in Nat : r = (b * Delay) \div 1000
  BY <1>1, QuotientFacts
<1>3. PICK size \in Nat : size = Smaller(r, MaxBuffer)
  BY <1>1 DEF Smaller
<1>4. PICK c : c = CbrBuffer(level, b, f)
  OBVIOUS
<1>5. /\ c.level = level /\ c.size = size /\ c.drain = PerFrame(b, f)
      /\ c.upper = size - size \div 8
  BY <1>2, <1>3, <1>4 DEF CbrBuffer
<1>6. CbrBuffer(0, b, f).size = size /\ CbrBuffer(0, b, f).drain = PerFrame(b, f)
  BY <1>2, <1>3 DEF CbrBuffer
<1>7. size \div 8 \in Nat
  BY QuotientFacts
<1>8. PerFrame(b, f) \in Nat
  BY PerFrameFacts
<1>9. QED
  BY <1>4, <1>5, <1>6, <1>7, <1>8

\* The buffers start empty (constant bit rate) and full (VBR storage).
LEMMA BuffersInit == Margins /\ Init => BuffersInv
<1> SUFFICES ASSUME Margins, Init PROVE BuffersInv
  OBVIOUS
<1>1. /\ First.bit \in Nat /\ First.frame \in FrameRates /\ First.frame \in Nat \ {0}
      /\ PeakRate \in Nat /\ MaxBuffer \in Nat
  BY RatesAreNumbers
<1>2. /\ rates = [bit |-> First.bit, frame |-> First.frame, source |-> First.frame]
      /\ cbr = CbrBuffer(0, First.bit, First.frame) /\ spilled = 0 /\ sunk = 0
      /\ vbv = [level |-> MaxBuffer, size |-> MaxBuffer,
                inflow |-> PerFrame(PeakRate, First.frame),
                perFrame |-> PerFrame(PeakRate, First.frame),
                second |-> InitSecond(PeakRate, First.frame)]
  BY DEF Init
<1>3. CbrHolds
  <2>1. cbr.level = 0 /\ cbr.size \in Nat
    BY <1>1, <1>2, SizeFacts
  <2>2. rates.bit = First.bit /\ rates.source = First.frame
    BY <1>2
  <2>3. QED
    BY <1>2, <2>1, <2>2 DEF CbrHolds
<1>4. Lacks
  <2>1. PICK miss \in Misses : miss \in Int
    BY RatesAreNumbers DEF Margins
  <2>2. vbv.level = MaxBuffer
    BY <1>2
  <2>3. vbv.level >= -Larger(miss, sunk)
    BY <1>1, <1>2, <2>1, <2>2 DEF Larger
  <2>4. QED
    BY <2>1, <2>3 DEF Lacks
<1>5. WholeSeconds(vbv.second)
  <2>1. vbv.second = [now |-> 0, whole |-> First.frame, step |-> 1000, due |-> FALSE,
                      frameRate |-> First.frame, accum |-> 0, bitRate |-> PeakRate]
    BY <1>2 DEF InitSecond
  <2>2. PICK share \in Nat : share = PerFrame(PeakRate, First.frame)
    BY <1>1, PerFrameFacts
  <2>3. Elapsed(vbv.second) = 0
    BY <2>1 DEF Elapsed
  <2>4. vbv.second.accum * 1000 = share * Elapsed(vbv.second)
    BY <2>1, <2>3
  <2>5. vbv.second.now % 1000 = 0
    BY <2>1
  <2>6. vbv.second.now < vbv.second.whole
    BY <1>1, <2>1
  <2>7. QED
    BY <2>1, <2>2, <2>4, <2>5, <2>6 DEF WholeSeconds
<1>6. vbv.size = MaxBuffer /\ vbv.inflow = PerFrame(PeakRate, First.frame)
  BY <1>2
<1>7. QED
  BY <1>2, <1>3, <1>4, <1>5, <1>6 DEF BuffersInv, VbvHolds

\* A change of the rates makes the CBR buffer that of the new ones.
LEMMA BuffersRates ==
  ASSUME Numbers, BuffersInv,
         \/ \E b \in BitRates : SetBitRate(b)
         \/ \E f \in FrameRates : SetFrameRate(f) \/ PullDownRate(f)
  PROVE  BuffersInv'
<1>1. /\ rates.bit \in BitRates /\ rates.bit \in Nat /\ rates.source \in FrameRates
      /\ rates.frame \in FrameRates /\ changes \in Nat /\ cbr.level \in Int
  BY RatesAreNumbers DEF Numbers, CbrBuffers
<1>2. ASSUME NEW b \in BitRates, NEW f \in FrameRates, NEW source \in FrameRates,
             ChangeAllocation(b, f, source),
             cbr' = IF mode = "CBR" THEN CbrBuffer(cbr.level, b, source) ELSE cbr
      PROVE  BuffersInv'
  <2>1. b \in Nat
    BY RatesAreNumbers
  <2>2. /\ rates' = [bit |-> b, frame |-> f, source |-> source] /\ changes' = changes + 1
        /\ mode' = mode /\ spilled' = spilled
    BY <1>2, ChangeAllocationFacts
  <2>3. VbvHolds'
    BY <1>1, <2>2 DEF VbvHolds
  <2>4. CASE mode = "CBR"
    <3>1. PICK level \in Int : level = cbr.level
      BY <1>1
    <3>2. 0 <= level
      BY <2>4, <3>1 DEF BuffersInv, CbrHolds
    <3>3. cbr' = CbrBuffer(level, b, source)
      BY <1>2, <2>4, <3>1
    <3>4. cbr'.level = level
      BY <2>1, <3>3, SizeFacts
    <3>5. rates'.bit = b /\ rates'.source = source
      BY <2>2
    <3>6. CbrHolds'
      BY <3>2, <3>3, <3>4, <3>5 DEF CbrHolds
    <3>7. QED
      BY <2>2, <2>3, <3>6 DEF BuffersInv
  <2>5. CASE mode # "CBR"
    BY <2>2, <2>3, <2>5 DEF BuffersInv, CbrHolds
  <2>6. QED
    BY <2>4, <2>5
<1>3. ASSUME NEW b \in BitRates, SetBitRate(b)
      PROVE  BuffersInv'
  BY <1>1, <1>2, <1>3 DEF SetBitRate
<1>4. ASSUME NEW f \in FrameRates, SetFrameRate(f)
      PROVE  BuffersInv'
  BY <1>1, <1>2, <1>4 DEF SetFrameRate
<1>5. ASSUME NEW f \in FrameRates, PullDownRate(f)
      PROVE  BuffersInv'
  <2>1. ChangeAllocation(rates.bit, f, rates.source) /\ cbr' = cbr
    BY <1>5 DEF PullDownRate
  <2>2. cbr = IF mode = "CBR" THEN CbrBuffer(cbr.level, rates.bit, rates.source) ELSE cbr
    BY DEF BuffersInv, CbrHolds
  <2>3. QED
    BY <1>1, <1>2, <2>1, <2>2
<1>6. QED
  BY <1>3, <1>4, <1>5

\* A picture coded to a target makes the CBR buffer drop no bit, but those that were
\* above its size before.
LEMMA CbrEncode ==
  ASSUME Numbers, BuffersInv, CbrMargin, mode = "CBR", NEW est \in Nat, NEW miss \in Misses,
         NEW isTrained \in BOOLEAN, NEW bits \in Int,
         isTrained => bits = Larger(CbrTarget(est) + miss, 0),
         CbrUpdate(bits, isTrained), UNCHANGED <<mode, rates>>
  PROVE  spilled' = 0 /\ CbrHolds'
<1>1. /\ rates.bit \in BitRates /\ rates.bit \in Nat /\ rates.source \in FrameRates
      /\ cbr \in CbrBuffers /\ cbr.level \in Int
  BY RatesAreNumbers DEF Numbers, CbrBuffers
<1>2. cbr = CbrBuffer(cbr.level, rates.bit, rates.source) /\ 0 <= cbr.level
  BY DEF BuffersInv, CbrHolds
<1>3. PICK level \in Nat, size \in Nat, drain \in Nat, upper \in Int :
        /\ level = cbr.level /\ size = cbr.size /\ drain = cbr.drain /\ upper = cbr.upper
        /\ upper <= size
  <2>1. PICK c : c = CbrBuffer(cbr.level, rates.bit, rates.source)
    OBVIOUS
  <2>2. /\ c.size \in Nat /\ c.upper \in Int /\ c.upper <= c.size /\ c.drain \in Nat
    BY <1>1, <2>1, SizeFacts
  <2>3. cbr = c
    BY <1>2, <2>1
  <2>4. QED
    BY <1>1, <1>2, <2>2, <2>3
<1>4. miss <= drain /\ drain + miss <= size
  <2>1. cbr.size = CbrBuffer(0, rates.bit, rates.source).size
        /\ cbr.drain = CbrBuffer(0, rates.bit, rates.source).drain
    BY <1>1, <1>2, SizeFacts
  <2>2. QED
    BY <1>1, <1>3, <2>1 DEF CbrMargin
<1>5. miss \in Int
  BY RatesAreNumbers
<1>6. ASSUME isTrained
      PROVE  level + bits - drain <= size \/ level + bits - drain <= level
  <2>1. PICK most \in Nat : most = Larger(upper - level, 0)
    <3>1. PICK a \in Int : a = upper - level
      OBVIOUS
    <3>2. Larger(a, 0) \in Nat
      BY DEF Larger
    <3>3. QED
      BY <3>1, <3>2
  <2>2. PICK least \in Nat : least = Larger(drain - (level - drain), 0)
    <3>1. drain - (level - drain) \in Int
      OBVIOUS
    <3>2. QED
      BY <3>1 DEF Larger
  <2>3. PICK target \in Nat :
          target = IF est > most THEN most ELSE IF est < least THEN least ELSE est
    OBVIOUS
  <2>4. CbrTarget(est) = target
    BY <1>3, <2>1, <2>2, <2>3 DEF CbrTarget
  <2>5. bits = Larger(target + miss, 0)
    BY <1>6, <2>4
  <2>6. target <= most \/ target <= least
    BY <2>3
  <2>7. most <= upper - level \/ most <= 0
    BY <2>1 DEF Larger
  <2>8. least <= drain - (level - drain) \/ least <= 0
    BY <2>2 DEF Larger
  <2>9. bits <= target + miss \/ bits <= 0
    BY <1>5, <2>5 DEF Larger
  <2>10. QED
    BY <1>3, <1>4, <1>5, <2>6, <2>7, <2>8, <2>9
<1>7. PICK next \in Nat : next = Larger(level + bits - drain, 0)
  BY DEF Larger
<1>8. PICK above \in Nat : above = Larger(level - size, 0)
  BY DEF Larger
<1>9. isTrained => next - size <= above
  BY <1>6, <1>7, <1>8 DEF Larger
<1>10. cbr' = [cbr EXCEPT !.level = Smaller(next, size)]
       /\ spilled' = spilled + IF isTrained THEN Larger(next - size - above, 0) ELSE 0
  BY <1>3, <1>7, <1>8 DEF CbrUpdate
<1>11. spilled' = 0
  <2>1. isTrained => Larger(next - size - above, 0) = 0
    BY <1>9 DEF Larger
  <2>2. QED
    BY <1>10, <2>1 DEF BuffersInv
<1>12. PICK x \in Nat : x = Smaller(next, size)
  BY DEF Smaller
<1>13. cbr' = [cbr EXCEPT !.level = x]
  BY <1>10, <1>12
<1>14. cbr'.level = x
  BY <1>1, <1>13 DEF CbrBuffers
<1>15. cbr' = CbrBuffer(x, rates.bit, rates.source)
  BY <1>2, <1>13 DEF CbrBuffer
<1>16. CbrHolds'
  BY <1>14, <1>15 DEF CbrHolds
<1>17. QED
  BY <1>11, <1>16

\* The error bits of a second with a whole number of frames are never negative.
LEMMA WholeSecondFacts ==
  ASSUME NEW e \in Seconds, WholeSeconds(e), First.frame % 1000 = 0
  PROVE  WholeSeconds(NextFrame(e)) /\ ErrorBits(e) \in Nat
<1>1. First.frame \in Nat \ {0} /\ First.frame \in FrameRates /\ PeakRate \in Nat
  BY RatesAreNumbers
<1>2. PICK whole \in Nat \ {0}, now \in Nat, accum \in Int, share \in Nat :
        /\ whole = First.frame /\ now = e.now /\ accum = e.accum
        /\ share = PerFrame(PeakRate, First.frame)
  <2>1. e.now \in Nat /\ e.accum \in Int
    BY DEF Seconds
  <2>2. PerFrame(PeakRate, First.frame) \in Nat
    BY <1>1, PerFrameFacts
  <2>3. QED
    BY <1>1, <2>1, <2>2
<1>3. /\ e.whole = whole /\ e.step = 1000 /\ e.frameRate = First.frame /\ e.bitRate = PeakRate
      /\ now % 1000 = 0 /\ now < whole /\ (e.due => now = 0)
      /\ accum * 1000 = share * (IF e.due THEN whole ELSE now)
      /\ e.due \in BOOLEAN /\ whole % 1000 = 0
  BY <1>2 DEF WholeSeconds, Elapsed, Seconds
<1>4. PICK q : q = NextFrame(e)
  OBVIOUS
<1>5. /\ q.accum = (IF e.due THEN 0 ELSE accum) + share
      /\ q.now = IF now + 1000 >= whole THEN (now + 1000) - whole ELSE now + 1000
      /\ q.due <=> now + 1000 >= whole
      /\ q.whole = whole /\ q.step = 1000 /\ q.frameRate = First.frame /\ q.bitRate = PeakRate
  <2>1. q.accum = (IF e.due THEN 0 ELSE e.accum) + PerFrame(e.bitRate, e.frameRate)
    BY <1>4, NextFrameFacts
  <2>2. q.now = IF e.now + e.step >= e.whole THEN (e.now + e.step) - e.whole
                                             ELSE e.now + e.step
    BY <1>4, NextFrameFacts
  <2>3. q.due <=> e.now + e.step >= e.whole
    BY <1>4, NextFrameFacts
  <2>4. /\ q.whole = e.whole /\ q.step = e.step /\ q.frameRate = e.frameRate
        /\ q.bitRate = e.bitRate
    BY <1>4, NextFrameFacts
  <2>5. q.due <=> now + 1000 >= whole
    <3>1. e.now + e.step = now + 1000 /\ e.whole = whole
      BY <1>2, <1>3
    <3>2. (e.now + e.step >= e.whole) <=> (now + 1000 >= whole)
      BY <3>1
    <3>3. QED
      BY <2>3, <3>2
  <2>6. q.now = IF now + 1000 >= whole THEN (now + 1000) - whole ELSE now + 1000
    BY <1>2, <1>3, <2>2
  <2>7. q.accum = (IF e.due THEN 0 ELSE accum) + share
    BY <1>2, <1>3, <2>1
  <2>8. QED
    BY <1>3, <2>4, <2>5, <2>6, <2>7
<1>6. now + 1000 <= whole
  BY <1>3
<1>7. q.accum * 1000 = share * (now + 1000)
  <2>1. CASE e.due
    <3>1. q.accum = share /\ now = 0
      BY <1>3, <1>5, <2>1
    <3>2. QED
      BY <3>1
  <2>2. CASE ~e.due
    <3>1. q.accum = accum + share /\ accum * 1000 = share * now
      BY <1>3, <1>5, <2>2
    <3>2. (accum + share) * 1000 = accum * 1000 + share * 1000
      OBVIOUS
    <3>3. share * (now + 1000) = share * now + share * 1000
      OBVIOUS
    <3>4. QED
      BY <3>1, <3>2, <3>3
  <2>3. QED
    BY <1>3, <2>1, <2>2
<1>8. WholeSeconds(q)
  <2>1. CASE now + 1000 >= whole
    <3>1. now + 1000 = whole
      BY <1>6, <2>1
    <3>2. q.now = 0 /\ q.due
      BY <1>5, <3>1
    <3>3. Elapsed(q) = whole
      BY <1>5, <3>2 DEF Elapsed
    <3>4. q.accum * 1000 = share * Elapsed(q)
      BY <1>7, <3>1, <3>3
    <3>5. 0 % 1000 = 0
      OBVIOUS
    <3>6. QED
      BY <1>2, <1>5, <3>2, <3>4, <3>5 DEF WholeSeconds
  <2>2. CASE ~(now + 1000 >= whole)
    <3>1. q.now = now + 1000 /\ ~q.due
      BY <1>5, <2>2
    <3>2. Elapsed(q) = now + 1000
      BY <3>1 DEF Elapsed
    <3>3. q.accum * 1000 = share * Elapsed(q)
      BY <1>7, <3>2
    <3>4. (now + 1000) % 1000 = 0
      BY <1>3
    <3>5. now + 1000 < whole
      BY <2>2
    <3>6. q.now % 1000 = 0 /\ q.now < q.whole
      BY <1>5, <3>1, <3>4, <3>5
    <3>7. /\ q.whole = First.frame /\ q.step = 1000 /\ q.frameRate = First.frame
          /\ q.bitRate = PeakRate /\ (q.due => q.now = 0)
          /\ q.accum * 1000 = PerFrame(PeakRate, First.frame) * Elapsed(q)
      BY <1>2, <1>5, <3>1, <3>3
    <3>8. QED
      BY <3>6, <3>7 DEF WholeSeconds
  <2>3. QED
    BY <2>1, <2>2
<1>9. ErrorBits(e) \in Nat
  <2>1. CASE e.due
    <3>1. accum * 1000 = share * whole
      BY <1>3, <2>1
    <3>2. share * whole <= PeakRate * 1000
      <4>1. PICK x \in Nat : x = PeakRate * 1000
        BY <1>1
      <4>2. share = x \div whole
        BY <1>2, <4>1 DEF PerFrame
      <4>3. (x \div whole) * whole <= x
        OBVIOUS
      <4>4. QED
        BY <4>1, <4>2, <4>3
    <3>3. accum <= PeakRate
      BY <1>1, <3>1, <3>2
    <3>4. QED
      BY <1>1, <1>2, <1>3, <2>1, <3>3 DEF ErrorBits
  <2>2. CASE ~e.due
    BY <2>2 DEF ErrorBits
  <2>3. QED
    BY <2>1, <2>2
<1>10. QED
  BY <1>4, <1>8, <1>9

\* A frame with a target takes no more from the decoder's buffer than what is in it and
\* its miss; one without takes the buffer no deeper than "sunk".
LEMMA VbvEncode ==
  ASSUME Numbers, BuffersInv, Margins, mode # "CBR", changes = 0,
         NEW est \in Nat, NEW miss \in Misses, NEW isTrained \in BOOLEAN, NEW bits \in Int,
         isTrained => bits = Larger(Target(est) + miss, 0),
         VbvUpdate(bits, isTrained)
  PROVE  Lacks' /\ vbv'.size = MaxBuffer /\ vbv'.inflow = PerFrame(PeakRate, First.frame)
         /\ WholeSeconds(vbv'.second)
<1>1. mode = "VBR" /\ "VBR" \in Modes
  BY RateControlAssumption DEF Numbers
<1>2. VbvMargin
  BY <1>1 DEF Margins
<1>3. /\ Lacks /\ vbv.size = MaxBuffer /\ vbv.inflow = PerFrame(PeakRate, First.frame)
      /\ WholeSeconds(vbv.second)
  BY <1>1 DEF BuffersInv, VbvHolds
<1>4. /\ vbv \in VbvBuffers /\ vbv.second \in Seconds /\ vbv.level \in Int /\ sunk \in Int
  BY DEF Numbers, VbvBuffers
<1>5. PICK lacking \in Misses : vbv.level >= -Larger(lacking, sunk)
  BY <1>3 DEF Lacks
<1>6. lacking \in Int /\ miss \in Int /\ MaxBuffer \in Nat
  BY RatesAreNumbers
<1>7. WholeSeconds(NextFrame(vbv.second)) /\ ErrorBits(vbv.second) \in Nat
  BY <1>2, <1>3, <1>4, WholeSecondFacts DEF VbvMargin
<1>8. PICK level \in Int, inflow \in Nat, size \in Nat, extra \in Nat :
        /\ level = vbv.level /\ inflow = vbv.inflow /\ size = vbv.size
        /\ extra = ErrorBits(vbv.second)
  <2>1. vbv.inflow \in Nat /\ vbv.size \in Nat
    BY <1>3, <1>4, <1>6 DEF VbvBuffers
  <2>2. QED
    BY <1>4, <1>7, <2>1
<1>9. PICK next \in Int : next = Smaller(level + inflow + extra, size)
  <2>1. PICK a \in Int : a = level + inflow + extra
    OBVIOUS
  <2>2. Smaller(a, size) \in Int
    BY DEF Smaller
  <2>3. QED
    BY <2>1, <2>2
<1>10. next = level + inflow + extra \/ next = size
  BY <1>9 DEF Smaller
<1>11. VbvNext = next
  BY <1>8, <1>9 DEF VbvNext
<1>12. miss <= inflow
  BY <1>2, <1>3, <1>8 DEF VbvMargin
<1>13. PICK owed \in Int : owed = IF next < 0 THEN sunk ELSE 0
  BY <1>4
<1>14. sunk' = IF isTrained THEN owed ELSE Larger(owed, bits - next)
  BY <1>11, <1>13 DEF VbvUpdate
<1>15. next - bits >= -Larger(lacking, sunk') \/ next - bits >= -Larger(miss, sunk')
  <2>1. CASE ~isTrained
    <3>1. PICK lack \in Int : lack = Larger(owed, bits - next)
      BY DEF Larger
    <3>2. sunk' = lack /\ lack >= bits - next
      BY <1>14, <2>1, <3>1 DEF Larger
    <3>3. PICK most \in Int : most = Larger(miss, lack)
      BY <1>6 DEF Larger
    <3>4. most >= lack
      BY <1>6, <3>3 DEF Larger
    <3>5. next - bits >= -most
      BY <3>2, <3>4
    <3>6. QED
      BY <3>2, <3>3, <3>5
  <2>2. CASE isTrained /\ next >= 0
    <3>1. PICK target \in Nat : target = Smaller(est, next)
      BY <2>2 DEF Smaller
    <3>2. target <= next
      BY <3>1 DEF Smaller
    <3>3. Target(est) = target
      BY <1>1, <1>11, <3>1 DEF Target, VbrTarget, Larger
    <3>4. bits = Larger(target + miss, 0)
      BY <2>2, <3>3
    <3>5. bits = target + miss \/ bits = 0
      BY <3>4 DEF Larger
    <3>6. sunk' = 0
      BY <1>13, <1>14, <2>2
    <3>7. QED
      BY <1>6, <2>2, <3>2, <3>5, <3>6 DEF Larger
  <2>3. CASE isTrained /\ next < 0
    <3>1. Smaller(est, next) = next
      BY <2>3 DEF Smaller
    <3>2. Target(est) = 0
      BY <1>1, <1>11, <2>3, <3>1 DEF Target, VbrTarget, Larger
    <3>3. bits = Larger(miss, 0)
      BY <1>6, <2>3, <3>2
    <3>4. bits <= inflow
      BY <1>6, <1>12, <3>3 DEF Larger
    <3>5. next - bits >= level
      BY <1>10, <2>3, <3>4
    <3>6. sunk' = sunk
      BY <1>13, <1>14, <2>3
    <3>7. PICK most \in Int : most = Larger(lacking, sunk)
      BY <1>4, <1>6 DEF Larger
    <3>8. level >= -most
      BY <1>5, <1>8, <3>7
    <3>9. next - bits >= -most
      BY <3>5, <3>8
    <3>10. QED
      BY <3>6, <3>7, <3>9
  <2>4. QED
    BY <2>1, <2>2, <2>3
<1>16. PICK left \in Int : left = next - bits
  OBVIOUS
<1>17. PICK e \in Seconds : e = NextFrame(vbv.second)
  BY <1>4, NextFrameFacts
<1>18. vbv' = [vbv EXCEPT !.level = left, !.second = e]
  BY <1>11, <1>16, <1>17, Zenon DEF VbvUpdate
<1>19. vbv'.level = left /\ vbv'.second = e /\ vbv'.size = vbv.size /\ vbv'.inflow = vbv.inflow
  BY <1>4, <1>18 DEF VbvBuffers
<1>20. Lacks'
  BY <1>15, <1>16, <1>19 DEF Lacks
<1>21. QED
  BY <1>3, <1>7, <1>17, <1>19, <1>20

\* Every step keeps the buffers' invariant.
LEMMA BuffersNext == Margins /\ Numbers /\ BuffersInv /\ [Next]_vars => BuffersInv'
<1> SUFFICES ASSUME Margins, Numbers, BuffersInv, [Next]_vars PROVE BuffersInv'
  OBVIOUS
<1>1. ASSUME NEW n \in Intervals, SetIntraInterval(n)
      PROVE  BuffersInv'
  BY <1>1 DEF SetIntraInterval, allocVars, history, BuffersInv, CbrHolds, VbvHolds, Lacks
<1>2. CASE UNCHANGED vars
  BY <1>2 DEF vars, allocVars, history, BuffersInv, CbrHolds, VbvHolds, Lacks
<1>3. ASSUME NEW force \in BOOLEAN, NEW scd \in BOOLEAN, NEW est \in Estimates,
             NEW miss \in Misses, Encode(force, est, miss, scd)
      PROVE  BuffersInv'
  <2>1a. PICK isTrained \in BOOLEAN :
          \E bits, toSaved : Call(force, est, miss, scd, isTrained, bits, toSaved)
    BY <1>3, EncodeParts
  <2>1. PICK bits, toSaved : Call(force, est, miss, scd, isTrained, bits, toSaved)
    BY <2>1a
  <2>2. /\ bits = IF isTrained THEN Larger(Target(est) + miss, 0) ELSE est
        /\ mode = "CBR" => CbrUpdate(bits, isTrained)
        /\ mode # "CBR" => VbvUpdate(bits, isTrained)
        /\ UNCHANGED <<mode, rates, changes>>
    BY <2>1 DEF Call
  <2>3. est \in Nat /\ miss \in Int
    BY RatesAreNumbers
  <2>4. bits \in Int
    BY <2>2, <2>3, TargetFacts DEF Larger
  <2>5. CASE mode = "CBR"
    <3>1. CbrMargin
      BY <2>5 DEF Margins, Numbers
    <3>2. Target(est) = CbrTarget(est)
      BY <2>5 DEF Target
    <3>3. CbrUpdate(bits, isTrained)
      BY <2>2, <2>5
    <3>4. spilled' = 0 /\ CbrHolds'
      BY <2>2, <2>3, <2>4, <2>5, <3>1, <3>2, <3>3, CbrEncode
    <3>5. vbv' = vbv /\ sunk' = sunk
      BY <3>3 DEF CbrUpdate
    <3>6. VbvHolds'
      BY <2>2, <2>5, <3>5 DEF BuffersInv, VbvHolds, Lacks
    <3>7. QED
      BY <3>4, <3>6 DEF BuffersInv
  <2>6. CASE mode # "CBR"
    <3>1. VbvUpdate(bits, isTrained)
      BY <2>2, <2>6
    <3>2. spilled' = 0 /\ CbrHolds'
      BY <2>2, <2>6, <3>1 DEF VbvUpdate, BuffersInv, CbrHolds
    <3>3. CASE changes = 0
      <4>1. /\ Lacks' /\ vbv'.size = MaxBuffer
            /\ vbv'.inflow = PerFrame(PeakRate, First.frame)
            /\ WholeSeconds(vbv'.second)
        BY <2>2, <2>3, <2>4, <2>6, <3>1, <3>3, VbvEncode
      <4>2. QED
        BY <3>2, <4>1 DEF BuffersInv, VbvHolds
    <3>4. CASE changes # 0
      BY <2>2, <3>2, <3>4 DEF BuffersInv, VbvHolds
    <3>5. QED
      BY <3>3, <3>4
  <2>7. QED
    BY <2>5, <2>6
<1>4. QED
  BY <1>1, <1>2, <1>3, BuffersRates DEF Next

\* If a frame with a target misses it by no more than the margin the thresholds keep
\* (Margins), and whatever the rates are changed to: of what a frame coded to a target
\* adds, irc_update_cbr_buffer drops no bit, only what a lower rate has left above the
\* buffer's new size; and, the rates unchanged, the buffer of irc_update_vbr_vbv lacks at
\* most the miss of one frame.  Frames coded before the model is trained are excused, by
\* BufferHolds itself: they may be of any size, and take any of the room.
THEOREM BuffersHold == Margins => (Spec => []BufferHolds)
<1> SUFFICES ASSUME Margins PROVE Spec => []BufferHolds
  OBVIOUS
<1>1. Spec => [](Numbers /\ BuffersInv)
  <2>1. Init => BuffersInv
    BY BuffersInit
  <2>2. Numbers /\ BuffersInv /\ [Next]_vars => BuffersInv'
    BY BuffersNext
  <2>3. QED
    BY <2>1, <2>2, NumbersInit, NumbersNext, PTL DEF Spec
<1>2. BuffersInv => BufferHolds
  BY DEF BuffersInv, VbvHolds, Lacks, BufferHolds
<1>3. QED
  BY <1>1, <1>2, PTL

-----------------------------------------------------------------------------
(* The GOP. *)

\* No I frame is forced while a change of the interval waits, and no interval of one
\* picture is asked for later on.
Apart == "together" \notin Corners /\ "allIntra" \notin Corners

Fresh == pics.first /\ pics.disp = 0

\* The P pictures of the GOP have been counted, and, once a picture is on the stack, the
\* index pictures are read at is where the next one goes.
PicsInv ==
  /\ pics.gop.b = 0 /\ pics.gop.incomp = 0 /\ pics.bCount = 0 /\ ~pics.force
  /\ pics.disp <= pics.gop.p
  /\ pics.disp >= 1 => pics.pCount + 1 = pics.disp
  /\ pics.newIntra # 1
  /\ Fresh => pics.refIdx = 0
  /\ ~Fresh => pics.top = pics.refIdx

\* A forced I picture begins a GOP, and a new interval is taken at the second picture.
Opened(force) == force /\ pics.disp # 0
Takes == pics.newIntra # 0 /\ pics.disp = 1
PlaceIn(force) == IF Opened(force) THEN 0 ELSE pics.disp
NewP == IF Takes THEN pics.newIntra - 1 ELSE pics.gop.p

\* The picture put on the stack has place d in its GOP: it is an I picture if it is the
\* first, and the GOP ends with it if it is the last.
LEMMA PutInPhase ==
  ASSUME Numbers, PicsInv, NEW force \in BOOLEAN, force => pics.newIntra = 0
  PROVE  LET put == Put(force)
             d == PlaceIn(force) IN
         /\ d \in Nat /\ NewP \in Nat /\ d <= NewP
         /\ put \in Pictures /\ put.gop.p = NewP /\ put.gop.b = 0 /\ put.gop.incomp = 0
         /\ put.disp = IF d = NewP THEN 0 ELSE d + 1
         /\ put.pCount = (IF d = 0 THEN 0 ELSE pics.pCount + 1) /\ put.bCount = 0
         /\ put.newIntra # 1 /\ ~(put.first /\ put.disp = 0)
         /\ put.refIdx = (pics.refIdx + 1) % 3 /\ put.top = pics.refIdx
         /\ P!TopPic(put).type = IF d = 0 THEN "I" ELSE "P"
         /\ put.force => force
<1>1. /\ pics \in Pictures /\ pics.disp \in Nat /\ pics.newIntra \in Nat /\ pics.gop \in Gops
      /\ pics.gop.p \in Nat /\ pics.first \in BOOLEAN /\ pics.pCount \in Nat
      /\ pics.refIdx \in 0..2
  BY NoBPictures DEF Numbers, Pictures, Gops
<1>2. PICK b \in Pictures : b = Before(force)
  BY <1>1, BeforeFacts
<1>3. /\ b.force <=> force
      /\ b.disp = pics.disp /\ b.gop = pics.gop /\ b.newIntra = pics.newIntra
      /\ b.pCount = pics.pCount /\ b.bCount = 0 /\ b.first = pics.first
      /\ b.refIdx = pics.refIdx /\ b.top = pics.top
  BY <1>1, <1>2, BeforeFacts DEF PicsInv
<1>4. PICK f \in Pictures : f = P!ApplyForce(b)
  BY ForceFacts
<1>5. /\ f.disp = PlaceIn(force)
      /\ f.first <=> pics.first /\ ~Opened(force)
      /\ f.force => force
      /\ f.gop = pics.gop /\ f.newIntra = pics.newIntra /\ f.pCount = pics.pCount
      /\ f.bCount = 0 /\ f.refIdx = pics.refIdx /\ f.top = pics.top
  <2>1. f.disp = IF b.force THEN 0 ELSE b.disp
    BY <1>4, ForceFacts
  <2>2. f.first <=> b.first /\ ~(b.force /\ b.disp # 0)
    BY <1>4, ForceFacts
  <2>3. /\ f.force => b.force
        /\ f.gop = b.gop /\ f.newIntra = b.newIntra /\ f.pCount = b.pCount
        /\ f.bCount = b.bCount /\ f.refIdx = b.refIdx /\ f.top = b.top
    BY <1>4, ForceFacts
  <2>4. QED
    BY <1>3, <2>1, <2>2, <2>3 DEF PlaceIn, Opened
<1>6. PICK s \in Pictures : s = P!ApplyIntra(f, pics.disp)
  BY <1>1, IntraFacts
<1>7. /\ s.disp = PlaceIn(force) /\ s.gop.p = NewP /\ s.gop.b = 0 /\ s.gop.incomp = 0
      /\ s.newIntra # 1
      /\ s.first <=> pics.first /\ ~Opened(force)
      /\ s.force => force
      /\ s.pCount = pics.pCount /\ s.bCount = 0 /\ s.refIdx = pics.refIdx /\ s.top = pics.top
  <2>1. /\ s.disp = IF (f.newIntra # 0 /\ pics.disp = 1) /\ f.newIntra = 1 THEN 0 ELSE f.disp
        /\ s.gop = IF f.newIntra # 0 /\ pics.disp = 1 THEN P!FindPicDistbn(f.newIntra)
                   ELSE f.gop
        /\ s.newIntra = IF f.newIntra # 0 /\ pics.disp = 1 THEN 0 ELSE f.newIntra
        /\ s.first = f.first /\ s.pCount = f.pCount /\ s.force = f.force
        /\ s.bCount = f.bCount /\ s.refIdx = f.refIdx /\ s.top = f.top
    BY <1>1, <1>6, IntraFacts
  <2>2. CASE Takes
    <3>1. pics.newIntra \in Nat \ {0}
      BY <1>1, <2>2 DEF Takes
    <3>2. s.gop = P!FindPicDistbn(pics.newIntra)
      BY <1>5, <2>1, <2>2 DEF Takes
    <3>3. s.gop.p = pics.newIntra - 1 /\ s.gop.b = 0 /\ s.gop.incomp = 0
      BY <3>1, <3>2, DistbnFacts
    <3>4. s.newIntra = 0 /\ s.disp = f.disp
      BY <1>5, <2>1, <2>2 DEF Takes, PicsInv
    <3>5. QED
      BY <1>5, <2>1, <2>2, <3>3, <3>4 DEF NewP
  <2>3. CASE ~Takes
    <3>1. s.gop = pics.gop /\ s.newIntra = pics.newIntra /\ s.disp = f.disp
      BY <1>5, <2>1, <2>3 DEF Takes
    <3>2. QED
      BY <1>5, <2>1, <2>3, <3>1 DEF NewP, PicsInv
  <2>4. QED
    BY <2>2, <2>3
<1>8. PlaceIn(force) \in Nat /\ NewP \in Nat /\ PlaceIn(force) <= NewP
  <2>1. CASE Takes
    <3>1. ~force /\ pics.newIntra >= 2 /\ pics.disp = 1
      BY <1>1, <2>1 DEF Takes, PicsInv
    <3>2. QED
      BY <1>1, <2>1, <3>1 DEF PlaceIn, Opened, NewP
  <2>2. CASE ~Takes
    BY <1>1, <2>2 DEF PlaceIn, NewP, PicsInv
  <2>3. QED
    BY <2>1, <2>2
<1>9. PICK d \in Nat, p \in Nat : d = PlaceIn(force) /\ p = NewP /\ d <= p
  BY <1>8
<1>10. PICK put \in Pictures : put = P!Put(s, 0)
  BY PutFacts
<1>11. put = Put(force)
  BY <1>2, <1>3, <1>4, <1>6, <1>10 DEF Put, P!AddPic
<1>12. /\ put.disp = IF s.disp = s.gop.p + s.gop.b THEN 0 ELSE s.disp + 1
       /\ put.first <=> s.first /\ s.disp # s.gop.p + s.gop.b
       /\ put.top = IF s.first /\ s.disp = 0 THEN 0 ELSE s.top
       /\ put.gop = s.gop /\ put.newIntra = s.newIntra /\ put.force = s.force
  BY <1>10, PutFacts
<1>13. /\ put.pCount = IF s.disp = 0 THEN 0 ELSE s.pCount + 1
       /\ put.bCount = IF s.disp = 0 THEN 0 ELSE s.bCount
       /\ put.refIdx = (s.refIdx + 1) % 3
       /\ put.stack[s.refIdx].type = IF s.disp = 0 THEN "I" ELSE "P"
  <2>1. PICK type : type = IF s.disp = 0 THEN "I" ELSE "P"
    OBVIOUS
  <2>2. type = "I" <=> s.disp = 0
    BY <2>1
  <2>3. /\ put.pCount = IF type = "I" THEN 0 ELSE s.pCount + 1
        /\ put.bCount = IF type = "I" THEN 0 ELSE s.bCount
        /\ put.refIdx = (s.refIdx + 1) % 3
        /\ put.stack[s.refIdx].type = type
    BY <1>7, <1>10, <2>1, PutFacts
  <2>4. QED
    BY <2>1, <2>2, <2>3
<1>14. put.disp = IF d = p THEN 0 ELSE d + 1
  BY <1>7, <1>9, <1>12
<1>15. put.top = pics.refIdx
  <2>1. s.first /\ s.disp = 0 <=> Fresh
    BY <1>1, <1>7 DEF Fresh, PlaceIn, Opened
  <2>2. QED
    BY <1>7, <1>12, <2>1 DEF PicsInv
<1>16. ~(put.first /\ put.disp = 0)
  BY <1>7, <1>9, <1>12
<1>17. P!TopPic(put).type = IF d = 0 THEN "I" ELSE "P"
  BY <1>7, <1>9, <1>13, <1>15 DEF P!TopPic
<1>18. /\ put.gop.p = p /\ put.gop.b = 0 /\ put.gop.incomp = 0 /\ put.newIntra # 1
       /\ put.force => force
       /\ put.refIdx = (pics.refIdx + 1) % 3
       /\ put.pCount = (IF d = 0 THEN 0 ELSE pics.pCount + 1) /\ put.bCount = 0
  BY <1>7, <1>9, <1>12, <1>13
<1>19. QED
  BY <1>9, <1>11, <1>14, <1>15, <1>16, <1>17, <1>18

\* The counts after a picture is put on the stack, and after it is taken off, are those
\* of what has not come in yet.
LEMMA CountsInPhase ==
  ASSUME Numbers, PicsInv, GopInPhase, NEW force \in BOOLEAN, force => pics.newIntra = 0
  PROVE  LET q == Queried(force)
             r == Popped(force)
             d == PlaceIn(force)
             disp == Put(force).disp IN
         /\ q.i + q.p = (NewP + 1) - d
         /\ q.forced <=> gop.forced \/ Opened(force)
         /\ q.fif = IF Opened(force) THEN pics.disp ELSE gop.fif
         /\ r.forced = q.forced /\ r.fif = q.fif
         /\ r.i = IF disp = 0 THEN 1 ELSE 0
         /\ r.i + r.p = (NewP + 1) - disp
         /\ r.last <=> d = NewP
<1>1. /\ pics \in Pictures /\ pics.disp \in Nat /\ pics.gop.p \in Nat /\ pics.pCount \in Nat
      /\ gop \in Counts /\ gop.i \in Int /\ gop.p \in Int
  BY DEF Numbers, Pictures, Gops, Counts
<1>2. PICK b \in Pictures : b = Before(force)
  BY <1>1, BeforeFacts
<1>3. /\ b.force <=> force
      /\ b.disp = pics.disp /\ b.gop = pics.gop /\ b.pCount = pics.pCount /\ b.bCount = 0
  BY <1>1, <1>2, BeforeFacts DEF PicsInv
<1>4. PICK d \in Nat, p \in Nat, put \in Pictures :
        d = PlaceIn(force) /\ p = NewP /\ d <= p /\ put = Put(force)
  BY PutInPhase
<1>5. /\ put.gop.p = p /\ put.disp = IF d = p THEN 0 ELSE d + 1
      /\ P!TopPic(put).type = IF d = 0 THEN "I" ELSE "P"
  BY <1>4, PutInPhase
<1>6. PICK q \in Counts : q = Queried(force)
  BY <1>1, PutIsPictures
<1>7. q = PutGop(b, put)
  BY <1>2, <1>4, <1>6 DEF Queried
<1>8. /\ q.fif = IF b.force /\ b.disp # 0 THEN b.pCount + b.bCount + 1 ELSE gop.fif
      /\ q.forced = (gop.forced \/ (b.force /\ b.disp # 0))
      /\ q.i = IF b.force /\ b.disp # 0 THEN 1 ELSE gop.i
      /\ q.p = (IF b.force /\ b.disp # 0 THEN b.gop.p ELSE gop.p)
               + IF b.disp >= 1 /\ ~b.force THEN put.gop.p - b.gop.p ELSE 0
  BY <1>1, <1>7, PutGopFacts
<1>9. gop.i = (IF pics.disp = 0 THEN 1 ELSE 0) /\ gop.i + gop.p = (pics.gop.p + 1) - pics.disp
  BY <1>1 DEF GopInPhase, GopSize
<1>10. /\ q.i = IF d = 0 THEN 1 ELSE 0
       /\ q.p = IF d = 0 THEN p ELSE (p + 1) - d
       /\ q.fif = IF Opened(force) THEN pics.disp ELSE gop.fif
       /\ q.forced <=> gop.forced \/ Opened(force)
  <2>1. CASE Opened(force)
    <3>1. force /\ pics.disp # 0 /\ d = 0 /\ p = pics.gop.p
      BY <1>4, <2>1 DEF Opened, PlaceIn, NewP, Takes
    <3>2. q.i = 1 /\ q.p = p
      BY <1>1, <1>3, <1>8, <3>1
    <3>3. q.fif = pics.disp
      BY <1>1, <1>3, <1>8, <3>1 DEF PicsInv
    <3>4. QED
      BY <1>3, <1>8, <2>1, <3>1, <3>2, <3>3
  <2>2. CASE ~Opened(force) /\ pics.disp = 0
    <3>1. d = 0 /\ p = pics.gop.p
      BY <1>4, <2>2 DEF PlaceIn, NewP, Takes
    <3>2. q.i = 1 /\ q.p = gop.p
      BY <1>1, <1>3, <1>8, <1>9, <2>2
    <3>3. gop.p = p
      BY <1>1, <1>9, <2>2, <3>1
    <3>4. QED
      BY <1>3, <1>8, <2>2, <3>1, <3>2, <3>3 DEF Opened
  <2>3. CASE ~Opened(force) /\ pics.disp # 0
    <3>1. ~force /\ d = pics.disp
      BY <1>4, <2>3 DEF PlaceIn, Opened
    <3>2. q.i = 0 /\ q.p = gop.p + (p - pics.gop.p)
      BY <1>1, <1>3, <1>5, <1>8, <1>9, <2>3, <3>1
    <3>3. gop.p = (pics.gop.p + 1) - pics.disp
      BY <1>1, <1>9, <2>3
    <3>4. q.p = (p + 1) - d
      BY <1>1, <3>1, <3>2, <3>3
    <3>5. QED
      BY <1>3, <1>8, <2>3, <3>1, <3>2, <3>4 DEF Opened
  <2>4. QED
    BY <2>1, <2>2, <2>3
<1>11. q.i + q.p = (p + 1) - d
  BY <1>10
<1>12. PICK r \in Counts : r = Popped(force)
  BY <1>1, PutIsPictures
<1>13. r = PopGop(q, P!TopPic(put).type, put.gop.p)
  BY <1>4, <1>6, <1>12 DEF Popped
<1>14. PICK type : type = IF d = 0 THEN "I" ELSE "P"
  OBVIOUS
<1>15. PICK i \in Int, l \in Int :
         /\ i = q.i - (IF type = "I" THEN 1 ELSE 0) /\ l = q.p - (IF type = "P" THEN 1 ELSE 0)
  BY DEF Counts
<1>16. i = 0 /\ l = p - d
  BY <1>10, <1>14, <1>15
<1>17. /\ r.fif = q.fif /\ r.forced = q.forced
       /\ r.last <=> i <= 0 /\ l <= 0
       /\ r.i = IF i <= 0 /\ l <= 0 THEN 1 ELSE i
       /\ r.p = IF i <= 0 /\ l <= 0 THEN p ELSE l
  <2>1. r = PopGop(q, type, p)
    BY <1>5, <1>13, <1>14
  <2>2. /\ r.fif = q.fif /\ r.forced = q.forced
        /\ r.last = (i <= 0 /\ l <= 0)
        /\ r.i = IF i <= 0 /\ l <= 0 THEN 1 ELSE i
        /\ r.p = IF i <= 0 /\ l <= 0 THEN p ELSE l
    BY <1>15, <2>1, PopGopFacts
  <2>3. QED
    BY <2>2
<1>18. /\ r.last <=> d = p
       /\ r.i = IF put.disp = 0 THEN 1 ELSE 0
       /\ r.i + r.p = (p + 1) - put.disp
  <2>1. CASE d = p
    BY <1>4, <1>5, <1>16, <1>17, <2>1
  <2>2. CASE d # p
    BY <1>4, <1>5, <1>16, <1>17, <2>2
  <2>3. QED
    BY <2>1, <2>2
<1>19. QED
  BY <1>4, <1>6, <1>10, <1>11, <1>12, <1>17, <1>18

\* The stack and the counts start in phase.
LEMMA PhaseInit == Init => PicsInv /\ GopInPhase
<1> SUFFICES ASSUME Init PROVE PicsInv /\ GopInPhase
  OBVIOUS
<1>1. PICK n \in Intervals :
        /\ pics = P!InitPicHandling(n)
        /\ gop = [i |-> 1, p |-> n - 1, fif |-> 0, forced |-> FALSE, last |-> FALSE]
  BY DEF Init
<1>2. n \in Nat \ {0}
  BY RateControlAssumption
<1>3. /\ pics.gop = P!FindPicDistbn(n) /\ pics.bCount = 0 /\ pics.force = FALSE
      /\ pics.disp = 0 /\ pics.newIntra = 0 /\ pics.first = TRUE /\ pics.refIdx = 0
  BY <1>1 DEF P!InitPicHandling
<1>4. pics.gop.p = n - 1 /\ pics.gop.b = 0 /\ pics.gop.incomp = 0
  BY <1>2, <1>3, DistbnFacts
<1>5. PicsInv
  BY <1>2, <1>3, <1>4 DEF PicsInv, Fresh
<1>6. GopInPhase
  BY <1>1, <1>2, <1>3, <1>4 DEF GopInPhase, GopSize
<1>7. QED
  BY <1>5, <1>6

\* Coding a picture takes both one place further in the GOP.
LEMMA PhaseEncode ==
  ASSUME Apart, Numbers, PicsInv, GopInPhase, NEW force \in BOOLEAN, NEW scd \in BOOLEAN,
         NEW est \in Estimates, NEW miss \in Misses, Encode(force, est, miss, scd)
  PROVE  /\ PicsInv' /\ GopInPhase' /\ pics'.gop.p = NewP
         /\ force => pics.newIntra = 0
<1>1a. PICK isTrained \in BOOLEAN :
        \E bits, toSaved : Call(force, est, miss, scd, isTrained, bits, toSaved)
  BY EncodeParts
<1>1. PICK bits, toSaved : Call(force, est, miss, scd, isTrained, bits, toSaved)
  BY <1>1a
<1>2. /\ force => pics.newIntra = 0
      /\ pics' = P!PopPic(P!GotPic(Put(force)))
      /\ gop' = [Popped(force) EXCEPT !.forced = @ /\ ~isTrained]
  BY <1>1 DEF Call, Apart
<1>3. PICK d \in Nat, p \in Nat, put \in Pictures :
        d = PlaceIn(force) /\ p = NewP /\ d <= p /\ put = Put(force)
  BY <1>2, PutInPhase
<1>4. /\ put.gop.p = p /\ put.gop.b = 0 /\ put.gop.incomp = 0
      /\ put.disp = IF d = p THEN 0 ELSE d + 1
      /\ put.pCount = (IF d = 0 THEN 0 ELSE pics.pCount + 1) /\ put.bCount = 0
      /\ put.newIntra # 1 /\ ~(put.first /\ put.disp = 0)
      /\ put.refIdx = (pics.refIdx + 1) % 3 /\ put.top = pics.refIdx
      /\ P!TopPic(put).type = IF d = 0 THEN "I" ELSE "P"
      /\ put.force => force
  BY <1>2, <1>3, PutInPhase
<1>5. /\ pics'.top = (put.top + 1) % 3
      /\ pics'.force <=> put.force /\ P!TopPic(put).type # "I"
      /\ pics'.disp = put.disp /\ pics'.gop = put.gop /\ pics'.newIntra = put.newIntra
      /\ pics'.pCount = put.pCount /\ pics'.bCount = put.bCount /\ pics'.first = put.first
      /\ pics'.refIdx = put.refIdx
  <2>1. LET r == P!PopPic(P!GotPic(put)) IN
         /\ r \in Pictures /\ r.top = (put.top + 1) % 3
         /\ r.force = (put.force /\ P!TopPic(put).type # "I")
         /\ r.disp = put.disp /\ r.gop = put.gop /\ r.newIntra = put.newIntra
         /\ r.pCount = put.pCount /\ r.bCount = put.bCount /\ r.first = put.first
         /\ r.refIdx = put.refIdx
    BY PopPicFacts
  <2>2. pics' = P!PopPic(P!GotPic(put))
    BY <1>2, <1>3
  <2>3. QED
    BY <2>1, <2>2
<1>6. ~pics'.force
  <2>1. CASE force
    <3>1. d = 0
      BY <1>3, <2>1 DEF PlaceIn, Opened
    <3>2. QED
      BY <1>4, <1>5, <3>1
  <2>2. CASE ~force
    BY <1>4, <1>5, <2>2
  <2>3. QED
    BY <2>1, <2>2
<1>7. pics'.disp >= 1 => pics'.pCount + 1 = pics'.disp
  <2>1. pics.pCount \in Nat /\ pics.disp \in Nat
    BY DEF Numbers, Pictures
  <2>2. CASE d = 0
    BY <1>3, <1>4, <1>5, <2>2
  <2>3. CASE d # 0
    <3>1. d = pics.disp /\ pics.pCount + 1 = pics.disp
      BY <1>3, <2>1, <2>3 DEF PlaceIn, PicsInv
    <3>2. QED
      BY <1>3, <1>4, <1>5, <2>1, <2>3, <3>1
  <2>4. QED
    BY <2>2, <2>3
<1>8. PicsInv'
  <2>1. ~Fresh'
    BY <1>4, <1>5 DEF Fresh
  <2>2. pics'.top = pics'.refIdx
    BY <1>4, <1>5
  <2>3. pics'.disp <= pics'.gop.p
    BY <1>3, <1>4, <1>5
  <2>4. QED
    BY <1>4, <1>5, <1>6, <1>7, <2>1, <2>2, <2>3 DEF PicsInv
<1>9. GopInPhase'
  <2>1. PICK r \in Counts : r = Popped(force)
    BY PutIsPictures DEF Numbers
  <2>2. /\ r.i = IF put.disp = 0 THEN 1 ELSE 0
        /\ r.i + r.p = (p + 1) - put.disp
        /\ r.last <=> d = p
    BY <1>2, <1>3, <2>1, CountsInPhase
  <2>3. gop'.i = r.i /\ gop'.p = r.p /\ gop'.last = r.last
    BY <1>2, <2>1 DEF Counts
  <2>4. QED
    BY <1>3, <1>4, <1>5, <2>2, <2>3 DEF GopInPhase, GopSize
<1>10. QED
  BY <1>2, <1>3, <1>4, <1>5, <1>8, <1>9

\* Every step keeps them in phase.
LEMMA PhaseNext == Apart /\ Numbers /\ PicsInv /\ GopInPhase /\ [Next]_vars => PicsInv' /\ GopInPhase'
<1> SUFFICES ASSUME Apart, Numbers, PicsInv, GopInPhase, [Next]_vars
             PROVE  PicsInv' /\ GopInPhase'
  OBVIOUS
<1>1. ASSUME UNCHANGED <<pics, gop>>
      PROVE  PicsInv' /\ GopInPhase'
  BY <1>1 DEF PicsInv, GopInPhase, GopSize, Fresh
<1>2. ASSUME NEW n \in Intervals, SetIntraInterval(n)
      PROVE  PicsInv' /\ GopInPhase'
  <2>1. pics' = [pics EXCEPT !.newIntra = n] /\ gop' = gop /\ n # 1
    BY <1>2 DEF SetIntraInterval, P!RegisterNewIntra, Apart
  <2>2. /\ pics'.gop = pics.gop /\ pics'.bCount = pics.bCount /\ pics'.force = pics.force
        /\ pics'.disp = pics.disp /\ pics'.pCount = pics.pCount /\ pics'.newIntra = n
        /\ pics'.first = pics.first /\ pics'.refIdx = pics.refIdx /\ pics'.top = pics.top
    BY <2>1 DEF Numbers, Pictures
  <2>3. QED
    BY <2>1, <2>2 DEF PicsInv, GopInPhase, GopSize, Fresh
<1>3. CASE UNCHANGED vars
  BY <1>1, <1>3 DEF vars
<1>4. ASSUME NEW b \in BitRates, SetBitRate(b)
      PROVE  PicsInv' /\ GopInPhase'
  BY <1>1, <1>4 DEF SetBitRate, ChangeAllocation
<1>5. ASSUME NEW f \in FrameRates, SetFrameRate(f) \/ PullDownRate(f)
      PROVE  PicsInv' /\ GopInPhase'
  BY <1>1, <1>5 DEF SetFrameRate, PullDownRate, ChangeAllocation
<1>6. QED
  BY <1>2, <1>3, <1>4, <1>5, PhaseEncode DEF Next

\* Unless an I frame is forced while a change of the interval waits, or the interval
\* becomes one picture, the counts bit allocation takes down as pictures are coded agree
\* with the counts the picture stack takes up as they come in, for any intervals
\* (irc_add_pic_to_stack, irc_update_pic_handling).
THEOREM GopsInPhase == Apart => (Spec => []GopInPhase)
<1> SUFFICES ASSUME Apart PROVE Spec => []GopInPhase
  OBVIOUS
<1>1. Numbers /\ PicsInv /\ GopInPhase /\ [Next]_vars => PicsInv' /\ GopInPhase'
  BY PhaseNext
<1>2. QED
  BY <1>1, NumbersInit, NumbersNext, PhaseInit, PTL DEF Spec

-----------------------------------------------------------------------------
(* The budget. *)

\* The frames owed to a GOP cut short, until their bits come.
Owed == IF gop.forced THEN gop.fif ELSE 0

\* The surplus of the budget, with the bits still owed and the bits saved, is what the
\* coded frames have gained.
Balanced ==
  /\ (Surplus(budget, gop.i + gop.p) + budget.perFrame * Owed) + saved = balance
  /\ budget.frames = GopSize

\* The frames owed and the frames left are numbers.
LEMMA OwedFacts ==
  ASSUME Numbers
  PROVE  Owed \in Nat /\ gop.i \in Int /\ gop.p \in Int
BY DEF Numbers, Counts, Owed

\* The budget starts with the bits of the period's frames.
LEMMA BalancedInit == Init => Balanced
<1> SUFFICES ASSUME Init PROVE Balanced
  OBVIOUS
<1>1. PICK n \in Intervals :
        /\ pics = P!InitPicHandling(n)
        /\ gop = [i |-> 1, p |-> n - 1, fif |-> 0, forced |-> FALSE, last |-> FALSE]
        /\ budget = [bits |-> PerFrame(First.bit, First.frame) * n * GopsInPeriod, frames |-> n,
                     gops |-> GopsInPeriod, perFrame |-> PerFrame(First.bit, First.frame)]
  BY DEF Init
<1>2. n \in Nat \ {0}
  BY RateControlAssumption
<1>3. PICK share \in Nat, gops \in Int :
        share = PerFrame(First.bit, First.frame) /\ gops = GopsInPeriod
  BY RatesAreNumbers, PerFrameFacts DEF GopsInPeriod
<1>4. GopSize = n
  <2>1. pics.gop = P!FindPicDistbn(n)
    BY <1>1 DEF P!InitPicHandling
  <2>2. QED
    BY <1>2, <2>1, DistbnFacts DEF GopSize
<1>5. budget.bits = share * n * gops /\ budget.frames = n /\ budget.gops = gops
      /\ budget.perFrame = share
  BY <1>1, <1>3
<1>6. gop.i + gop.p = n /\ Owed = 0 /\ saved = 0 /\ balance = 0
  BY <1>1, <1>2 DEF Init, Owed
<1>7. Surplus(budget, n) = share * n * gops - share * (n + (gops - 1) * n)
  BY <1>5 DEF Surplus
<1>8. share * n * gops - share * (n + (gops - 1) * n) = 0
  BY <1>2
<1>9. QED
  BY <1>4, <1>5, <1>6, <1>7, <1>8 DEF Balanced

\* What is owed is not lost when another GOP is cut short: only one may be owed.
LEMMA BalancedEncode ==
  ASSUME Corners = {}, Numbers, PicsInv, GopInPhase, Balanced,
         NEW force \in BOOLEAN, NEW scd \in BOOLEAN, NEW est \in Estimates,
         NEW miss \in Misses, Encode(force, est, miss, scd)
  PROVE  Balanced'
<1>1a. PICK isTrained \in BOOLEAN :
        \E bits, toSaved : Call(force, est, miss, scd, isTrained, bits, toSaved)
  BY EncodeParts
<1>1. PICK bits, toSaved : Call(force, est, miss, scd, isTrained, bits, toSaved)
  BY <1>1a
<1>2. /\ force => pics.newIntra = 0 /\ ~gop.forced
      /\ bits = IF isTrained THEN Larger(Target(est) + miss, 0) ELSE est
      /\ toSaved = IF mode = "VBR" /\ Popped(force).last
                   THEN ToSaved(After(force, scd, isTrained, bits), Size(force)) ELSE 0
      /\ pics' = P!PopPic(P!GotPic(Put(force)))
      /\ gop' = [Popped(force) EXCEPT !.forced = @ /\ ~isTrained]
      /\ budget' = [After(force, scd, isTrained, bits) EXCEPT !.bits = @ - toSaved]
      /\ saved' = saved + toSaved
      /\ balance' = balance + (budget.perFrame + ErrorBits(second)) - bits
  BY <1>1 DEF Call
<1>3. /\ budget \in Budgets /\ second \in Seconds /\ pics \in Pictures /\ gop \in Counts
      /\ saved \in Int /\ balance \in Int
      /\ pics.disp \in Nat /\ pics.gop.p \in Nat
  BY DEF Numbers, Pictures, Gops
<1>4. PICK d \in Nat, p \in Nat, put \in Pictures :
        d = PlaceIn(force) /\ p = NewP /\ d <= p /\ put = Put(force)
  BY <1>2, PutInPhase
<1>5. put.gop.p = p /\ put.disp = IF d = p THEN 0 ELSE d + 1
  BY <1>2, <1>4, PutInPhase
<1>6. PICK q \in Counts, r \in Counts : q = Queried(force) /\ r = Popped(force)
  BY <1>3, PutIsPictures
<1>7. /\ q.i + q.p = (p + 1) - d
      /\ q.forced <=> gop.forced \/ Opened(force)
      /\ q.fif = IF Opened(force) THEN pics.disp ELSE gop.fif
      /\ r.forced = q.forced /\ r.fif = q.fif
      /\ r.i + r.p = (p + 1) - put.disp
      /\ r.last <=> d = p
  BY <1>2, <1>4, <1>6, CountsInPhase
<1>8. PICK size \in Nat : size = Size(force) /\ size = p + 1
  BY <1>4, <1>5 DEF Size
<1>9. budget.frames = pics.gop.p + 1 /\ gop.i + gop.p = (pics.gop.p + 1) - pics.disp
  BY <1>3 DEF Balanced, GopInPhase, GopSize
<1>10. bits \in Int
  <2>1. est \in Nat /\ miss \in Int
    BY RatesAreNumbers
  <2>2. QED
    BY <1>2, <2>1, TargetFacts DEF Larger
<1>11. PICK error \in Int, share \in Nat, frames \in Nat :
         error = ErrorBits(second) /\ share = budget.perFrame /\ frames = budget.frames
  BY <1>3, NextFrameFacts DEF Budgets
<1>12. PICK left \in Int : left = (p - d) - (size - frames)
  OBVIOUS
<1>13. left + (size - frames) = p - d
  BY <1>12
<1>14. PICK owed \in Nat : owed = IF q.forced THEN q.fif ELSE 0
  BY DEF Counts
<1>15. PICK was \in Nat : was = Owed
  BY OwedFacts
\* The frame that is coded and the frames owed.
<1>16. Surplus(budget, left) + share * owed
         = (Surplus(budget, gop.i + gop.p) + share * was) + share
  <2>1. PICK now \in Int : now = gop.i + gop.p
    BY OwedFacts
  <2>2. PICK more \in Int : more = left - now
    OBVIOUS
  <2>3. Surplus(budget, now + more) = Surplus(budget, now) - budget.perFrame * more
        /\ Surplus(budget, now) \in Int
    BY <1>3, SurplusOfFrames
  <2>4. left = now + more
    BY <2>2
  <2>5. owed = was + more + 1
    <3>1. CASE Opened(force)
      <4>1. d = 0 /\ force /\ p = pics.gop.p
        BY <1>2, <1>4, <3>1 DEF Opened, PlaceIn, NewP, Takes
      <4>2. ~gop.forced
        BY <1>2, <4>1
      <4>3. was = 0 /\ owed = pics.disp
        BY <1>7, <1>14, <1>15, <3>1, <4>2 DEF Owed
      <4>4. now = (p + 1) - pics.disp /\ left = p
        BY <1>8, <1>9, <1>11, <1>12, <2>1, <4>1
      <4>5. QED
        BY <1>3, <2>2, <4>3, <4>4
    <3>2. CASE ~Opened(force)
      <4>1. d = pics.disp
        BY <1>4, <3>2 DEF PlaceIn
      <4>2. owed = was
        BY <1>7, <1>14, <1>15, <3>2 DEF Owed
      <4>3. frames = pics.gop.p + 1 /\ now = (pics.gop.p + 1) - pics.disp
        BY <1>9, <1>11, <2>1
      <4>4. left = (p - pics.disp) - ((p + 1) - (pics.gop.p + 1))
        BY <1>8, <1>12, <4>1, <4>3
      <4>5. more = - 1
        BY <1>3, <2>2, <4>3, <4>4
      <4>6. QED
        BY <4>2, <4>5
    <3>3. QED
      BY <3>1, <3>2
  <2>6. PICK surplus \in Int : surplus = Surplus(budget, now)
    BY <2>3
  <2>7. Surplus(budget, left) = surplus - share * more
    BY <1>11, <2>3, <2>4, <2>6
  <2>8. (surplus - share * more) + share * owed = (surplus + share * was) + share
    BY <2>5
  <2>9. QED
    BY <2>1, <2>6, <2>7, <2>8
<1>17. PICK paid \in Nat : paid = IF isTrained THEN owed ELSE 0
  OBVIOUS
<1>18. PICK after : after = After(force, scd, isTrained, bits)
  OBVIOUS
<1>19. PICK next \in Int : next = IF r.last THEN size ELSE left + (size - frames)
  <2>1. CASE r.last
    BY <2>1
  <2>2. CASE ~r.last
    BY <2>2
  <2>3. QED
    BY <2>1, <2>2, Zenon
<1>20. /\ after \in Budgets /\ after.frames = size /\ after.perFrame = share
       /\ Surplus(after, next) = (Surplus(budget, left) + share * paid) + (error - bits)
  <2>1. Popped(force).last => left + (Size(force) - budget.frames) = 0
    BY <1>6, <1>7, <1>8, <1>11, <1>13
  <2>2. PICK a : a = After(force, scd, isTrained, bits)
    OBVIOUS
  <2>3. /\ a \in Budgets /\ a.frames = Size(force) /\ a.perFrame = budget.perFrame
        /\ Surplus(a, IF Popped(force).last THEN Size(force)
                      ELSE left + (Size(force) - budget.frames))
             = (Surplus(budget, left)
                + IF isTrained /\ Queried(force).forced
                  THEN budget.perFrame * Queried(force).fif ELSE 0)
               + (ErrorBits(second) - bits)
    BY <1>10, <2>1, <2>2, AfterFacts
  <2>4. (IF isTrained /\ Queried(force).forced
         THEN budget.perFrame * Queried(force).fif ELSE 0) = share * paid
    BY <1>6, <1>11, <1>14, <1>17
  <2>5. (IF Popped(force).last THEN Size(force)
         ELSE left + (Size(force) - budget.frames)) = next
    BY <1>6, <1>8, <1>11, <1>19
  <2>6. QED
    BY <1>8, <1>11, <1>18, <2>2, <2>3, <2>4, <2>5, Zenon
<1>21. next = r.i + r.p
  <2>1. CASE r.last
    BY <1>5, <1>7, <1>8, <1>19, <2>1
  <2>2. CASE ~r.last
    BY <1>5, <1>7, <1>13, <1>19, <2>2
  <2>3. QED
    BY <2>1, <2>2
<1>22. toSaved \in Int
  <2>1. Size(force) \in Nat
    BY <1>8
  <2>2. ToSaved(after, Size(force)) \in Int
    BY <1>20, <2>1, ToSavedFacts
  <2>3. QED
    BY <1>2, <1>18, <2>2
<1>23. PICK x \in Int : x = after.bits - toSaved
  BY <1>20, <1>22 DEF Budgets
<1>24. budget' = [after EXCEPT !.bits = x]
  BY <1>2, <1>18, <1>23, Zenon
<1>25. budget'.bits = x /\ budget'.frames = size /\ budget'.perFrame = share
       /\ budget'.gops = after.gops
  BY <1>20, <1>24 DEF Budgets
<1>26. Surplus(budget', next) = Surplus(after, next) - toSaved /\ Surplus(after, next) \in Int
  <2>1. PICK n \in Int, g \in Int : n = after.bits /\ g = after.gops
    BY <1>20 DEF Budgets
  <2>2. PICK due \in Int : due = share * (next + (g - 1) * size)
    OBVIOUS
  <2>3. Surplus(after, next) = n - due
    BY <1>20, <2>1, <2>2 DEF Surplus
  <2>4. Surplus(budget', next) = x - due
    BY <1>25, <2>1, <2>2 DEF Surplus
  <2>5. QED
    BY <1>22, <1>23, <2>1, <2>3, <2>4
<1>27. gop'.i + gop'.p = next /\ Owed' = owed - paid
  <2>1. /\ gop'.i = r.i /\ gop'.p = r.p /\ gop'.fif = r.fif
        /\ gop'.forced <=> r.forced /\ ~isTrained
    BY <1>2, <1>6 DEF Counts
  <2>2. Owed' = IF gop'.forced THEN gop'.fif ELSE 0
    BY DEF Owed
  <2>3. CASE isTrained
    BY <1>14, <1>17, <1>21, <2>1, <2>2, <2>3
  <2>4. CASE ~isTrained
    BY <1>7, <1>14, <1>17, <1>21, <2>1, <2>2, <2>4
  <2>5. QED
    BY <2>3, <2>4
<1>28. (Surplus(budget', gop'.i + gop'.p) + budget'.perFrame * Owed') + saved' = balance'
  <2>1. PICK a \in Int, b \in Int, c \in Int :
          a = Surplus(after, next) /\ b = Surplus(budget, left) /\ c = Surplus(budget, gop.i + gop.p)
    <3>1. gop.i + gop.p \in Int
      BY OwedFacts
    <3>2. PICK now \in Int : now = gop.i + gop.p
      BY <3>1
    <3>3. Surplus(budget, left) \in Int /\ Surplus(budget, now) \in Int
      BY <1>3, SurplusOfFrames
    <3>4. QED
      BY <1>26, <3>2, <3>3
  <2>2. a = (b + share * paid) + (error - bits)
    BY <1>20, <2>1
  <2>3. b + share * owed = (c + share * was) + share
    BY <1>16, <2>1
  <2>4. (c + share * was) + saved = balance
    BY <1>11, <1>15, <2>1 DEF Balanced
  <2>5. saved' = saved + toSaved /\ balance' = balance + (share + error) - bits
    BY <1>2, <1>11
  <2>6. Surplus(budget', gop'.i + gop'.p) = a - toSaved
    BY <1>26, <1>27, <2>1
  <2>7. share * (owed - paid) = share * owed - share * paid
    OBVIOUS
  <2>8. ((a - toSaved) + share * (owed - paid)) + (saved + toSaved) = balance + (share + error) - bits
    BY <1>3, <1>10, <1>22, <2>2, <2>3, <2>4, <2>7
  <2>9. QED
    BY <1>25, <1>27, <2>5, <2>6, <2>8
<1>29. pics'.gop = put.gop
  BY <1>2, <1>4, PopPicFacts
<1>30. QED
  BY <1>5, <1>8, <1>25, <1>28, <1>29 DEF Balanced, GopSize

\* A change of the rates keeps the surplus: no frames are owed then.
LEMMA BalancedRates ==
  ASSUME Corners = {}, Numbers, Balanced,
         NEW b \in BitRates, NEW f \in FrameRates, NEW source \in FrameRates,
         ChangeAllocation(b, f, source)
  PROVE  Balanced'
<1>1. /\ budget' \in Budgets /\ budget'.frames = budget.frames
      /\ budget'.perFrame = PerFrame(b, f)
      /\ Surplus(budget', gop.i + gop.p) = Surplus(budget, gop.i + gop.p)
      /\ gop.forced => "untrained" \in Corners
      /\ UNCHANGED <<pics, gop, saved, balance>>
  BY ChangeAllocationFacts
<1>2. Owed = 0 /\ Owed' = 0
  BY <1>1 DEF Owed
<1>3. PICK x \in Nat, y \in Nat : x = budget.perFrame /\ y = budget'.perFrame
  BY <1>1 DEF Numbers, Budgets
<1>4. budget.perFrame * Owed = 0 /\ budget'.perFrame * Owed' = 0
  <2>1. x * 0 = 0 /\ y * 0 = 0
    OBVIOUS
  <2>2. QED
    BY <1>2, <1>3, <2>1
<1>5. (Surplus(budget', gop'.i + gop'.p) + budget'.perFrame * Owed') + saved' = balance'
  <2>1. gop' = gop /\ saved' = saved /\ balance' = balance
    BY <1>1
  <2>2. (Surplus(budget, gop.i + gop.p) + budget.perFrame * Owed) + saved = balance
    BY DEF Balanced
  <2>3. QED
    BY <1>1, <1>4, <2>1, <2>2
<1>6. QED
  BY <1>1, <1>5 DEF Balanced, GopSize

\* The balance is kept by every step.
LEMMA BalancedNext ==
  Corners = {} /\ Numbers /\ PicsInv /\ GopInPhase /\ Balanced /\ [Next]_vars => Balanced'
<1> SUFFICES ASSUME Corners = {}, Numbers, PicsInv, GopInPhase, Balanced, [Next]_vars
             PROVE  Balanced'
  OBVIOUS
<1>1. CASE UNCHANGED vars
  BY <1>1 DEF vars, allocVars, history, Balanced, GopSize, Owed, Surplus
<1>2. rates.bit \in BitRates /\ rates.frame \in FrameRates /\ rates.source \in FrameRates
  BY DEF Numbers
<1>3. ASSUME NEW b \in BitRates, SetBitRate(b) PROVE Balanced'
  BY <1>2, <1>3, BalancedRates DEF SetBitRate
<1>4. ASSUME NEW f \in FrameRates, SetFrameRate(f) \/ PullDownRate(f) PROVE Balanced'
  BY <1>2, <1>4, BalancedRates DEF SetFrameRate, PullDownRate
<1>5. ASSUME NEW n \in Intervals, SetIntraInterval(n) PROVE Balanced'
  <2>1. pics' = [pics EXCEPT !.newIntra = n] /\ UNCHANGED <<gop, budget, saved, balance>>
    BY <1>5 DEF SetIntraInterval, allocVars, history, P!RegisterNewIntra
  <2>2. pics'.gop = pics.gop
    BY <2>1 DEF Numbers, Pictures
  <2>3. QED
    BY <2>1, <2>2 DEF Balanced, GopSize, Owed, Surplus
<1>6. ASSUME NEW force \in BOOLEAN, NEW scd \in BOOLEAN, NEW est \in Estimates,
             NEW miss \in Misses, Encode(force, est, miss, scd)
      PROVE  Balanced'
  BY <1>6, BalancedEncode
<1>7. QED
  BY <1>1, <1>3, <1>4, <1>5, <1>6 DEF Next

\* The balance is the run's property.
LEMMA BalancedBudget == Numbers /\ Balanced => BudgetBalanced
<1> SUFFICES ASSUME Numbers, Balanced PROVE BudgetBalanced
  OBVIOUS
<1>1. PICK n \in Int, f \in Nat, g \in Int, p \in Nat :
        n = budget.bits /\ f = budget.frames /\ g = budget.gops /\ p = budget.perFrame
  BY DEF Numbers, Budgets
<1>2. PICK left \in Int, owed \in Nat : left = gop.i + gop.p /\ owed = Owed
  BY OwedFacts
<1>3. saved \in Int /\ balance \in Int
  BY DEF Numbers
<1>4. ((n - p * (left + (g - 1) * f)) + p * owed) + saved = balance
  BY <1>1, <1>2 DEF Balanced, Surplus
<1>5. PICK h \in Int : h = (g - 1) * f
  OBVIOUS
<1>6. p * (left + h) - p * owed = p * ((left + h) - owed)
  OBVIOUS
<1>7. n + saved = balance + p * ((left + h) - owed)
  BY <1>3, <1>4, <1>5, <1>6
<1>8. QED
  BY <1>1, <1>2, <1>5, <1>7 DEF BudgetBalanced, Owed

\* For any rates, intervals, estimates and misses, the bits left in the period are those
\* of the frames left in it, at the current rate, corrected by what the coded frames have
\* gained or lost, whatever I frames are forced, scenes change, and intervals and rates
\* are set (irc_ba_update_cur_frm_consumed_bits, irc_ba_change_remaining_bits_in_period),
\* as long as an I frame is not forced while a change of the interval waits, the interval
\* does not become one picture, and nothing is changed while the bits of a forced I frame
\* wait for the model to be trained.
THEOREM BudgetKept == Corners = {} => (Spec => []BudgetBalanced)
<1> SUFFICES ASSUME Corners = {} PROVE Spec => []BudgetBalanced
  OBVIOUS
<1>1. Apart
  BY DEF Apart
<1>2. Numbers /\ PicsInv /\ GopInPhase /\ [Next]_vars => PicsInv' /\ GopInPhase'
  BY <1>1, PhaseNext
<1>3. Numbers /\ PicsInv /\ GopInPhase /\ Balanced /\ [Next]_vars => Balanced'
  BY BalancedNext
<1>4. QED
  BY <1>2, <1>3, NumbersInit, NumbersNext, PhaseInit, BalancedInit, BalancedBudget, PTL
     DEF Spec
=============================================================================
