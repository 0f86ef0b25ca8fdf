----------------------------- MODULE RefMarking -----------------------------
(***************************************************************************)
(* What a stream says of its reference pictures: the marking of section     *)
(* 8.2.5 of H.264 for frames, over sets.  It is the specification the lists *)
(* of decoder/ih264d_dpb_mgr.c implement, and it drives the generator of    *)
(* conforming streams.  A marking m has                                     *)
(*   short   the short-term pictures, records [pic, fn] of a picture and    *)
(*           its frame number,                                              *)
(*   long    the long-term pictures, a function from their indices,         *)
(*   max     the largest index allowed, -1 when there is none.              *)
(* A command is a record [op, num, idx]: op is the value of                 *)
(* memory_management_control_operation, num the picture number it names     *)
(* and idx an index (for 4, the largest index plus one).                    *)
(***************************************************************************)
EXTENDS Integers, FiniteSets, FiniteSetsExt, Sequences

CONSTANTS
  MaxFrameNum,      \* frame numbers are below it
  MaxIdx            \* the largest long-term index a stream uses

Nothing == [short |-> {}, long |-> <<>>, max |-> -1]

Size(m) == Cardinality(m.short) + Cardinality(DOMAIN m.long)

\* FrameNumWrap, which is PicNum for frames: numbers above the current one
\* are from before the last wrap.
Wrap(fn, cur) == IF fn > cur THEN fn - MaxFrameNum ELSE fn

Without(f, S) == [i \in DOMAIN f \ S |-> f[i]]
With(f, i, v) == [j \in DOMAIN f \cup {i} |-> IF j = i THEN v ELSE f[j]]

\* 8.2.5.3: when the window is full, the short-term picture with the smallest
\* FrameNumWrap leaves it.
Slide(m, cur, size) ==
  IF Size(m) < size \/ m.short = {} THEN m
  ELSE LET low == Min({Wrap(s.fn, cur) : s \in m.short}) IN
       [m EXCEPT !.short = {s \in @ : Wrap(s.fn, cur) # low}]

\* 8.2.5.4: one command of a picture with picture number cur.
Apply(m, c, cur, pic) ==
  CASE c.op = 1 -> [m EXCEPT !.short = {s \in @ : Wrap(s.fn, cur) # c.num}]
    [] c.op = 2 -> [m EXCEPT !.long = Without(@, {c.idx})]
    [] c.op = 3 -> LET s == CHOOSE s \in m.short : Wrap(s.fn, cur) = c.num IN
                   [m EXCEPT !.short = @ \ {s}, !.long = With(@, c.idx, s.pic)]
    [] c.op = 4 -> [m EXCEPT !.long = Without(@, {i \in DOMAIN @ : i >= c.idx}),
                             !.max = c.idx - 1]
    [] c.op = 5 -> Nothing
    [] c.op = 6 -> [m EXCEPT !.long = With(@, c.idx, pic)]

Resets(cmds) == \E i \in DOMAIN cmds : cmds[i].op = 5
MarksLong(cmds) == \E i \in DOMAIN cmds : cmds[i].op = 6

\* The frame number a picture is remembered by.
MarkedNum(cmds, cur) == IF Resets(cmds) THEN 0 ELSE cur

Commands(m, cmds, cur, pic) ==
  LET after[i \in 0 .. Len(cmds)] ==
        IF i = 0 THEN m ELSE Apply(after[i - 1], cmds[i], cur, pic)
  IN after[Len(cmds)]

\* A reference picture that is not an IDR picture: the window, or its commands.
Mark(m, adaptive, cmds, cur, pic, size) ==
  LET a == IF adaptive THEN Commands(m, cmds, cur, pic) ELSE Slide(m, cur, size) IN
  IF MarksLong(cmds) THEN a
  ELSE [a EXCEPT !.short = @ \cup {[pic |-> pic, fn |-> MarkedNum(cmds, cur)]}]

\* An IDR picture, with long_term_reference_flag or without.
MarkIdr(pic, isLong) ==
  IF isLong THEN [short |-> {}, long |-> With(<<>>, 0, pic), max |-> 0]
  ELSE [Nothing EXCEPT !.short = {[pic |-> pic, fn |-> 0]}]

-----------------------------------------------------------------------------
AnyCommand == [op : 1 .. 6, num : Int, idx : Nat]

\* The commands a conforming stream may send next, with marking m.
NextCommands(m, cur) ==
  LET nums == {Wrap(s.fn, cur) : s \in m.short} IN
  [op : {1}, num : nums, idx : {0}]
  \cup [op : {2}, num : {0}, idx : DOMAIN m.long]
  \cup [op : {3}, num : nums, idx : 0 .. m.max]
  \cup [op : {4}, num : {0}, idx : 0 .. MaxIdx + 1]
  \cup [op : {5}, num : {0}, idx : {0}]
  \cup [op : {6}, num : {0}, idx : 0 .. m.max]

\* Lists of at most n commands, each allowed after those before it: 5 and 6
\* appear once, 5 not with 1, 3 or 4, and 6 is the last.
CommandLists(m, cur, pic, n) ==
  LET Extend(S) ==
        S \cup {Append(p[1], p[2]) :
                p \in {q \in UNION {{s} \X NextCommands(Commands(m, s, cur, pic), cur) : s \in S} :
                       /\ ~MarksLong(q[1])
                       /\ q[2].op = 5 => q[1] = <<>>
                       /\ Resets(q[1]) => q[2].op \notin {1, 3, 4}}}
      lists[k \in 0 .. n] == IF k = 0 THEN {<<>>} ELSE Extend(lists[k - 1])
  IN lists[n]
=============================================================================
