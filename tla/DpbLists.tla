------------------------------ MODULE DpbLists ------------------------------
(***************************************************************************)
(* The reference lists of decoder/ih264d_dpb_mgr.c for frames: an array of  *)
(* nodes, the short-term list linked from the most recent picture, the      *)
(* long-term list linked by ascending index, and a count of each.  Streams  *)
(* do not allow gaps in frame numbers, so that u1_num_gaps is zero and      *)
(* ih264d_delete_gap_frm_* do nothing.                                      *)
(* A state l has node, st and lt (the heads), nst and nlt (the counts) and  *)
(* max (u1_max_lt_frame_idx).  An operation returns [l, rel, ok]: the new   *)
(* state, the picture buffers whose reference it releases, and whether it   *)
(* succeeded.  Nil is the null pointer; reading through it gives Nil, and   *)
(* the property InStep says that it never happens.                          *)
(***************************************************************************)
EXTENDS Integers, FiniteSets, FiniteSetsExt, Sequences

CONSTANTS
  NumNodes,         \* MAX_REF_BUFS
  NoBuf             \* no picture buffer

Nodes == 1 .. NumNodes
Nil == 0
NoIdx == NumNodes + 1           \* MAX_REF_BUFS + 1: no long-term index
NoLong == 255                   \* NO_LONG_TERM_INDICIES

\* A node: its use, buffer, picture number (i4_frame_num), long-term index and
\* links (ps_prev_short, ps_prev_long).
EmptyNode == [use |-> "no", buf |-> NoBuf, num |-> 0, lt |-> NoIdx, ps |-> Nil, pl |-> Nil]

Empty == [node |-> [n \in Nodes |-> EmptyNode], st |-> Nil, lt |-> Nil,
          nst |-> 0, nlt |-> 0, max |-> NoLong]

Done(l, rel) == [l |-> l, rel |-> rel, ok |-> TRUE]
Fail(l) == [l |-> l, rel |-> {}, ok |-> FALSE]

PrevShort(l, n) == IF n = Nil THEN Nil ELSE l.node[n].ps

\* The k-th node from a head, following links, and the k-th node of each list.
NodeAt(head, link, k) ==
  LET at[i \in 1 .. k] == IF i = 1 THEN head
                          ELSE IF at[i - 1] = Nil THEN Nil ELSE link[at[i - 1]]
  IN at[k]
ShortAt(l, k) == NodeAt(l.st, [n \in Nodes |-> l.node[n].ps], k)
LongAt(l, k) == NodeAt(l.lt, [n \in Nodes |-> l.node[n].pl], k)

\* ih264d_insert_st_node takes the first unused node, unless it has met the
\* same picture in use before it.
InsertShort(l, b, num) ==
  LET unused == {n \in Nodes : l.node[n].use = "no"}
      first == Min(unused)
  IN IF \/ unused = {}
        \/ \E n \in Nodes : n < first /\ l.node[n].buf = b
     THEN Fail(l)
     ELSE Done([l EXCEPT !.node[first] = [@ EXCEPT !.use = "short", !.buf = b, !.num = num,
                                                   !.lt = NoIdx, !.ps = l.st],
                         !.st = first, !.nst = @ + 1], {})

\* The position of the node with a picture number; nst + 1 when there is none.
Find(l, num) == Min({k \in 1 .. l.nst : l.node[ShortAt(l, k)].num = num} \cup {l.nst + 1})

\* The short-term list without its k-th node.
Unlink(l, k) ==
  LET n == ShortAt(l, k)
      m == [l EXCEPT !.node[n].use = "no", !.nst = @ - 1]
  IN IF k = 1 THEN [m EXCEPT !.st = l.node[n].ps]
     ELSE [m EXCEPT !.node[ShortAt(l, k - 1)].ps = l.node[n].ps]

\* ih264d_delete_lt_node.  An index that is not there is reported by a status.
DeleteLong(l, idx) ==
  LET k == Min({k \in 1 .. l.nlt : l.node[LongAt(l, k)].lt = idx} \cup {l.nlt + 1})
      n == LongAt(l, k)
      m == IF k = 1 THEN [l EXCEPT !.lt = l.node[n].pl]
           ELSE [l EXCEPT !.node[LongAt(l, k - 1)].pl = l.node[n].pl]
  IN IF k > l.nlt THEN Done(l, {})
     ELSE Done([m EXCEPT !.node[n] = [@ EXCEPT !.use = "no", !.lt = NoIdx, !.pl = Nil],
                         !.nlt = @ - 1], {l.node[n].buf})
HasLong(l, idx) == \E k \in 1 .. l.nlt : l.node[LongAt(l, k)].lt = idx

\* ih264d_insert_lt_node: behind the nodes with smaller indices.
InsertLong(l, n, idx) ==
  LET smaller == {k \in 1 .. l.nlt : \A j \in 1 .. k : l.node[LongAt(l, j)].lt <= idx}
      m == [l EXCEPT !.node[n].lt = idx, !.node[n].use = "long", !.nlt = @ + 1]
  IN CASE l.nlt = 0 -> [m EXCEPT !.lt = n, !.node[n].pl = Nil]
       [] l.nlt > 0 /\ smaller = {} -> [m EXCEPT !.lt = n, !.node[n].pl = l.lt]
       [] OTHER -> LET p == LongAt(l, Max(smaller)) IN
                   [m EXCEPT !.node[n].pl = l.node[p].pl, !.node[p].pl = n]

\* ih264d_delete_st_node_or_make_lt, without an index and with one.
DeleteShort(l, num) ==
  LET k == Find(l, num) IN
  IF k > l.nst THEN Fail(l)
  ELSE LET n == ShortAt(l, k) IN
       Done([Unlink(l, k) EXCEPT !.node[n].ps = Nil], {l.node[n].buf})
MakeLongBeside(l, num, idx) ==          \* mutant of MakeLong
  LET k == Find(l, num) IN
  IF k > l.nst THEN Fail(l)
  ELSE Done(InsertLong(Unlink(l, k), ShortAt(l, k), idx), {})

MakeLong(l, num, idx) ==
  LET k == Find(l, num)
      d == DeleteLong(Unlink(l, k), idx)
  IN IF k > l.nst THEN Fail(l)
     ELSE Done(InsertLong(d.l, ShortAt(l, k), idx), d.rel)

\* ih264d_reset_ref_bufs.
ResetRefs(l) ==
  Done([l EXCEPT !.node = [n \in Nodes |-> IF @[n].use = "no" THEN @[n] ELSE EmptyNode],
                 !.st = Nil, !.lt = Nil, !.nst = 0, !.nlt = 0],
       {l.node[n].buf : n \in {n \in Nodes : l.node[n].use # "no"}})

\* SET_MAX_LT_INDEX: the list is cut before the first index that is too large.
SetMaxLong(l, plus1) ==
  LET keep == Min({k \in 0 .. l.nlt : k = l.nlt \/ l.node[LongAt(l, k + 1)].lt >= plus1})
      cut == {LongAt(l, k) : k \in keep + 1 .. l.nlt}
      m == [l EXCEPT !.max = IF plus1 = 0 THEN NoLong ELSE plus1 - 1]
  IN IF plus1 > l.max \/ l.nlt = 0 THEN Done(m, {})
     ELSE Done([m EXCEPT !.lt = IF keep = 0 THEN Nil ELSE @, !.nlt = keep,
                         !.node = [n \in Nodes |->
                                   IF n \in cut
                                   THEN [@[n] EXCEPT !.use = "no", !.buf = NoBuf,
                                                     !.lt = NoIdx, !.pl = Nil]
                                   ELSE IF keep > 0 /\ n = LongAt(l, keep)
                                        THEN [@[n] EXCEPT !.pl = Nil]
                                        ELSE @[n]]],
               {l.node[n].buf : n \in cut})

\* The node at the end of the short-term list leaves the window.
DropLast(l) ==
  LET n == ShortAt(l, l.nst)
      m == [l EXCEPT !.node[n] = [@ EXCEPT !.use = "no", !.buf = NoBuf, !.ps = Nil],
                     !.nst = @ - 1]
  IN Done(IF l.nst = 1 THEN [m EXCEPT !.st = Nil]
          ELSE [m EXCEPT !.node[ShortAt(l, l.nst - 1)].ps = Nil], {l.node[n].buf})

\* A node with the number of the current picture gives up its place.  When it
\* is the only one the head of the list still points to it.
Repeated(l, cur) == \E k \in 1 .. Max({1, l.nst - 2}) : l.node[ShortAt(l, k)].num = cur
DropRepeated(l) ==
  IF l.nst > 1 THEN Done(l, {})
  ELSE Done([l EXCEPT !.node[l.st].use = "no", !.node[l.st].buf = NoBuf, !.nst = 0],
            {l.node[l.st].buf})

\* ih264d_do_mmco_buffer without commands.
SlidingWindow(l, cur, size) ==
  CASE l.nst + l.nlt # size -> Done(l, {})
    [] l.nst + l.nlt = size /\ l.nst = 0 -> Fail(l)
    [] l.nst + l.nlt = size /\ l.nst > 0 ->
         IF l.nst > 1 /\ PrevShort(l, ShortAt(l, l.nst)) # Nil THEN Fail(l)
         ELSE IF Repeated(l, cur) THEN DropRepeated(l)
         ELSE DropLast(l)

\* One command of ih264d_do_mmco_buffer, for the picture in buffer b.
Command(l, c, cur, b) ==
  LET allowed == l.max # NoLong /\ c.idx <= l.max IN
  CASE c.op = 1 -> IF l.nst > 0 THEN DeleteShort(l, c.num) ELSE Done(l, {})
    [] c.op = 2 -> IF l.nlt > 0 /\ ~HasLong(l, c.idx) THEN Fail(l) ELSE DeleteLong(l, c.idx)
    [] c.op = 3 -> IF ~allowed THEN Fail(l)
                   ELSE IF l.nst > 0 THEN MakeLong(l, c.num, c.idx) ELSE Done(l, {})
    [] c.op = 4 -> SetMaxLong(l, c.idx)
    [] c.op = 5 -> ResetRefs(l)
    [] c.op = 6 -> LET i == InsertShort(l, b, cur) IN
                   IF ~allowed \/ ~i.ok THEN Fail(l) ELSE MakeLong(i.l, cur, c.idx)

\* ih264d_do_mmco_buffer: the first command that fails ends it, and after a
\* reset the current picture has number 0.
Obey(a, c, b) ==
  LET r == Command(a.l, c, a.cur, b) IN
  IF ~a.ok THEN a
  ELSE [l |-> r.l, rel |-> a.rel \cup r.rel, ok |-> r.ok,
        cur |-> IF c.op = 5 THEN 0 ELSE a.cur]
Commands(l, cmds, cur, b) ==
  LET after[i \in 0 .. Len(cmds)] ==
        IF i = 0 THEN [l |-> l, rel |-> {}, ok |-> TRUE, cur |-> cur]
        ELSE Obey(after[i - 1], cmds[i], b)
  IN after[Len(cmds)]
\* The current picture is put at the head of the list, unless a command made
\* it a long-term one.
ListCurrent(a, cmds, b) ==
  LET long == \E j \in DOMAIN cmds : cmds[j].op = 6 IN
  IF a.ok /\ ~long THEN [InsertShort(a.l, b, a.cur) EXCEPT !.rel = a.rel]
  ELSE [l |-> a.l, rel |-> a.rel, ok |-> a.ok]
DoMmcoBuffer(l, adaptive, cmds, cur, b, size) ==
  LET s == SlidingWindow(l, cur, size) IN
  ListCurrent(IF adaptive THEN Commands(l, cmds, cur, b)
              ELSE [l |-> s.l, rel |-> s.rel, ok |-> s.ok, cur |-> cur], cmds, b)

\* The IDR picture at the end of ih264d_end_of_pic_processing.
MarkIdr(l, b, isLong) ==
  LET r == ResetRefs(l)
      s == InsertShort(r.l, b, 0)
      i == InsertShort(l, b, 0)
      m == MakeLong(i.l, 0, 0)
  IN IF isLong
     THEN IF i.ok /\ m.ok THEN [m EXCEPT !.l.max = 0] ELSE Done([i.l EXCEPT !.max = 0], {})
     ELSE [s EXCEPT !.l.max = NoLong, !.rel = r.rel]

\* ih264d_assign_pic_num: numbers above the current one are from before the
\* wrap.  fn gives the frame number of the picture in a buffer.
AssignPicNum(l, cur, fn, maxFn) ==
  LET listed == {ShortAt(l, k) : k \in 1 .. l.nst}
      Num(n) == LET f == fn[l.node[n].buf] IN IF f > cur THEN f - maxFn ELSE f
  IN [l EXCEPT !.node = [n \in Nodes |-> IF n \in listed THEN [@[n] EXCEPT !.num = Num(n)]
                                         ELSE @[n]]]
=============================================================================
