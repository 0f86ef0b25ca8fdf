------------------------------- MODULE BufMgr -------------------------------
(***************************************************************************)
(* The buffer manager of common/ih264_buf_mgr.c: which buffers are in use, *)
(* and what for.  A manager is a function from buffer ids to sets of flags, *)
(* the bits of au4_status; the flag "busy" stands for the value 1 that      *)
(* ih264_buf_mgr_get_next_free writes, and a free buffer has no flag.       *)
(* Every operation holds the manager's mutex from beginning to end.         *)
(***************************************************************************)
EXTENDS Integers, FiniteSetsExt

CONSTANT Bufs       \* the ids of the buffers added, 0 .. i4_active_buf_cnt - 1

Flags == {"busy", "REF", "IO", "CODEC"}

Managers == [Bufs -> SUBSET Flags]

\* Every buffer added, none handed out.
AllFree == [b \in Bufs |-> {}]

FreeBufs(m) == {b \in Bufs : m[b] = {}}

HasFree(m) == FreeBufs(m) # {}

\* ih264_buf_mgr_get_next_free: the free buffer with the lowest id, and the
\* manager once it is taken.
NextFree(m) == Min(FreeBufs(m))
Take(m) == [m EXCEPT ![NextFree(m)] = {"busy"}]

\* ih264_buf_mgr_set_status refuses a flag that is already set.
SetStatus(m, b, flag) == [m EXCEPT ![b] = @ \cup {flag}]

\* ih264_buf_mgr_release: a buffer nobody has marked any more is free.
Release(m, b, flag) ==
  [m EXCEPT ![b] = IF @ \ {flag} = {"busy"} THEN {} ELSE @ \ {flag}]
=============================================================================
