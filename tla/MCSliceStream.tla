--------------------------- MODULE MCSliceStream ---------------------------
(* Elements that make zero bytes, bytes below 4 and lengths that leave any   *)
(* alignment; three rows of the table of ranges: equal chances, a skewed one *)
(* and the most skewed one.                                                  *)
EXTENDS SliceStream

ue(v) == [kind |-> "ue", value |-> v]
se(v) == [kind |-> "se", value |-> v]
u(v, n) == [kind |-> "u", bits |-> Bin(v, n)]

McElements == {ue(0), ue(30), se(-2), u(0, 16), u(3, 8), u(0, 7)}
McHeaders == {<<ue(0)>>, <<u(0, 16)>>, <<u(0, 16), u(3, 8)>>, <<u(0, 16), u(0, 16), u(3, 8)>>}
McBypassBins == {Bin(1, 8), Bin(16, 10), Bin(255, 8), Bin(257, 16)}
McRangeLps == [s \in CtxState |->
                  CASE s = 0 -> <<128, 176, 208, 240>>
                    [] s = 35 -> <<23, 28, 33, 39>>
                    [] s = 62 -> <<6, 7, 8, 9>>]
============================================================================
