---------------------------- MODULE MCEncSequence ---------------------------
(* EncSequence with small numbers for TLC: the configurations of its runs. *)
EXTENDS EncSequence

\* Two B pictures, closed GOPs of six, recon, forced I and IDR pictures, skipped
\* sources, and the end of the stream on the last picture or after it.
TwoB == [numB |-> 2, maxRef |-> 2, intra |-> 6, idr |-> 12, recon |-> TRUE,
         altRef |-> 0, pics |-> 8, requests |-> {"I", "IDR"}, changes |-> {},
         skips |-> {"feed"}, nulls |-> FALSE, ends |-> {"picture", "after"},
         overflows |-> FALSE]

\* The intra interval changes, with short GOPs of every shape.
Changing == [TwoB EXCEPT !.intra = 4, !.idr = 60, !.recon = FALSE, !.pics = 12,
                         !.requests = {}, !.changes = {4, 5, 6}, !.skips = {},
                         !.ends = {"after"}]

\* No B pictures and one reference; the bitstream may overflow.
NoB == [TwoB EXCEPT !.numB = 0, !.maxRef = 1, !.intra = 3, !.idr = 6, !.pics = 8,
                    !.requests = {"IDR"}, !.skips = {}, !.nulls = TRUE,
                    !.ends = {"after"}, !.overflows = TRUE]

\* No B pictures, and one P picture in three is a reference.
AltRefs == [NoB EXCEPT !.maxRef = 2, !.intra = 5, !.idr = 10, !.altRef = 2,
                       !.requests = {"I", "IDR"}, !.overflows = FALSE]

Sound == {TwoB, Changing, NoB, AltRefs}

\* Nothing but pictures; with these in place of Sound it is seen what goes wrong
\* (NoGaps with SmallGop, RefsFit with AltRefsB).
Plain == [TwoB EXCEPT !.intra = 4, !.idr = 8, !.pics = 8, !.requests = {},
                      !.skips = {}, !.ends = {"after"}]
SmallGop == {[Plain EXCEPT !.intra = 3, !.idr = 6]}
AltRefsB == {[Plain EXCEPT !.altRef = 1]}
=============================================================================
