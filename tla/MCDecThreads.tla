---------------------------- MODULE MCDecThreads ----------------------------
(***************************************************************************)
(* Instances of DecThreads for TLC.                                        *)
(***************************************************************************)
EXTENDS DecThreads

\* A slice is skipped in the last call only, so that the entries an earlier
\* picture left are there; with SkipsAlways (and SlicesParsed for the property)
\* the table entry of a skipped slice is seen to be an earlier picture's.
SkipsAtLast == [c \in 0..MaxCalls |-> IF c = MaxCalls THEN 1 ELSE 0]
SkipsAlways == [c \in 0..MaxCalls |-> 1]
=============================================================================
