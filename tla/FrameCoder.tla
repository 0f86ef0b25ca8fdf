----------------------------- MODULE FrameCoder -----------------------------
(***************************************************************************)
(* What coding one picture promises the caller of ih264e_encode: NumMbs    *)
(* macroblocks are written to the bitstream in the order MbAt, one after   *)
(* the other, and the picture is returned when all of them are.  Nothing   *)
(* here knows of rows, jobs or threads.                                    *)
(***************************************************************************)
EXTENDS Naturals, Sequences

CONSTANTS NumMbs, MbAt

VARIABLES phase, out

fcVars == <<phase, out>>

FCInit == phase = "idle" /\ out = <<>>

FCStart  == phase = "idle" /\ phase' = "coding" /\ out' = <<>>

FCWrite ==
  /\ phase = "coding" /\ Len(out) < NumMbs
  /\ out' = Append(out, MbAt[Len(out) + 1])
  /\ UNCHANGED phase

FCFinish == phase = "coding" /\ Len(out) = NumMbs /\ phase' = "done" /\ UNCHANGED out

FCReturn == phase = "done" /\ phase' = "idle" /\ UNCHANGED out

FCNext == FCStart \/ FCWrite \/ FCFinish \/ FCReturn

FCSpec == FCInit /\ [][FCNext]_fcVars
=============================================================================
