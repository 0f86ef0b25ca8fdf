---------------------------- MODULE MCRateControl ---------------------------
(***************************************************************************)
(* Small rates: three or two frames a second, 100 or 140 bits a second, so  *)
(* that a second's bits are no multiple of its frames.                     *)
(***************************************************************************)
EXTENDS RateControl

MCFirst == [bit |-> 100, frame |-> 3000]
=============================================================================
