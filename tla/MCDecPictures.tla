--------------------------- MODULE MCDecPictures ---------------------------
(***************************************************************************)
(* Instances of DecPictures for TLC.  Each configuration is made to reach   *)
(* one kind of case, and has a stream as long as that takes.                *)
(***************************************************************************)
EXTENDS DecPictures

Plain == [numRef |-> 1, dpbSize |-> 1, reorder |-> 0, vui |-> TRUE, frameOut |-> FALSE,
          shared |-> FALSE, lossy |-> FALSE, cmds |-> 0, trail |-> 1, quiet |-> TRUE,
          idrNext |-> TRUE, length |-> 5, flushes |-> 1]

\* Reference marking: windows and commands.
Commanded == [Plain EXCEPT !.numRef = 2, !.cmds = 2]

\* Display out of the order of decoding, with a flush between pictures; six
\* pictures, for with five the buffers suffice whatever trail is.
Reordered == [Plain EXCEPT !.reorder = 1, !.trail = 2, !.flushes = 2]
Trailing == [Reordered EXCEPT !.flushes = 1, !.length = 6]
NoVui == [Plain EXCEPT !.reorder = 2, !.trail = 3, !.vui = FALSE, !.dpbSize = 3]

\* Both.
Both == [Plain EXCEPT !.numRef = 2, !.cmds = 1, !.reorder = 1, !.length = 4]

\* Each picture shown by the call that decodes it.
AtOnce == [Plain EXCEPT !.frameOut = TRUE, !.cmds = 1, !.numRef = 2, !.length = 4]

\* Buffers shared with the application.
Shared == [Plain EXCEPT !.shared = TRUE, !.flushes = 2]

\* Pictures lost before the decoder: the marking meets repeated and missing
\* pictures, and with one reference frame the buffers run out.
Lossy == [Plain EXCEPT !.lossy = TRUE, !.numRef = 2, !.cmds = 1, !.length = 4]
LossyOne == [Plain EXCEPT !.lossy = TRUE, !.cmds = 1]

SoundConfigs == {Commanded, Reordered, Trailing, NoVui, Both, AtOnce, Shared, Lossy, LossyOne}

\* They are within what the buffers and the delay are sized for, as the theorems
\* of DecDisplayProofs assume.
ASSUME ConfigsFit == \A c \in SoundConfigs : Fits(c) /\ (c.shared => ~ c.lossy)

\* A picture that is not a reference after one with command 5.
ResetConfigs == {[Plain EXCEPT !.numRef = 2, !.cmds = 1, !.quiet = FALSE]}
=============================================================================
