------------------------------- MODULE MCFrames -------------------------------
(* Values for the TLC instances of Frames. *)
EXTENDS Frames

\* A negative id (the top bit set), one that was sent, one that was not.
IdsSmall == {-1, 0, 1}

=============================================================================
