------------------------------- MODULE MCLEDs -------------------------------
(* One pixel of the K10 and the two of the board; one bright colour beside *)
(* black, and one mask, with a pixel and the second LED of the board.  The  *)
(* board's service is asked for its first LED and for the one it lacks.    *)
EXTENDS LEDs, TLC

MCPaints == {[c |-> 1, b |-> 1]}
MCMasks == {{2, 4}}
MCSymmetry == Permutations(Tasks)
=============================================================================
