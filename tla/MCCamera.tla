------------------------------ MODULE MCCamera ------------------------------
(* Two buffers and a queue of two, as main.cpp has them; three streams.    *)
EXTENDS Camera

MCPieces == 2
=============================================================================
