---------------------------- MODULE MCDashboard -----------------------------
(* Texts are compared around every place where a digit group is gained, up *)
(* to the width of the cell.                                               *)
EXTENDS Dashboard

MCSamples == 0..1100 \cup 9990..10010 \cup 99990..100010 \cup 999990..1000010
               \cup {1234567, 5000000, 9999999}
=============================================================================
