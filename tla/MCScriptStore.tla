--------------------------- MODULE MCScriptStore ---------------------------
(* Bodies: empty, of two chunks, of three of which the second exceeds the  *)
(* cap and the third fits again, and one with a NUL.                       *)
EXTENDS ScriptStore

MCSizeOf == [x \in Chunks |-> IF x = "big" THEN 3 ELSE 1]
MCBodies == {<<>>, <<"a", "b">>, <<"a", "big", "c">>, <<"c", "nul">>}
=============================================================================
