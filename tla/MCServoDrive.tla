---------------------------- MODULE MCServoDrive ----------------------------
(***************************************************************************)
(* ServoDrive for TLC: angles and speeds, as a .cfg cannot write negative  *)
(* numbers, and the symmetry of the tasks.                                 *)
(***************************************************************************)
EXTENDS ServoDrive, TLC

(* An increment back to the end, an angle beyond a 180 degree servo and    *)
(* one that is out of range.                                               *)
MCAngles == {-360, 200, 361}

(* Full reverse and a speed that is out of range.                          *)
MCSpeeds == {-100, 101}

TaskSymmetry == Permutations(Tasks)
=============================================================================
