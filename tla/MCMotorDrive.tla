---------------------------- MODULE MCMotorDrive ----------------------------
(***************************************************************************)
(* MotorDrive for TLC: speeds as a .cfg cannot write negative numbers.     *)
(***************************************************************************)
EXTENDS MotorDrive

(* Full reverse, a forward speed and one that is out of range; the speed 0 *)
(* comes from STOP_ALL_MOTORS.                                             *)
MCSpeeds == {-100, 50, 101}
=============================================================================
