------------------------------ MODULE MCI2CBus ------------------------------
(* Two tasks, a plain read, a plain write and a measured distance.         *)
EXTENDS I2CBus

MCCalls == {getBattery, setGpioState, getSr04Distance}
=============================================================================
