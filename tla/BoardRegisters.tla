--------------------------- MODULE BoardRegisters ---------------------------
(***************************************************************************)
(* What writeReg() and readReg() promise about the expansion board,        *)
(* whatever tasks call them: a transfer takes effect at one instant        *)
(* between its call and its return, or not at all, and its result says     *)
(* which; a read gives what the register that was asked for holds at that  *)
(* instant.  There is no bus here, no driver buffer, no register pointer   *)
(* and no mutex.  The contract is that of include/services/DFR1216.h.      *)
(***************************************************************************)
CONSTANTS
  Tasks,      \* the tasks that call the board
  Registers,  \* its registers
  Measuring   \* those at which a write starts a measurement

VARIABLES
  status,     \* per register: what its first byte says of its measurement
  transfer    \* per task: the transfer it makes and its result

vars == <<status, transfer>>

NoTransfer == [stage |-> "none", reg |-> "none", writes |-> FALSE, ok |-> FALSE, read |-> "none"]

Asked(r, writes) ==
  [stage |-> "asked", reg |-> r, writes |-> writes, ok |-> FALSE, read |-> "none"]

Answered(x, ok, s) ==
  [stage |-> "answered", reg |-> x.reg, writes |-> x.writes, ok |-> ok, read |-> s]

Init ==
  /\ status = [r \in Registers |-> "none"]
  /\ transfer = [t \in Tasks |-> NoTransfer]

Becomes(t, x) == transfer' = [transfer EXCEPT ![t] = x]

(* A task calls writeReg() or readReg(), its first or its next.            *)
Ask(t) ==
  /\ transfer[t].stage # "asked"
  /\ \E r \in Registers, writes \in BOOLEAN : Becomes(t, Asked(r, writes))
  /\ status' = status

(* A write reaches its register.                                           *)
Write(t) ==
  /\ transfer[t].stage = "asked" /\ transfer[t].writes
  /\ status' = IF transfer[t].reg \in Measuring
               THEN [status EXCEPT ![transfer[t].reg] = "busy"] ELSE status
  /\ Becomes(t, Answered(transfer[t], TRUE, "none"))

(* A read gets what its register holds.                                    *)
Read(t) ==
  /\ transfer[t].stage = "asked" /\ ~transfer[t].writes
  /\ Becomes(t, Answered(transfer[t], TRUE, status[transfer[t].reg]))
  /\ status' = status

(* A transfer fails: nothing has happened.                                 *)
Fail(t) ==
  /\ transfer[t].stage = "asked"
  /\ Becomes(t, Answered(transfer[t], FALSE, "none"))
  /\ status' = status

(* The task is done with the result.                                       *)
Leave(t) ==
  /\ transfer[t].stage = "answered"
  /\ Becomes(t, NoTransfer)
  /\ status' = status

(* The board ends a measurement, or converts an analog input.              *)
Measured(r) ==
  /\ status[r] = "busy" \/ r = "ADC"
  /\ \E s \in {"ready", "mode_error"} : status' = [status EXCEPT ![r] = s]
  /\ transfer' = transfer

Next ==
  \/ \E t \in Tasks : Ask(t) \/ Write(t) \/ Read(t) \/ Fail(t) \/ Leave(t)
  \/ \E r \in Registers : Measured(r)

Spec == Init /\ [][Next]_vars
=============================================================================
