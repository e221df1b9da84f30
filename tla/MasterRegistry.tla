--------------------------- MODULE MasterRegistry ---------------------------
(***************************************************************************)
(* What the bot promises about its master, whatever tasks handle the       *)
(* commands: every REGISTER and UNREGISTER takes effect at one instant     *)
(* between the moment its handler starts and the moment its reply leaves,  *)
(* at most one address is the master, a second registration is refused     *)
(* and only the master clears itself.  The text of the promise is the      *)
(* contract of registerMaster and unregister in                            *)
(* include/services/AmakerBotService.h:160-176.                            *)
(***************************************************************************)
CONSTANTS
  Tasks,     \* the tasks that run command handlers
  IPs,       \* client addresses
  NoIP       \* the empty address: no master

VARIABLES
  master,    \* the registered master or NoIP
  call       \* per task: the operation in progress, its sender and its answer

vars == <<master, call>>

Idle == [op |-> "none", ip |-> NoIP, answer |-> "none"]

(* "malformed": a registration with a wrong token, or none.                *)
Calls == [op : {"register", "malformed", "unregister"}, ip : IPs \cup {NoIP},
          answer : {"none"}]

Pending(t, op) == call[t].op = op /\ call[t].answer = "none"

Answered(t, a) == call' = [call EXCEPT ![t] = [call[t] EXCEPT !.answer = a]]

Init ==
  /\ master = NoIP
  /\ call = [t \in Tasks |-> Idle]

(* A task starts to handle an operation.                                   *)
Call(t) ==
  /\ call[t] = Idle
  /\ \E c \in Calls : call' = [call EXCEPT ![t] = c]
  /\ master' = master

(* A registration takes effect.  It is granted to the first comer and to   *)
(* the master itself, and refused only while a master is set.              *)
Register(t) ==
  /\ Pending(t, "register")
  /\ \/ /\ master \in {NoIP, call[t].ip}
        /\ master' = call[t].ip
        /\ Answered(t, "ok")
     \/ /\ master # NoIP
        /\ master' = master
        /\ Answered(t, "refused")

(* A registration without the token is always refused.                     *)
Refuse(t) ==
  /\ Pending(t, "malformed")
  /\ Answered(t, "refused")
  /\ master' = master

(* An unregistration takes effect: it is granted to the master only.  A    *)
(* sender without an address, which no master has, is told "ok" when there *)
(* is nothing to clear; this changes nothing.                              *)
Unregister(t) ==
  /\ Pending(t, "unregister")
  /\ IF master = call[t].ip
       THEN master' = NoIP /\ Answered(t, "ok")
       ELSE master' = master /\ Answered(t, "refused")

(* The reply of t leaves.                                                  *)
Return(t) ==
  /\ call[t].answer # "none"
  /\ call' = [call EXCEPT ![t] = Idle]
  /\ master' = master

(* The board restarts: master and operations in progress are lost.         *)
Restart ==
  /\ master' = NoIP
  /\ call' = [t \in Tasks |-> Idle]

Next ==
  \/ \E t \in Tasks : Call(t) \/ Register(t) \/ Refuse(t) \/ Unregister(t) \/ Return(t)
  \/ Restart

Spec == Init /\ [][Next]_vars
=============================================================================
