-------------------------- MODULE ServiceLifecycle --------------------------
(***************************************************************************)
(* The lifecycle that include/IsServiceInterface.h:47-55 promises of every *)
(* service, and what the boot adds to it for the handlers: once they run,  *)
(* each service has been decided, and none changes under them.             *)
(***************************************************************************)
CONSTANT
  Services   \* the services

VARIABLES
  status,    \* per service: its ServiceStatus
  serving    \* handlers may run

vars == <<status, serving>>

(* "Valid transitions"; a failure is final.                                *)
After ==
  [UNINITIALIZED      |-> {"INITIALIZED", "INITIALIZED_FAILED"},
   INITIALIZED        |-> {"STARTED", "START_FAILED"},
   STARTED            |-> {"STOPPED", "STOP_FAILED"},
   STOPPED            |-> {"STARTED", "STOP_FAILED"},
   INITIALIZED_FAILED |-> {}, START_FAILED |-> {}, STOP_FAILED |-> {}]

Off ==
  /\ status = [s \in Services |-> "UNINITIALIZED"]
  /\ serving = FALSE

Init == Off

(* One service changes.                                                    *)
Transition(s) ==
  /\ ~serving
  /\ \E next \in After[status[s]] : status' = [status EXCEPT ![s] = next]
  /\ serving' = serving

(* The first server opens.                                                 *)
Serve ==
  /\ \A s \in Services : status[s] # "UNINITIALIZED"
  /\ serving' = TRUE
  /\ status' = status

(* The power goes at any moment, and comes back.                           *)
PowerCut == Off'

Next == (\E s \in Services : Transition(s)) \/ Serve \/ PowerCut

Spec == Init /\ [][Next]_vars
=============================================================================
