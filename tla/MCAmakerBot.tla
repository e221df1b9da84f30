---------------------------- MODULE MCAmakerBot ----------------------------
(***************************************************************************)
(* AmakerBot for TLC.  Each .cfg chooses the clients, the commands and     *)
(* transports they use, the last clock tick and whether the watchdog is    *)
(* wired.                                                                  *)
(***************************************************************************)
EXTENDS AmakerBot
=============================================================================
