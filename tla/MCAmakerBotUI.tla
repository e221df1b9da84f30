--------------------------- MODULE MCAmakerBotUI ---------------------------
(***************************************************************************)
(* AmakerBotUI for TLC: each .cfg gives the number of screens, the tasks   *)
(* that send commands and the bounds on the clock and on the loggers, of   *)
(* which the last lets DEBUG through, as that of ESP-IDF does.             *)
(***************************************************************************)
EXTENDS AmakerBotUI

MCLevels == [s \in LogScreens |-> DEBUG]
=============================================================================
