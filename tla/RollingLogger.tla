---------------------------- MODULE RollingLogger ----------------------------
(***************************************************************************)
(* What log() makes of the rows of a logger.  A row is whatever stands for *)
(* its entry.  The lock covers a whole call, so each call is one step of   *)
(* the module that has the loggers.                                        *)
(***************************************************************************)
EXTENDS Naturals, Sequences

ERROR == 0
WARNING == 1
INFO == 2
DEBUG == 3
TRACE == 4
LogLevel == ERROR..TRACE

(* The level of a line of ESP-IDF, by its first character; a line without  *)
(* a known one, as the second of two, counts as INFO.                      *)
LevelChars == {"E", "W", "I", "D", "V", "other"}

map_level_char(c) ==
  CASE c = "E" -> ERROR
    [] c = "W" -> WARNING
    [] c = "D" -> DEBUG
    [] c = "V" -> TRACE
    [] OTHER -> INFO

(* Mutant of Evicted: when the logger is full, what is new is lost.        *)
EvictedNewest(rows, max_rows) ==
  IF Len(rows) > max_rows THEN SubSeq(rows, 1, max_rows) ELSE rows

(* The oldest rows go when there are more than the logger may hold.        *)
Evicted(rows, max_rows) ==
  IF Len(rows) > max_rows THEN SubSeq(rows, Len(rows) - max_rows + 1, Len(rows)) ELSE rows

Logged(rows, row, max_rows) == Evicted(Append(rows, row), max_rows)
=============================================================================
