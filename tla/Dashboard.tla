----------------------------- MODULE Dashboard ------------------------------
(***************************************************************************)
(* The counters panel of the dashboard on top of the transports.  The      *)
(* display task prints the nine counters one by one, over and over, while  *)
(* the transport tasks go on counting: nothing is locked.                  *)
(***************************************************************************)
EXTENDS Transports, AppScreen

CONSTANT
  Samples    \* counts whose texts are compared with the reference

ASSUME SamplesAssumption == Samples \subseteq 0..(Power[8] - 1)

VARIABLES
  shown,     \* per counter: the number in its cell, whose text AppScreen has
  position,  \* counters that this update has printed
  atStart    \* history: the counters when this update began

panelVars == <<shown, position, atStart>>
dashboardVars == <<tvars, panelVars>>

(* The order of drawCountersPanel(): per transport received, sent, dropped. *)
Counter == {"rx", "tx", "dropped"} \X Transport

Order == <<<<"rx", "udp">>, <<"tx", "udp">>, <<"dropped", "udp">>,
           <<"rx", "web">>, <<"tx", "web">>, <<"dropped", "web">>,
           <<"rx", "ws">>, <<"tx", "ws">>, <<"dropped", "ws">>>>

Counts ==
  [c \in Counter |-> CASE c[1] = "rx" -> rx_count_[c[2]]
                       [] c[1] = "tx" -> tx_count_[c[2]]
                       [] OTHER -> dropped_count_[c[2]]]

Blank == -1

DashboardInit ==
  /\ TransportsInit
  /\ shown = [c \in Counter |-> Blank]
  /\ position = 0 /\ atStart = Counts

(* Mutant of Printed: a row copied and not adapted.                        *)
PrintedFirstRow(c) == Counts[<<c[1], "udp">>]

Printed(c) == Counts[c]

(* Mutant of NextPosition: the last rows are left to initScreen().         *)
NextInRow == (position + 1) % 3

NextPosition == (position + 1) % Len(Order)

(* Read a counter, print it.                                               *)
PrintCounter ==
  /\ LET c == Order[position + 1]
     IN  shown' = [shown EXCEPT ![c] = Printed(c)]
  /\ position' = NextPosition
  /\ atStart' = IF NextPosition = 0 THEN Counts ELSE atStart
  /\ UNCHANGED tvars

DashboardNext ==
  \/ PrintCounter
  \/ TransportsNext /\ UNCHANGED panelVars

DashboardSpec == DashboardInit /\ [][DashboardNext]_dashboardVars

(* The tasks run.  Whether anything arrives is left open.                  *)
DashboardFairSpec ==
  /\ DashboardSpec
  /\ WF_dashboardVars(PrintCounter)
  /\ \A k \in Task : WF_dashboardVars(TaskStep(k) /\ UNCHANGED panelVars)

-----------------------------------------------------------------------------
(* Properties.                                                             *)

(* Every variable has its type.                                            *)
DashboardTypeOK ==
  /\ TransportsTypeOK
  /\ shown \in [Counter -> Nat \cup {Blank}]
  /\ position \in 0..(Len(Order) - 1)
  /\ atStart \in [Counter -> Nat]

(* What a reader takes a character for, and a text of nine.                *)
Worth(c) == IF c = Space THEN 0 ELSE c
ValueRead(text) ==
  1000000 * Worth(text[1])
    + 100000 * Worth(text[3]) + 10000 * Worth(text[4]) + 1000 * Worth(text[5])
    + 100 * Worth(text[7]) + 10 * Worth(text[8]) + Worth(text[9])

(* The reference for a counter's text: right-aligned in nine characters,   *)
(* from the first digit on nothing but digits and a space between groups   *)
(* of three, no zero in front, and the number it is read as.               *)
Reads(text, v) ==
  /\ Len(text) = 9 /\ ValueRead(text) = v
  /\ \E first \in 1..9 :
       /\ \A i \in 1..(first - 1) : text[i] = Space
       /\ \A i \in first..9 : IF i \in {2, 6} THEN text[i] = Space ELSE text[i] \in 0..9
       /\ first \notin {2, 6} /\ (text[first] = 0 => first = 9)

Unreadable == {v \in Samples : ~Reads(CounterText(v), v)}

(* A counter that has been printed reads in full, as the reference has it, *)
(* whatever it has counted to below ten million; from there on the cell    *)
(* cuts it.                                                                *)
CountersReadable == \A c \in Counter : shown[c] # Blank => Unreadable = {}

(* A number on the screen is one that its counter had since the update     *)
(* began: the panel mixes moments but invents nothing.                     *)
ShownWasCounted ==
  \A i \in 1..position : shown[Order[i]] \in atStart[Order[i]]..Counts[Order[i]]

(* Once traffic ends, the screen comes to show the counters as they are.   *)
DashboardCatchesUp == <>[](shown = Counts)
=============================================================================
