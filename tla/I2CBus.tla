------------------------------- MODULE I2CBus -------------------------------
(***************************************************************************)
(* DFR1216_I2C and the hardware calls of DFR1216Board: tasks share one     *)
(* I2C bus, the Wire driver's two buffers and the board's register         *)
(* pointer.  writeReg() and readReg() hold a recursive mutex for one       *)
(* transfer; a call is a loop of transfers that releases it in between.    *)
(* A read is two transmissions, the register first, the bytes second, and  *)
(* a sensor call starts a measurement and then polls for it.               *)
(***************************************************************************)
EXTENDS Naturals

CONSTANTS
  Tasks,        \* the tasks that call the board
  Calls,        \* the hardware calls they make
  RETRY_COUNT,  \* attempts of each loop
  NoTask        \* the mutex is free

ASSUME TasksAssumption == NoTask \notin Tasks
ASSUME RetryAssumption == RETRY_COUNT \in Nat \ {0}

(* The registers a sensor measurement is started and read at, and the      *)
(* others the calls use.                                                   *)
Measuring == {"DHT", "DS18B20", "SR04"}
Registers == Measuring \cup {"IR_S", "IO_MODE", "W_GPIO", "PERIOD", "DUTY",
                             "BATTERY", "IR_R", "R_GPIO", "ADC"}

(* What the first byte of a register says of its measurement; "none" where *)
(* there is none.  SR04_COLLECT is "busy", SR04_COMPLETE and DATA_ENABLE   *)
(* are "ready".                                                            *)
Status == {"none", "busy", "ready", "mode_error"}

(* A hardware call: its register, whether it writes to it, then whether it *)
(* reads it, the statuses it takes as an answer and those it gives up at.  *)
CallType == [reg : Registers, writes : BOOLEAN, reads : BOOLEAN,
             answers : SUBSET Status, fails : SUBSET Status]

WriteCall(r) == [reg |-> r, writes |-> TRUE, reads |-> FALSE, answers |-> {}, fails |-> {}]
ReadCall(r) == [reg |-> r, writes |-> FALSE, reads |-> TRUE, answers |-> Status, fails |-> {}]

sendIR == WriteCall("IR_S")
setMode == WriteCall("IO_MODE")
setGpioState == WriteCall("W_GPIO")
setMotorPeriod == WriteCall("PERIOD")
setMotorDuty == WriteCall("DUTY")
getBattery == ReadCall("BATTERY")
getIRData == ReadCall("IR_R")
getGpioState == ReadCall("R_GPIO")

getADCValue ==
  [ReadCall("ADC") EXCEPT !.answers = {"ready"}, !.fails = {"mode_error"}]

Measurement(r) ==
  [reg |-> r, writes |-> TRUE, reads |-> TRUE, answers |-> {"ready"}, fails |-> {"mode_error"}]

getDHTValue == Measurement("DHT")
get18b20Value == Measurement("DS18B20")

(* Mutant of getSr04Distance: it also takes SR04_COLLECT for an answer.    *)
getSr04DistanceEager ==
  [Measurement("SR04") EXCEPT !.answers = {"busy", "ready"}, !.fails = {}]

getSr04Distance == [Measurement("SR04") EXCEPT !.fails = {}]

HardwareCalls ==
  {sendIR, setMode, setGpioState, setMotorPeriod, setMotorDuty, getBattery, getIRData,
   getGpioState, getADCValue, getDHTValue, get18b20Value, getSr04Distance}

ASSUME CallsAssumption == Calls # {} /\ Calls \subseteq HardwareCalls

VARIABLES
  owner,    \* the holder of __i2c_mutex
  depth,    \* how often it took it
  tx,       \* the Wire transmit buffer: a register and whether data follow
  rx,       \* the Wire receive buffer: the register it came from, its status,
            \* and (history) whether its measurement is news for the reader
  pointer,  \* the board's register pointer
  status,   \* per register: its first byte
  pc,       \* per task: where it is
  call,     \* per task: the call it makes
  phase,    \* per task: "write" or "read"
  tries,    \* per task: failed attempts of this loop
  acked,    \* per task: the result of its last transmission
  data,     \* per task: _tempData
  told,     \* history, per task: a write of this call was acknowledged
  fresh     \* history, per register: tasks in a call that began before the
            \* measurement the register holds was started

bus == <<owner, depth, tx, rx, pointer, status>>
taskVars == <<pc, call, phase, tries, acked, data>>
vars == <<bus, taskVars, told, fresh>>

Empty == [reg |-> "none", data |-> FALSE]
Nothing == [reg |-> "none", status |-> "none", news |-> FALSE]

(* Which call an idle task made last does not matter.                      *)
NoCall == CHOOSE c \in Calls : TRUE

Init ==
  /\ owner = NoTask /\ depth = 0
  /\ tx = Empty /\ rx = Nothing /\ pointer = "none"
  /\ status = [r \in Registers |-> "none"]
  /\ pc = [t \in Tasks |-> "idle"]
  /\ call = [t \in Tasks |-> NoCall]
  /\ phase = [t \in Tasks |-> "write"]
  /\ tries = [t \in Tasks |-> 0]
  /\ acked = [t \in Tasks |-> FALSE]
  /\ data = [t \in Tasks |-> Nothing]
  /\ told = [t \in Tasks |-> FALSE]
  /\ fresh = [r \in Measuring |-> {}]

-----------------------------------------------------------------------------
(* One transfer.                                                           *)

Goto(t, here, there) == pc[t] = here /\ pc' = [pc EXCEPT ![t] = there]

(* xSemaphoreTakeRecursive(): waits unless the mutex is free or the task's.*)
TakeRecursive(t) ==
  /\ owner \in {NoTask, t}
  /\ owner' = t
  /\ depth' = depth + 1

(* xSemaphoreGiveRecursive(): the last give frees it.                      *)
GiveRecursive ==
  /\ depth' = depth - 1
  /\ owner' = IF depth = 1 THEN NoTask ELSE owner

(* Mutant of Take: no mutex.                                               *)
TakeFree(t) ==
  /\ Goto(t, "take", IF phase[t] = "read" THEN "retake" ELSE "begin")
  /\ owner' = t
  /\ depth' = 1
  /\ UNCHANGED <<tx, rx, pointer, status, call, phase, tries, acked, data, told, fresh>>

(* writeReg(), readReg(): the mutex is taken.                              *)
Take(t) ==
  /\ Goto(t, "take", IF phase[t] = "read" THEN "retake" ELSE "begin")
  /\ TakeRecursive(t)
  /\ UNCHANGED <<tx, rx, pointer, status, call, phase, tries, acked, data, told, fresh>>

(* readReg() calls writeReg(), which takes it once more.                   *)
Retake(t) ==
  /\ Goto(t, "retake", "begin")
  /\ TakeRecursive(t)
  /\ UNCHANGED <<tx, rx, pointer, status, call, phase, tries, acked, data, told, fresh>>

(* beginTransmission() empties the driver's transmit buffer.               *)
BeginTransmission(t) ==
  /\ Goto(t, "begin", "fill")
  /\ tx' = Empty
  /\ UNCHANGED <<owner, depth, rx, pointer, status, call, phase, tries, acked, data, told, fresh>>

(* write(reg), and the data bytes unless readReg() only sets the pointer.  *)
Fill(t) ==
  /\ Goto(t, "fill", "end")
  /\ tx' = [reg |-> call[t].reg, data |-> phase[t] = "write"]
  /\ UNCHANGED <<owner, depth, rx, pointer, status, call, phase, tries, acked, data, told, fresh>>

(* The board takes a frame: its pointer moves; data written to a           *)
(* measurement register start a measurement.                               *)
Accept(frame) ==
  /\ pointer' = frame.reg
  /\ IF frame.data /\ frame.reg \in Measuring
     THEN /\ status' = [status EXCEPT ![frame.reg] = "busy"]
          /\ fresh' = [fresh EXCEPT ![frame.reg] = {u \in Tasks : pc[u] # "idle"}]
     ELSE UNCHANGED <<status, fresh>>

(* endTransmission() sends what the buffer holds and empties it; the board *)
(* acknowledges the frame or the frame is lost.                            *)
EndTransmission(t, ack) ==
  /\ Goto(t, "end", IF phase[t] = "read" THEN "regive" ELSE "give")
  /\ acked' = [acked EXCEPT ![t] = ack]
  /\ IF ack THEN Accept(tx) ELSE UNCHANGED <<pointer, status, fresh>>
  /\ told' = [told EXCEPT ![t] = told[t] \/ (ack /\ phase[t] = "write")]
  /\ tx' = Empty
  /\ UNCHANGED <<owner, depth, rx, call, phase, tries, data>>

(* Mutant of Regive: the inner give frees the mutex.                       *)
RegiveAll(t) ==
  /\ Goto(t, "regive", IF acked[t] THEN "request" ELSE "give")
  /\ depth' = 1
  /\ owner' = NoTask
  /\ UNCHANGED <<tx, rx, pointer, status, call, phase, tries, acked, data, told, fresh>>

(* writeReg() returns to readReg(), which goes on or gives up.             *)
Regive(t) ==
  /\ Goto(t, "regive", IF acked[t] THEN "request" ELSE "give")
  /\ GiveRecursive
  /\ UNCHANGED <<tx, rx, pointer, status, call, phase, tries, acked, data, told, fresh>>

Content(t, r) ==
  [reg |-> r, status |-> status[r], 
   news |-> r \in Measuring /\ status[r] = "ready" /\ t \in fresh[r]]

(* requestFrom(): the receive buffer holds what the pointer points at, or  *)
(* fewer bytes than asked for.                                             *)
RequestFrom(t, whole) ==
  /\ Goto(t, "request", "drain")
  /\ rx' = IF whole THEN Content(t, pointer) ELSE Nothing
  /\ UNCHANGED <<owner, depth, tx, pointer, status, call, phase, tries, acked, data, told, fresh>>

(* Mutant of Drain: however few bytes there are, the read is a success.    *)
DrainUntested(t) ==
  /\ Goto(t, "drain", "give")
  /\ data' = [data EXCEPT ![t] = rx]
  /\ acked' = [acked EXCEPT ![t] = TRUE]
  /\ rx' = Nothing
  /\ UNCHANGED <<owner, depth, tx, pointer, status, call, phase, tries, told, fresh>>

(* The bytes are read out of the driver's buffer; i == len is tested.      *)
Drain(t) ==
  /\ Goto(t, "drain", "give")
  /\ data' = [data EXCEPT ![t] = rx]
  /\ acked' = [acked EXCEPT ![t] = rx # Nothing]
  /\ rx' = Nothing
  /\ UNCHANGED <<owner, depth, tx, pointer, status, call, phase, tries, told, fresh>>

Give(t) ==
  /\ Goto(t, "give", "result")
  /\ GiveRecursive
  /\ UNCHANGED <<tx, rx, pointer, status, call, phase, tries, acked, data, told, fresh>>

-----------------------------------------------------------------------------
(* The loops of a call, over transfers.                                    *)

(* A call is made.                                                         *)
Start(t, c) ==
  /\ Goto(t, "idle", "take")
  /\ call' = [call EXCEPT ![t] = c]
  /\ phase' = [phase EXCEPT ![t] = IF c.writes THEN "write" ELSE "read"]
  /\ tries' = [tries EXCEPT ![t] = 0]
  /\ UNCHANGED <<bus, acked, data, told, fresh>>

(* The call returns, a reading or its failure value: its locals are gone.  *)
Return(t) ==
  /\ Goto(t, "result", "idle")
  /\ call' = [call EXCEPT ![t] = NoCall]
  /\ phase' = [phase EXCEPT ![t] = "write"]
  /\ tries' = [tries EXCEPT ![t] = 0]
  /\ acked' = [acked EXCEPT ![t] = FALSE]
  /\ data' = [data EXCEPT ![t] = Nothing]
  /\ told' = [told EXCEPT ![t] = FALSE]
  /\ fresh' = [r \in Measuring |-> fresh[r] \ {t}]

(* Mutant of Again: the attempt does not count.                            *)
AgainUncounted(t) ==
  /\ Goto(t, "result", "take")
  /\ UNCHANGED <<tries, call, phase, acked, data, told, fresh>>

(* The attempt counts; there is another one (after the delay).             *)
Again(t) ==
  /\ tries[t] + 1 < RETRY_COUNT
  /\ Goto(t, "result", "take")
  /\ tries' = [tries EXCEPT ![t] = tries[t] + 1]
  /\ UNCHANGED <<call, phase, acked, data, told, fresh>>

(* From the write loop to the read loop of a measurement.                  *)
Poll(t) ==
  /\ Goto(t, "result", "take")
  /\ phase' = [phase EXCEPT ![t] = "read"]
  /\ tries' = [tries EXCEPT ![t] = 0]
  /\ UNCHANGED <<call, acked, data, told, fresh>>

(* After a write attempt.  A measurement whose every write failed is       *)
(* polled all the same.                                                    *)
AfterWrite(t) ==
  /\ phase[t] = "write"
  /\ LET c == call[t] IN
     \/ acked[t] /\ c.reads /\ Poll(t)
     \/ acked[t] /\ ~c.reads /\ Return(t)
     \/ ~acked[t] /\ Again(t)
     \/ ~acked[t] /\ tries[t] + 1 = RETRY_COUNT /\ c.reads /\ Poll(t)
     \/ ~acked[t] /\ tries[t] + 1 = RETRY_COUNT /\ ~c.reads /\ Return(t)
  /\ UNCHANGED bus

(* After a read attempt: an answer, a mode error, or once more.            *)
AfterRead(t) ==
  /\ phase[t] = "read"
  /\ LET answered == acked[t] /\ data[t].status \in call[t].answers
         refused  == acked[t] /\ data[t].status \in call[t].fails
     IN  \/ (answered \/ refused) /\ Return(t)
         \/ ~answered /\ ~refused /\ Again(t)
         \/ ~answered /\ ~refused /\ tries[t] + 1 = RETRY_COUNT /\ Return(t)
  /\ UNCHANGED bus

(* The board ends a measurement, or finds the pin in another mode (the     *)
(* SR04 has its own); it converts an analog input, or cannot, at any time. *)
Measured(r) ==
  /\ status[r] = "busy" \/ r = "ADC"
  /\ \E s \in IF r = "SR04" THEN {"ready"} ELSE {"ready", "mode_error"} :
       status' = [status EXCEPT ![r] = s]
  /\ UNCHANGED <<owner, depth, tx, rx, pointer, taskVars, told, fresh>>

-----------------------------------------------------------------------------

Transfer(t) ==
  \/ Retake(t) \/ BeginTransmission(t) \/ Fill(t)
  \/ \E ack \in BOOLEAN : EndTransmission(t, ack)
  \/ Regive(t)
  \/ \E whole \in BOOLEAN : RequestFrom(t, whole)
  \/ Drain(t) \/ Give(t)

Loop(t) == AfterWrite(t) \/ AfterRead(t)

Next ==
  \/ \E t \in Tasks : Take(t) \/ Transfer(t) \/ Loop(t)
  \/ \E t \in Tasks, c \in Calls : Start(t, c)
  \/ \E r \in {c.reg : c \in Calls} : Measured(r)

Spec == Init /\ [][Next]_vars

(* A task that is ready to run runs.  One that waits for the mutex gets it *)
(* if it is free again and again: the others sleep between two attempts    *)
(* (delay) and between two calls (the display for 40 ms, a handler until   *)
(* the next packet).  Nothing is assumed of the board or of the callers.   *)
FairSpec ==
  /\ Spec
  /\ \A t \in Tasks : WF_vars(Transfer(t)) /\ WF_vars(Loop(t)) /\ SF_vars(Take(t))

-----------------------------------------------------------------------------
(* Properties.                                                             *)

(* Every variable has its type.                                            *)
TypeOK ==
  /\ owner \in Tasks \cup {NoTask}
  /\ depth \in 0..2
  /\ tx \in [reg : Registers \cup {"none"}, data : BOOLEAN]
  /\ rx \in [reg : Registers \cup {"none"}, status : Status, news : BOOLEAN]
  /\ pointer \in Registers \cup {"none"}
  /\ status \in [Registers -> Status]
  /\ pc \in [Tasks -> {"idle", "take", "retake", "begin", "fill", "end", "regive",
                       "request", "drain", "give", "result"}]
  /\ call \in [Tasks -> Calls]
  /\ phase \in [Tasks -> {"write", "read"}]
  /\ tries \in [Tasks -> 0..(RETRY_COUNT - 1)]
  /\ acked \in [Tasks -> BOOLEAN]
  /\ data \in [Tasks -> [reg : Registers \cup {"none"}, status : Status, news : BOOLEAN]]
  /\ told \in [Tasks -> BOOLEAN]
  /\ fresh \in [Measuring -> SUBSET Tasks]

(* What is sent is the frame of the task that sends it, whatever the other *)
(* tasks do: nobody restarts or fills the driver's transmit buffer between *)
(* its beginTransmission() and its endTransmission().                      *)
FrameIntact ==
  \A t \in Tasks :
    pc[t] = "end" => tx = [reg |-> call[t].reg, data |-> phase[t] = "write"]

(* The bytes a call gets come from the register it asked for: no other     *)
(* task moves the board's register pointer between the two transmissions   *)
(* of readReg(), nor takes the bytes out of the receive buffer.            *)
ReadsOwnRegister ==
  \A t \in Tasks :
    pc[t] = "result" /\ phase[t] = "read" /\ acked[t] => data[t].reg = call[t].reg

(* A sensor call whose start command reached the board returns a           *)
(* measurement that was started after the call began, though another call  *)
(* to the same sensor may have restarted it meanwhile.                     *)
FreshMeasurement ==
  \A t \in Tasks :
    (pc[t] = "result" /\ phase[t] = "read" /\ acked[t] /\ told[t] /\ call[t].writes
       /\ data[t].status \in call[t].answers)
      => data[t].news

(* What the transfer of a task has come to, seen from its caller: it takes *)
(* effect when a write is acknowledged, or when requestFrom() has a read's *)
(* bytes.                                                                  *)
TransferAt(t, stage, ok, read) ==
  [stage |-> stage, reg |-> call[t].reg, writes |-> phase[t] = "write", ok |-> ok, read |-> read]

TransferOf(t) ==
  CASE pc[t] = "idle" ->
         [stage |-> "none", reg |-> "none", writes |-> FALSE, ok |-> FALSE, read |-> "none"]
    [] \/ pc[t] \in {"take", "retake", "begin", "fill", "end", "request"}
       \/ pc[t] = "regive" /\ acked[t] -> TransferAt(t, "asked", FALSE, "none")
    [] pc[t] = "drain" -> TransferAt(t, "answered", rx # Nothing, rx.status)
    [] OTHER -> TransferAt(t, "answered", acked[t],
                  IF acked[t] /\ phase[t] = "read" THEN data[t].status ELSE "none")

Board == INSTANCE BoardRegisters WITH transfer <- [t \in Tasks |-> TransferOf(t)]

(* To its callers a transfer is one step of the board: two buffers, a      *)
(* register pointer and two transmissions for a read do not show, nor do   *)
(* the other tasks that use them.                                          *)
BusPromise == Board!Spec

(* The steps that the call of t can still take: those of this transfer,    *)
(* and ten for each transfer that its loops have left.                     *)
Ahead == [take |-> 9, retake |-> 8, begin |-> 7, fill |-> 6, end |-> 5, regive |-> 4,
          request |-> 3, drain |-> 2, give |-> 1, result |-> 0]

StepsLeft(t) ==
  Ahead[pc[t]] + 10 * (RETRY_COUNT - 1 - tries[t])
    + (IF phase[t] = "write" /\ call[t].reads THEN 10 * RETRY_COUNT ELSE 0)

RunsDown(t) ==
  /\ pc[t] = "idle" /\ pc'[t] # "idle" => StepsLeft(t)' \in 0..(20 * RETRY_COUNT - 1)
  /\ pc[t] # "idle" /\ pc'[t] # "idle" =>
       StepsLeft(t)' \in IF pc'[t] = pc[t] THEN {StepsLeft(t)} ELSE 0..(StepsLeft(t) - 1)

(* A call begins with a bounded number of steps ahead of it, each takes it *)
(* nearer to its end, and nothing the board or another task does puts it   *)
(* back: no loop is entered again and none forgets to count.               *)
CallsRunDown == [][\A t \in Tasks : RunsDown(t)]_vars

(* Every hardware call returns, whatever the bus and the board do: no loop *)
(* waits for the hardware without a bound, no task keeps the mutex.        *)
EveryCallEnds == \A t \in Tasks : pc[t] = "take" ~> pc[t] = "idle"
=============================================================================
