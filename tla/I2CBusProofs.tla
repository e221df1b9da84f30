---------------------------- MODULE I2CBusProofs ----------------------------
(***************************************************************************)
(* Theorems about I2CBus: for any number of tasks and attempts and any of  *)
(* the hardware calls, the recursive mutex keeps a frame, the register     *)
(* pointer and the bytes read together.                                    *)
(***************************************************************************)
EXTENDS I2CBus, TLAPS

(* What MeasurementCalls says of one call.                                 *)
Measures(c) ==
  (c.writes /\ c.answers # {}) => (c.reg \in Measuring /\ c.answers = {"ready"})

LEMMA ShapesTyped ==
  /\ \A r \in Registers : WriteCall(r) \in CallType /\ Measures(WriteCall(r))
  /\ \A r \in Registers : ReadCall(r) \in CallType /\ Measures(ReadCall(r))
  /\ \A r \in Measuring : Measurement(r) \in CallType /\ Measures(Measurement(r))
<1>1. ASSUME NEW r \in Registers PROVE WriteCall(r) \in CallType /\ Measures(WriteCall(r))
  BY DEF WriteCall, CallType, Status, Measures
<1>2. ASSUME NEW r \in Registers PROVE ReadCall(r) \in CallType /\ Measures(ReadCall(r))
  BY DEF ReadCall, CallType, Status, Measures
<1>3. ASSUME NEW r \in Measuring PROVE Measurement(r) \in CallType /\ Measures(Measurement(r))
  BY DEF Measurement, CallType, Status, Registers, Measures
<1>4. QED
  BY <1>1, <1>2, <1>3

(* The calls of the code have their type; one that writes and then reads   *)
(* starts a measurement and takes a completed one alone for an answer.     *)
LEMMA CallsTyped == \A c \in Calls : c \in CallType /\ Measures(c)
<1>1. \A r \in {"IR_S", "IO_MODE", "W_GPIO", "PERIOD", "DUTY", "BATTERY", "IR_R", "R_GPIO", "ADC"} :
        r \in Registers
  BY DEF Registers
<1>2. \A r \in {"DHT", "DS18B20", "SR04"} : r \in Measuring
  BY DEF Measuring
<1>3. getADCValue \in CallType /\ Measures(getADCValue)
  BY <1>1 DEF getADCValue, ReadCall, CallType, Status, Measures
<1>4. getSr04Distance \in CallType /\ Measures(getSr04Distance)
  BY <1>2 DEF getSr04Distance, Measurement, CallType, Status, Registers, Measures
<1>5. \A c \in {sendIR, setMode, setGpioState, setMotorPeriod, setMotorDuty} :
        c \in CallType /\ Measures(c)
  BY <1>1, ShapesTyped DEF sendIR, setMode, setGpioState, setMotorPeriod, setMotorDuty
<1>6. \A c \in {getBattery, getIRData, getGpioState} : c \in CallType /\ Measures(c)
  BY <1>1, ShapesTyped DEF getBattery, getIRData, getGpioState
<1>7. \A c \in {getDHTValue, get18b20Value} : c \in CallType /\ Measures(c)
  BY <1>2, ShapesTyped DEF getDHTValue, get18b20Value
<1>8. QED
  BY <1>3, <1>4, <1>5, <1>6, <1>7, CallsAssumption DEF HardwareCalls

(* After a transfer a call tries again, goes on to poll, or returns.       *)
LEMMA LoopSteps ==
  ASSUME NEW t \in Tasks, Loop(t)
  PROVE  /\ UNCHANGED bus
         /\ pc[t] = "result"
         /\ \/ Again(t) 
            \/ Poll(t) 
            \/ Return(t)
BY DEF Loop, AfterWrite, AfterRead, Again, Poll, Return, Goto

LEMMA NoCallTyped == NoCall \in Calls
BY CallsAssumption DEF NoCall

LEMMA NothingTyped == Nothing \in [reg : Registers \cup {"none"}, status : Status, news : BOOLEAN]
BY DEF Nothing, Status

(* The variables have their types, but for the depth of the mutex.         *)
Typed ==
  /\ owner \in Tasks \cup {NoTask}
  /\ tx \in [reg : Registers \cup {"none"}, data : BOOLEAN]
  /\ rx \in [reg : Registers \cup {"none"}, status : Status, news : BOOLEAN]
  /\ pointer \in Registers \cup {"none"}
  /\ status \in [Registers -> Status]
  /\ pc \in [Tasks -> {"idle", "take", "retake", "begin", "fill", "end", "regive",
                       "request", "drain", "give", "result"}]
  /\ call \in [Tasks -> Calls]
  /\ phase \in [Tasks -> {"write", "read"}]
  /\ tries \in [Tasks -> 0..(RETRY_COUNT - 1)]
  /\ acked \in [Tasks -> BOOLEAN]
  /\ data \in [Tasks -> [reg : Registers \cup {"none"}, status : Status, news : BOOLEAN]]
  /\ told \in [Tasks -> BOOLEAN]
  /\ fresh \in [Measuring -> SUBSET Tasks]

(* A task holds the mutex from its take to its last give, twice while      *)
(* readReg() is in writeReg().                                             *)
Twice == {"begin", "fill", "end", "regive"}
Holding == Twice \cup {"retake", "request", "drain", "give"}

Mutex ==
  /\ \A t \in Tasks : owner = t <=> pc[t] \in Holding
  /\ owner = NoTask => depth = 0
  /\ \A t \in Tasks :
       /\ pc[t] \in {"retake", "regive", "request", "drain"} => phase[t] = "read"
       /\ pc[t] \in Holding =>
            depth = IF pc[t] \in Twice /\ phase[t] = "read" THEN 2 ELSE 1

(* The frame, the pointer and the bytes are those of the holder's call, and*)
(* news if they say a measurement is ready whose start was acknowledged.   *)
Own(t, r) ==
  /\ r.reg = call[t].reg
  /\ r.status = "ready" /\ told[t] /\ r.reg \in Measuring => r.news

Transferred ==
  \A t \in Tasks :
    /\ pc[t] = "end" => tx = [reg |-> call[t].reg, data |-> phase[t] = "write"]
    /\ (pc[t] = "regive" /\ acked[t]) \/ pc[t] = "request" => pointer = call[t].reg
    /\ pc[t] = "drain" /\ rx # Nothing => Own(t, rx)
    /\ pc[t] \in {"give", "result"} /\ phase[t] = "read" /\ acked[t] => Own(t, data[t])

(* Whoever restarts a measurement does so for all that wait for it.        *)
Told ==
  \A t \in Tasks :
    told[t] => /\ pc[t] # "idle"
               /\ call[t].reg \in Measuring => t \in fresh[call[t].reg]

BusInv == Typed /\ Mutex /\ Transferred /\ Told

-----------------------------------------------------------------------------

LEMMA BusInit == Init => BusInv
<1> SUFFICES ASSUME Init PROVE BusInv
  OBVIOUS
<1> USE DEF Init
<1>1. Typed
  BY NoCallTyped, RetryAssumption DEF Typed, Empty, Nothing, Status, Registers
<1>2. Mutex
  BY TasksAssumption DEF Mutex, Holding, Twice
<1>3. Transferred /\ Told
  BY DEF Transferred, Told
<1>4. QED
  BY <1>1, <1>2, <1>3 DEF BusInv

(* The loops keep the mutex and what was read alone.                       *)
LEMMA LoopKeepsBus ==
  ASSUME BusInv, NEW t \in Tasks, Loop(t)
  PROVE  BusInv'
<1> USE DEF BusInv
<1>1. UNCHANGED bus /\ pc[t] = "result" /\ (Again(t) \/ Poll(t) \/ Return(t))
  BY LoopSteps
<1>2. pc'[t] \notin Holding /\ \A u \in Tasks \ {t} : pc'[u] = pc[u]
  BY <1>1 DEF Typed, Again, Poll, Return, Goto, Holding, Twice
<1>3. Typed'
  <2>1. tries' \in [Tasks -> 0..(RETRY_COUNT - 1)]
    BY <1>1, RetryAssumption DEF Typed, Again, Poll, Return
  <2>2. data' \in [Tasks -> [reg : Registers \cup {"none"}, status : Status, news : BOOLEAN]]
    BY <1>1, NothingTyped DEF Typed, Again, Poll, Return
  <2>3. fresh' \in [Measuring -> SUBSET Tasks]
    BY <1>1 DEF Typed, Again, Poll, Return
  <2>4. call' \in [Tasks -> Calls]
    BY <1>1, NoCallTyped DEF Typed, Again, Poll, Return
  <2>5. pc' \in [Tasks -> {"idle", "take", "retake", "begin", "fill", "end", "regive",
                          "request", "drain", "give", "result"}]
    BY <1>1 DEF Typed, Again, Poll, Return, Goto
  <2>6. /\ phase' \in [Tasks -> {"write", "read"}]
        /\ acked' \in [Tasks -> BOOLEAN]
        /\ told' \in [Tasks -> BOOLEAN]
    <3>1. phase' \in [Tasks -> {"write", "read"}]
      BY <1>1 DEF Typed, Again, Poll, Return
    <3>2. acked' \in [Tasks -> BOOLEAN]
      BY <1>1 DEF Typed, Again, Poll, Return
    <3>3. told' \in [Tasks -> BOOLEAN]
      BY <1>1 DEF Typed, Again, Poll, Return
    <3>4. QED
      BY <3>1, <3>2, <3>3
  <2>7. QED
    BY <1>1, <2>1, <2>2, <2>3, <2>4, <2>5, <2>6 DEF Typed, bus
<1>4. \A u \in Tasks \ {t} : /\ call'[u] = call[u] /\ phase'[u] = phase[u]
                              /\ acked'[u] = acked[u] /\ data'[u] = data[u]
                              /\ told'[u] = told[u]
  BY <1>1 DEF Typed, Again, Poll, Return
<1>5. Mutex'
  BY <1>1, <1>2, <1>4 DEF Mutex, bus, Holding, Twice
<1>6. Transferred'
  BY <1>1, <1>2, <1>4 DEF Transferred, Own, bus, Again, Poll, Return, Goto, Typed
<1>7. Told'
  <2>1. \A u \in Tasks, r \in Measuring : u \in fresh[r] /\ told'[u] => u \in fresh'[r]
    BY <1>1 DEF Again, Poll, Return, Typed
  <2>2. \A u \in Tasks : told'[u] => told[u] /\ pc'[u] # "idle" /\ call'[u] = call[u]
    BY <1>1, <1>2, <1>4 DEF Told, Again, Poll, Return, Typed, Goto
  <2>3. QED
    BY <2>1, <2>2 DEF Told
<1>8. QED
  BY <1>3, <1>5, <1>6, <1>7

(* A call is made; the board ends a measurement.                           *)
LEMMA OthersKeepBus ==
  ASSUME BusInv,
         \/ \E t \in Tasks, c \in Calls : Start(t, c)
         \/ \E r \in {c.reg : c \in Calls} : Measured(r)
         \/ UNCHANGED vars
  PROVE  BusInv'
<1> USE DEF BusInv
<1>1. ASSUME NEW t \in Tasks, NEW c \in Calls, Start(t, c) PROVE BusInv'
  <2>1. Typed'
    BY <1>1, RetryAssumption DEF Typed, Start, Goto, bus
  <2>2. Mutex'
    BY <1>1 DEF Typed, Mutex, Start, Goto, bus, Holding, Twice
  <2>3. Transferred'
    BY <1>1 DEF Typed, Transferred, Own, Start, Goto, bus
  <2>4. Told'
    BY <1>1 DEF Typed, Told, Start, Goto
  <2>5. QED
    BY <2>1, <2>2, <2>3, <2>4
<1>2. ASSUME NEW r \in {c.reg : c \in Calls}, Measured(r) PROVE BusInv'
  <2>1. Typed'
    BY <1>2 DEF Typed, Measured, taskVars, Status
  <2>2. Mutex' /\ Transferred' /\ Told'
    BY <1>2 DEF Mutex, Transferred, Own, Told, Measured, taskVars
  <2>3. QED
    BY <2>1, <2>2
<1>3. CASE UNCHANGED vars
  BY <1>3 DEF Typed, Mutex, Transferred, Own, Told, vars, bus, taskVars
<1>4. QED
  BY <1>1, <1>2, <1>3

(* The steps of a transfer that touch the mutex and the program counter    *)
(* only.                                                                   *)
LEMMA MutexSteps ==
  ASSUME BusInv, NEW t \in Tasks, Take(t) \/ Retake(t) \/ Regive(t) \/ Give(t)
  PROVE  BusInv'
<1> USE DEF BusInv
<1>1. Typed'
  BY DEF Typed, Take, Retake, Regive, Give, Goto, TakeRecursive, GiveRecursive
<1>2. \A u \in Tasks \ {t} : pc'[u] = pc[u]
  BY DEF Typed, Take, Retake, Regive, Give, Goto
<1>3. UNCHANGED <<tx, rx, pointer, status, call, phase, tries, acked, data, told, fresh>>
  BY DEF Take, Retake, Regive, Give
<1>4. Mutex'
  <2>1. CASE Take(t)
    BY <2>1, <1>2, TasksAssumption DEF Mutex, Typed, Take, Goto, TakeRecursive, Holding, Twice
  <2>2. CASE Retake(t)
    BY <2>2, <1>2, TasksAssumption DEF Mutex, Typed, Retake, Goto, TakeRecursive, Holding, Twice
  <2>3. CASE Regive(t)
    BY <2>3, <1>2, TasksAssumption DEF Mutex, Typed, Regive, Goto, GiveRecursive, Holding, Twice
  <2>4. CASE Give(t)
    BY <2>4, <1>2, TasksAssumption DEF Mutex, Typed, Give, Goto, GiveRecursive, Holding, Twice
  <2>5. QED
    BY <2>1, <2>2, <2>3, <2>4
<1>5. Transferred'
  BY <1>2, <1>3 DEF Transferred, Own, Typed, Take, Retake, Regive, Give, Goto, Mutex, Holding, Twice
<1>6. Told'
  BY <1>2, <1>3 DEF Told, Typed, Take, Retake, Regive, Give, Goto
<1>7. QED
  BY <1>1, <1>4, <1>5, <1>6

(* Nobody else is between a take and its give.                             *)
LEMMA HolderAlone ==
  ASSUME BusInv, NEW t \in Tasks, pc[t] \in Holding, NEW u \in Tasks \ {t}
  PROVE  pc[u] \notin Holding
BY DEF BusInv, Mutex

(* The steps that move bytes: the holder stays the holder, and what others *)
(* have taken from the bus is theirs.                                      *)
LEMMA ByteSteps ==
  ASSUME BusInv, NEW t \in Tasks,
         \/ BeginTransmission(t) \/ Fill(t) \/ Drain(t)
         \/ \E ack \in BOOLEAN : EndTransmission(t, ack)
         \/ \E whole \in BOOLEAN : RequestFrom(t, whole)
  PROVE  BusInv'
<1> USE DEF BusInv
<1>1. pc[t] \in Holding /\ \A u \in Tasks \ {t} : pc'[u] = pc[u] /\ pc[u] \notin Holding
  BY HolderAlone DEF Typed, BeginTransmission, Fill, Drain, EndTransmission, RequestFrom, Goto,
                     Holding, Twice
<1>2. UNCHANGED <<owner, depth, call, phase>>
  BY DEF BeginTransmission, Fill, Drain, EndTransmission, RequestFrom
<1>3. call[t].reg \in Registers
  BY CallsTyped DEF Typed, CallType
<1>4. CASE BeginTransmission(t)
  <2>1. Typed'
    BY <1>4 DEF Typed, BeginTransmission, Goto, Empty
  <2>2. Mutex'
    BY <1>4, <1>1, <1>2 DEF Typed, Mutex, BeginTransmission, Goto, Holding, Twice
  <2>3. Transferred'
    BY <1>4, <1>1 DEF Typed, Transferred, Own, BeginTransmission, Goto, Holding, Twice
  <2>4. Told'
    BY <1>4, <1>1 DEF Typed, Told, BeginTransmission, Goto
  <2>5. QED
    BY <2>1, <2>2, <2>3, <2>4
<1>5. CASE Fill(t)
  <2>1. Typed'
    BY <1>5, <1>3 DEF Typed, Fill, Goto
  <2>2. Mutex'
    BY <1>5, <1>1, <1>2 DEF Typed, Mutex, Fill, Goto, Holding, Twice
  <2>3. Transferred'
    BY <1>5, <1>1 DEF Typed, Transferred, Own, Fill, Goto, Holding, Twice
  <2>4. Told'
    BY <1>5, <1>1 DEF Typed, Told, Fill, Goto
  <2>5. QED
    BY <2>1, <2>2, <2>3, <2>4
<1>6. CASE Drain(t)
  <2>1. Typed'
    BY <1>6, NothingTyped DEF Typed, Drain, Goto
  <2>2. Mutex'
    BY <1>6, <1>1, <1>2 DEF Typed, Mutex, Drain, Goto, Holding, Twice
  <2>3. Transferred'
    <3>1. pc[t] = "drain" /\ pc'[t] = "give" /\ data'[t] = rx /\ (acked'[t] <=> rx # Nothing)
      BY <1>6 DEF Typed, Drain, Goto
    <3>2. \A u \in Tasks \ {t} : data'[u] = data[u] /\ acked'[u] = acked[u]
      BY <1>6 DEF Typed, Drain
    <3>3. UNCHANGED <<tx, pointer, call, phase, told>>
      BY <1>6 DEF Drain
    <3>4. acked'[t] => Own(t, data[t])'
      BY <3>1, <3>3 DEF Transferred, Own
    <3>5. QED
      BY <1>1, <3>1, <3>2, <3>3, <3>4 DEF Transferred, Own, Holding, Twice
  <2>4. Told'
    BY <1>6, <1>1 DEF Typed, Told, Drain, Goto
  <2>5. QED
    BY <2>1, <2>2, <2>3, <2>4
<1>7. ASSUME NEW whole \in BOOLEAN, RequestFrom(t, whole) PROVE BusInv'
  <2>1. pointer = call[t].reg /\ pointer \in Registers
    BY <1>7, <1>3 DEF Transferred, RequestFrom, Goto
  <2>2. Content(t, pointer) \in [reg : Registers \cup {"none"}, status : Status, news : BOOLEAN]
    BY <2>1 DEF Content, Typed
  <2>3. Typed'
    BY <1>7, <2>2, NothingTyped DEF Typed, RequestFrom, Goto
  <2>4. Mutex'
    BY <1>7, <1>1, <1>2 DEF Typed, Mutex, RequestFrom, Goto, Holding, Twice
  <2>5. Own(t, Content(t, pointer))
    BY <2>1 DEF Own, Content, Told
  <2>6. Transferred'
    BY <1>7, <1>1, <2>5 DEF Typed, Transferred, Own, RequestFrom, Goto, Holding, Twice
  <2>7. Told'
    BY <1>7, <1>1 DEF Typed, Told, RequestFrom, Goto
  <2>8. QED
    BY <2>3, <2>4, <2>6, <2>7
<1>8. ASSUME NEW ack \in BOOLEAN, EndTransmission(t, ack) PROVE BusInv'
  <2>1. tx = [reg |-> call[t].reg, data |-> phase[t] = "write"]
    BY <1>8 DEF Transferred, EndTransmission, Goto
  <2>2. pointer' \in Registers \cup {"none"} /\ (ack => pointer' = call[t].reg)
    BY <1>8, <2>1, <1>3 DEF EndTransmission, Accept, Typed
  <2>3. status' \in [Registers -> Status]
    BY <1>8 DEF EndTransmission, Accept, Typed, Status
  <2>4. fresh' \in [Measuring -> SUBSET Tasks]
    BY <1>8 DEF EndTransmission, Accept, Typed
  <2>5. acked' = [acked EXCEPT ![t] = ack] /\ acked' \in [Tasks -> BOOLEAN]
    BY <1>8 DEF EndTransmission, Typed
  <2>6. told' \in [Tasks -> BOOLEAN]
    BY <1>8, Zenon DEF EndTransmission, Typed
  <2>7. Typed'
    <3>1. tx' \in [reg : Registers \cup {"none"}, data : BOOLEAN]
      BY <1>8 DEF EndTransmission, Empty
    <3>2. pc' \in [Tasks -> {"idle", "take", "retake", "begin", "fill", "end", "regive",
                            "request", "drain", "give", "result"}]
      BY <1>8 DEF EndTransmission, Goto, Typed
    <3>3. QED
      BY <1>8, <1>2, <2>2, <2>3, <2>4, <2>5, <2>6, <3>1, <3>2 DEF Typed, EndTransmission
  <2>8. pc'[t] = IF phase[t] = "read" THEN "regive" ELSE "give"
    BY <1>8 DEF EndTransmission, Goto, Typed
  <2>9. Mutex'
    BY <1>8, <1>1, <1>2, <2>8 DEF Typed, Mutex, EndTransmission, Goto, Holding, Twice
  <2>10. \A u \in Tasks \ {t} : acked'[u] = acked[u] /\ told'[u] = told[u] /\ data'[u] = data[u]
    BY <1>8 DEF EndTransmission, Typed
  <2>11. Transferred'
    BY <1>1, <1>2, <2>2, <2>5, <2>8, <2>10 DEF Typed, Transferred, Own, Holding, Twice
  <2>12. Told'
    <3>1. \A u \in Tasks, r \in Measuring : u \in fresh[r] /\ pc[u] # "idle" => u \in fresh'[r]
      BY <1>8 DEF EndTransmission, Accept, Typed
    <3>2. ASSUME told'[t], ~told[t], call[t].reg \in Measuring PROVE t \in fresh'[call[t].reg]
      BY <1>8, <2>1, <3>2 DEF EndTransmission, Accept, Typed, Goto
    <3>3. pc[t] # "idle" /\ pc'[t] # "idle"
      BY <1>8, <2>8 DEF EndTransmission, Goto
    <3>4. QED
      BY <1>1, <1>2, <2>10, <3>1, <3>2, <3>3 DEF Told, Typed
  <2>13. QED
    BY <2>7, <2>9, <2>11, <2>12
<1>9. QED
  BY <1>4, <1>5, <1>6, <1>7, <1>8

-----------------------------------------------------------------------------

LEMMA BusInvHolds == Spec => []BusInv
<1>1. BusInv /\ [Next]_vars => BusInv'
  BY LoopKeepsBus, OthersKeepBus, MutexSteps, ByteSteps DEF Next, Transfer
<1>2. QED
  BY BusInit, <1>1, PTL DEF Spec

(* Every variable has its type, and the mutex is never taken more than     *)
(* twice.                                                                  *)
THEOREM TypeCorrect == Spec => []TypeOK
<1>1. BusInv => TypeOK
  <2>1. BusInv => depth \in 0..2
    BY DEF BusInv, Typed, Mutex
  <2>2. QED
    BY <2>1 DEF BusInv, Typed, TypeOK
<1>2. QED
  BY BusInvHolds, <1>1, PTL

(* A task sends its own frame: endTransmission() under the mutex.          *)
THEOREM FrameIntactHolds == Spec => []FrameIntact
<1>1. BusInv => FrameIntact
  BY DEF BusInv, Transferred, FrameIntact
<1>2. QED
  BY BusInvHolds, <1>1, PTL

(* readReg() reads the register it was asked for.                          *)
THEOREM ReadsOwnRegisterHolds == Spec => []ReadsOwnRegister
<1>1. BusInv => ReadsOwnRegister
  BY DEF BusInv, Transferred, Own, ReadsOwnRegister
<1>2. QED
  BY BusInvHolds, <1>1, PTL

(* A sensor call whose start was acknowledged returns a measurement that   *)
(* was started after it began.                                             *)
THEOREM FreshMeasurementHolds == Spec => []FreshMeasurement
<1>1. BusInv => FreshMeasurement
  <2> SUFFICES ASSUME BusInv, NEW t \in Tasks, pc[t] = "result", phase[t] = "read", acked[t],
                      told[t], call[t].writes, data[t].status \in call[t].answers
               PROVE  data[t].news
    BY DEF FreshMeasurement
  <2>1. call[t].reg \in Measuring /\ call[t].answers = {"ready"}
    BY CallsTyped DEF Measures, BusInv, Typed
  <2>2. QED
    BY <2>1 DEF BusInv, Transferred, Own
<1>2. QED
  BY BusInvHolds, <1>1, PTL

-----------------------------------------------------------------------------
(* The refinement of BoardRegisters.                                       *)

(* Where a transfer is asked for and nothing of it has happened.           *)
Asking(t) ==
  \/ pc[t] \in {"take", "retake", "begin", "fill", "end", "request"}
  \/ pc[t] = "regive" /\ acked[t]

LEMMA TransferCases ==
  ASSUME NEW t \in Tasks
  PROVE  /\ pc[t] = "idle" => TransferOf(t) = Board!NoTransfer
         /\ Asking(t) => TransferOf(t) = Board!Asked(call[t].reg, phase[t] = "write")
         /\ pc[t] = "drain" => TransferOf(t) = TransferAt(t, "answered", rx # Nothing, rx.status)
         /\ pc[t] \in {"give", "result"} \/ (pc[t] = "regive" /\ ~acked[t]) =>
              TransferOf(t) = TransferAt(t, "answered", acked[t],
                IF acked[t] /\ phase[t] = "read" THEN data[t].status ELSE "none")
BY DEF TransferOf, TransferAt, Asking, Board!NoTransfer, Board!Asked

(* A task that does not move sees its transfer unchanged, unless its bytes *)
(* are in the receive buffer and that changes.                             *)
LEMMA UnmovedTransfer ==
  ASSUME NEW u \in Tasks,
         pc'[u] = pc[u], call'[u] = call[u], phase'[u] = phase[u],
         acked'[u] = acked[u], data'[u] = data[u],
         pc[u] = "drain" => rx' = rx
  PROVE  TransferOf(u)' = TransferOf(u)
<1>1. CASE pc[u] = "drain"
  BY <1>1 DEF TransferOf, TransferAt
<1>2. CASE pc[u] # "drain"
  BY <1>2 DEF TransferOf, TransferAt
<1>3. QED
  BY <1>1, <1>2

(* The other tasks see nothing of a step of t: none of them has bytes in   *)
(* the receive buffer when t may touch it.                                 *)
LEMMA OthersUnmoved ==
  ASSUME BusInv, NEW t \in Tasks,
         \A u \in Tasks \ {t} : /\ pc'[u] = pc[u] /\ call'[u] = call[u]
                                /\ phase'[u] = phase[u] /\ acked'[u] = acked[u]
                                /\ data'[u] = data[u],
         rx' # rx => pc[t] \in Holding
  PROVE  \A u \in Tasks \ {t} : TransferOf(u)' = TransferOf(u)
<1> SUFFICES ASSUME NEW u \in Tasks \ {t} PROVE TransferOf(u)' = TransferOf(u)
  OBVIOUS
<1>1. pc[u] = "drain" => rx' = rx
  BY HolderAlone DEF Holding
<1>2. QED
  BY <1>1, UnmovedTransfer

LEMMA OneTransfer ==
  ASSUME NEW t \in Tasks, NEW x,
         \A u \in Tasks \ {t} : TransferOf(u)' = TransferOf(u),
         TransferOf(t)' = x
  PROVE  Board!Becomes(t, x)
<1>1. [u \in Tasks |-> TransferOf(u)]' = [[u \in Tasks |-> TransferOf(u)] EXCEPT ![t] = x]
  OBVIOUS
<1>2. QED
  BY <1>1 DEF Board!Becomes

LEMMA SameTransfers ==
  ASSUME status' = status, \A u \in Tasks : TransferOf(u)' = TransferOf(u)
  PROVE  UNCHANGED Board!vars
BY DEF Board!vars

(* The steps of a transfer in which nothing happens to its caller.         *)
LEMMA SilentSteps ==
  ASSUME BusInv, NEW t \in Tasks,
         \/ Take(t) \/ Retake(t) \/ BeginTransmission(t) \/ Fill(t)
         \/ Regive(t) \/ Drain(t) \/ Give(t)
  PROVE  UNCHANGED Board!vars
<1> USE DEF BusInv
<1>1. status' = status
  BY DEF Take, Retake, BeginTransmission, Fill, Regive, Drain, Give
<1>2. \A u \in Tasks \ {t} : TransferOf(u)' = TransferOf(u)
  <2>1. \A u \in Tasks \ {t} : /\ pc'[u] = pc[u] /\ call'[u] = call[u]
                                /\ phase'[u] = phase[u] /\ acked'[u] = acked[u]
                                /\ data'[u] = data[u]
    BY DEF Typed, Goto, Take, Retake, BeginTransmission, Fill, Regive, Drain, Give
  <2>2. rx' # rx => pc[t] \in Holding
    BY DEF Goto, Take, Retake, BeginTransmission, Fill, Regive, Drain, Give, Holding
  <2>3. QED
    BY <2>1, <2>2, OthersUnmoved
<1>3. TransferOf(t)' = TransferOf(t)
  <2>1. CASE Take(t) \/ Retake(t) \/ BeginTransmission(t) \/ Fill(t) \/ Regive(t)
    <3>1. call' = call /\ phase' = phase /\ acked' = acked /\ data' = data
      BY <2>1 DEF Take, Retake, BeginTransmission, Fill, Regive
    <3>2. CASE Asking(t)
      <4>1. Asking(t)'
        BY <2>1, <3>1, <3>2
        DEF Asking, Typed, Goto, Take, Retake, BeginTransmission, Fill, Regive
      <4>2. QED
        BY <3>1, <3>2, <4>1 DEF TransferOf, TransferAt, Asking
    <3>3. CASE ~Asking(t)
      <4>1. pc[t] = "regive" /\ ~acked[t] /\ pc'[t] = "give"
        BY <2>1, <3>3 DEF Asking, Typed, Goto, Take, Retake, BeginTransmission, Fill, Regive
      <4>2. QED
        BY <3>1, <4>1 DEF TransferOf, TransferAt
    <3>4. QED
      BY <3>2, <3>3
  <2>2. CASE Drain(t)
    <3>1. /\ pc[t] = "drain" /\ pc'[t] = "give" /\ phase[t] = "read"
          /\ call' = call /\ phase' = phase
          /\ data'[t] = rx /\ acked'[t] = (rx # Nothing)
      BY <2>2 DEF Drain, Goto, Typed, Mutex
    <3>2. rx = Nothing => rx.status = "none"
      BY DEF Nothing
    <3>3. QED
      BY <3>1, <3>2 DEF TransferOf, TransferAt
  <2>3. CASE Give(t)
    <3>1. pc[t] = "give" /\ pc'[t] = "result" /\ UNCHANGED <<call, phase, acked, data>>
      BY <2>3 DEF Give, Goto, Typed
    <3>2. QED
      BY <3>1 DEF TransferOf, TransferAt
  <2>4. QED
    BY <2>1, <2>2, <2>3
<1>4. QED
  BY <1>1, <1>2, <1>3, SameTransfers

(* endTransmission() is where a write takes effect, and where a read whose *)
(* register is not acknowledged fails.                                     *)
LEMMA SentOrLost ==
  ASSUME BusInv, NEW t \in Tasks, NEW ack \in BOOLEAN, EndTransmission(t, ack)
  PROVE  [Board!Next]_(Board!vars)
<1> USE DEF BusInv
<1> DEFINE x == [u \in Tasks |-> TransferOf(u)][t]
<1>1. /\ pc[t] = "end" /\ tx = [reg |-> call[t].reg, data |-> phase[t] = "write"]
      /\ pc'[t] = IF phase[t] = "read" THEN "regive" ELSE "give"
      /\ acked'[t] = ack /\ UNCHANGED <<call, phase, data, rx>>
      /\ phase[t] \in {"write", "read"}
  BY DEF EndTransmission, Goto, Typed, Transferred
<1>2. \A u \in Tasks \ {t} : TransferOf(u)' = TransferOf(u)
  <2>1. \A u \in Tasks \ {t} : /\ pc'[u] = pc[u] /\ call'[u] = call[u]
                                /\ phase'[u] = phase[u] /\ acked'[u] = acked[u]
                                /\ data'[u] = data[u]
    BY DEF EndTransmission, Goto, Typed
  <2>2. QED
    BY <1>1, <2>1, OthersUnmoved
<1>3. x = Board!Asked(call[t].reg, phase[t] = "write")
  BY <1>1, TransferCases DEF Asking
<1>4. CASE ack /\ phase[t] = "read"
  <2>1. TransferOf(t)' = TransferOf(t)
    BY <1>1, <1>4 DEF TransferOf, TransferAt
  <2>2. status' = status
    BY <1>1, <1>4 DEF EndTransmission, Accept
  <2>3. QED
    BY <1>2, <2>1, <2>2, SameTransfers
<1>5. CASE ack /\ phase[t] = "write"
  <2>1. TransferOf(t)' = Board!Answered(x, TRUE, "none")
    BY <1>1, <1>3, <1>5 DEF TransferOf, TransferAt, Board!Answered, Board!Asked
  <2>2. status' = IF x.reg \in Measuring THEN [status EXCEPT ![x.reg] = "busy"] ELSE status
    <3>1. x.reg = call[t].reg
      BY <1>3 DEF Board!Asked
    <3>2. status' = IF tx.reg \in Measuring THEN [status EXCEPT ![tx.reg] = "busy"] ELSE status
      BY <1>1, <1>5 DEF EndTransmission, Accept
    <3>3. QED
      BY <1>1, <3>1, <3>2
  <2>3. x.stage = "asked" /\ x.writes
    <3>1. x = Board!Asked(call[t].reg, TRUE)
      BY <1>3, <1>5
    <3>2. QED
      BY <3>1 DEF Board!Asked
  <2>4. Board!Write(t)
    BY <1>2, <2>1, <2>2, <2>3, OneTransfer DEF Board!Write
  <2>5. QED
    BY <2>4 DEF Board!Next
<1>6. CASE ~ack
  <2>1. TransferOf(t)' = Board!Answered(x, FALSE, "none")
    BY <1>1, <1>3, <1>6 DEF TransferOf, TransferAt, Board!Answered, Board!Asked
  <2>2. status' = status /\ x.stage = "asked"
    BY <1>3, <1>6 DEF EndTransmission, Board!Asked
  <2>3. Board!Fail(t)
    BY <1>2, <2>1, <2>2, OneTransfer DEF Board!Fail
  <2>4. QED
    BY <2>3 DEF Board!Next
<1>7. QED
  BY <1>1, <1>4, <1>5, <1>6

(* requestFrom() is where a read takes effect, or gets too few bytes.      *)
LEMMA ReadOrShort ==
  ASSUME BusInv, NEW t \in Tasks, NEW whole \in BOOLEAN, RequestFrom(t, whole)
  PROVE  [Board!Next]_(Board!vars)
<1> USE DEF BusInv
<1> DEFINE x == [u \in Tasks |-> TransferOf(u)][t]
<1>1. /\ pc[t] = "request" /\ pc'[t] = "drain" /\ phase[t] = "read"
      /\ pointer = call[t].reg /\ pointer \in Registers
      /\ rx' = IF whole THEN Content(t, pointer) ELSE Nothing
      /\ UNCHANGED <<call, phase, acked, data, status>>
  <2>1. call[t].reg \in Registers
    BY CallsTyped DEF Typed, CallType
  <2>2. QED
    BY <2>1 DEF RequestFrom, Goto, Typed, Mutex, Transferred
<1>2. \A u \in Tasks \ {t} : TransferOf(u)' = TransferOf(u)
  <2>1. \A u \in Tasks \ {t} : pc'[u] = pc[u]
    BY DEF RequestFrom, Goto, Typed
  <2>2. QED
    BY <1>1, <2>1, OthersUnmoved DEF Holding
<1>3. x = Board!Asked(call[t].reg, FALSE)
  BY <1>1, TransferCases DEF Asking
<1>4. CASE whole
  <2>1. rx' # Nothing /\ rx'.status = status[call[t].reg]
    BY <1>1, <1>4 DEF Content, Nothing, Registers, Measuring
  <2>2. TransferOf(t)' = Board!Answered(x, TRUE, status[x.reg])
    BY <1>1, <1>3, <2>1 DEF TransferOf, TransferAt, Board!Answered, Board!Asked
  <2>3. x.stage = "asked" /\ ~x.writes
    BY <1>3 DEF Board!Asked
  <2>4. Board!Read(t)
    BY <1>1, <1>2, <2>2, <2>3, OneTransfer DEF Board!Read
  <2>5. QED
    BY <2>4 DEF Board!Next
<1>5. CASE ~whole
  <2>1. TransferOf(t)' = Board!Answered(x, FALSE, "none")
    BY <1>1, <1>3, <1>5 DEF TransferOf, TransferAt, Nothing, Board!Answered, Board!Asked
  <2>2. x.stage = "asked"
    BY <1>3 DEF Board!Asked
  <2>3. Board!Fail(t)
    BY <1>1, <1>2, <2>1, <2>2, OneTransfer DEF Board!Fail
  <2>4. QED
    BY <2>3 DEF Board!Next
<1>6. QED
  BY <1>4, <1>5

(* A call asks for its first transfer.                                     *)
LEMMA StartAsks ==
  ASSUME BusInv, NEW t \in Tasks, NEW c \in Calls, Start(t, c)
  PROVE  Board!Ask(t)
<1> USE DEF BusInv
<1>1. /\ pc[t] = "idle" /\ pc'[t] = "take" /\ call'[t] = c /\ c.reg \in Registers
      /\ UNCHANGED <<rx, status>>
  BY CallsTyped DEF Start, Goto, Typed, bus, CallType
<1>2. \A u \in Tasks \ {t} : TransferOf(u)' = TransferOf(u)
  <2>1. \A u \in Tasks \ {t} : /\ pc'[u] = pc[u] /\ call'[u] = call[u]
                                /\ phase'[u] = phase[u] /\ acked'[u] = acked[u]
                                /\ data'[u] = data[u]
    BY DEF Start, Goto, Typed
  <2>2. QED
    BY <1>1, <2>1, OthersUnmoved
<1>3. TransferOf(t)' = Board!Asked(c.reg, (phase[t] = "write")')
  BY <1>1 DEF TransferOf, TransferAt, Board!Asked
<1>4. [u \in Tasks |-> TransferOf(u)][t].stage # "asked"
  BY <1>1, TransferCases DEF Board!NoTransfer
<1>5. Board!Becomes(t, Board!Asked(c.reg, (phase[t] = "write")'))
  BY <1>2, <1>3, OneTransfer
<1>6. QED
  BY <1>1, <1>4, <1>5 DEF Board!Ask

(* After a transfer its task asks for the next one or leaves.              *)
LEMMA LoopAsksOrLeaves ==
  ASSUME BusInv, NEW t \in Tasks, Loop(t)
  PROVE  Board!Ask(t) \/ Board!Leave(t)
<1> USE DEF BusInv
<1>1. UNCHANGED bus /\ pc[t] = "result" /\ (Again(t) \/ Poll(t) \/ Return(t))
  BY LoopSteps
<1>2. \A u \in Tasks \ {t} : TransferOf(u)' = TransferOf(u)
  <2>1. \A u \in Tasks \ {t} : /\ pc'[u] = pc[u] /\ call'[u] = call[u]
                                /\ phase'[u] = phase[u] /\ acked'[u] = acked[u]
                                /\ data'[u] = data[u]
    BY <1>1 DEF Again, Poll, Return, Goto, Typed
  <2>2. QED
    BY <1>1, <2>1, OthersUnmoved DEF bus
<1>3. [u \in Tasks |-> TransferOf(u)][t].stage = "answered"
  BY <1>1, TransferCases DEF TransferAt
<1>4. CASE Again(t) \/ Poll(t)
  <2>1. pc'[t] = "take" /\ call'[t] = call[t] /\ call[t].reg \in Registers
    BY <1>4, CallsTyped DEF Again, Poll, Goto, Typed, CallType
  <2>2. TransferOf(t)' = Board!Asked(call[t].reg, (phase[t] = "write")')
    BY <2>1 DEF TransferOf, TransferAt, Board!Asked
  <2>3. Board!Becomes(t, Board!Asked(call[t].reg, (phase[t] = "write")'))
    BY <1>2, <2>2, OneTransfer
  <2>4. QED
    BY <1>1, <1>3, <2>1, <2>3 DEF Board!Ask, bus
<1>5. CASE Return(t)
  <2>1. TransferOf(t)' = Board!NoTransfer
    BY <1>5 DEF Return, Goto, Typed, TransferOf, Board!NoTransfer
  <2>2. Board!Becomes(t, Board!NoTransfer)
    BY <1>2, <2>1, OneTransfer
  <2>3. QED
    BY <1>1, <1>3, <2>2 DEF Board!Leave, bus
<1>6. QED
  BY <1>1, <1>4, <1>5

(* The board itself moves.                                                 *)
LEMMA MeasuredTheSame ==
  ASSUME NEW r \in {c.reg : c \in Calls}, Measured(r)
  PROVE  Board!Next
<1>1. r \in Registers
  BY CallsTyped DEF CallType
<1>2. \A u \in Tasks : TransferOf(u)' = TransferOf(u)
  BY UnmovedTransfer DEF Measured, taskVars
<1>3. [u \in Tasks |-> TransferOf(u)]' = [u \in Tasks |-> TransferOf(u)]
  BY <1>2
<1>4. Board!Measured(r)
  BY <1>3 DEF Measured, Board!Measured
<1>5. QED
  BY <1>1, <1>4 DEF Board!Next

(* To its callers a transfer is one step of the board: writeReg() and      *)
(* readReg() implement BoardRegisters.                                     *)
THEOREM BusRefinement == Spec => BusPromise
<1>1. Init => Board!Init
  BY DEF Init, Board!Init, Board!NoTransfer, TransferOf
<1>2. BusInv /\ [Next]_vars => [Board!Next]_(Board!vars)
  <2> SUFFICES ASSUME BusInv, [Next]_vars PROVE [Board!Next]_(Board!vars)
    OBVIOUS
  <2>1. ASSUME NEW t \in Tasks, Take(t) \/ Transfer(t) \/ Loop(t)
        PROVE  [Board!Next]_(Board!vars)
    <3>1. CASE Loop(t)
      BY <3>1, LoopAsksOrLeaves DEF Board!Next
    <3>2. CASE Take(t) \/ Transfer(t)
      BY <3>2, SilentSteps, SentOrLost, ReadOrShort DEF Transfer
    <3>3. QED
      BY <2>1, <3>1, <3>2
  <2>2. ASSUME NEW t \in Tasks, NEW c \in Calls, Start(t, c) PROVE [Board!Next]_(Board!vars)
    BY <2>2, StartAsks DEF Board!Next
  <2>3. ASSUME NEW r \in {c.reg : c \in Calls}, Measured(r) PROVE [Board!Next]_(Board!vars)
    BY <2>3, MeasuredTheSame
  <2>4. CASE UNCHANGED vars
    <3>1. \A u \in Tasks : TransferOf(u)' = TransferOf(u)
      BY <2>4, UnmovedTransfer DEF vars, bus, taskVars
    <3>2. QED
      BY <2>4, <3>1, SameTransfers DEF vars, bus
  <2>5. QED
    BY <2>1, <2>2, <2>3, <2>4 DEF Next
<1>3. QED
  BY <1>1, <1>2, BusInvHolds, PTL DEF Spec, BusPromise, Board!Spec

-----------------------------------------------------------------------------
(* The calls run down.                                                     *)

PCs == {"idle", "take", "retake", "begin", "fill", "end", "regive", "request", "drain", "give",
        "result"}

LEMMA AheadTyped ==
  /\ Ahead \in [PCs \ {"idle"} -> 0..9]
  /\ Ahead["take"] = 9 /\ Ahead["result"] = 0
BY DEF Ahead, PCs

(* What a task that moves has left is counted by its retries and phase.    *)
LEMMA StepsTyped ==
  ASSUME BusInv, NEW t \in Tasks, pc[t] # "idle"
  PROVE  /\ StepsLeft(t) \in Nat
         /\ Ahead[pc[t]] \in 0..9 /\ tries[t] \in Nat /\ tries[t] <= RETRY_COUNT - 1
<1>1. Ahead[pc[t]] \in 0..9
  BY AheadTyped DEF BusInv, Typed, PCs
<1>2. tries[t] \in 0..(RETRY_COUNT - 1)
  BY DEF BusInv, Typed
<1>3. QED
  BY <1>1, <1>2, RetryAssumption DEF StepsLeft

LEMMA StepsUnmoved ==
  ASSUME NEW u \in Tasks, pc'[u] = pc[u], call'[u] = call[u], phase'[u] = phase[u],
         tries'[u] = tries[u]
  PROVE  StepsLeft(u)' = StepsLeft(u)
BY DEF StepsLeft, Ahead

LEMMA UnmovedRunsDown ==
  ASSUME NEW u \in Tasks, pc'[u] = pc[u], call'[u] = call[u], phase'[u] = phase[u],
         tries'[u] = tries[u]
  PROVE  RunsDown(u)
BY StepsUnmoved DEF RunsDown

(* The steps of a transfer go through their ranks.                         *)
LEMMA TransferRunsDown ==
  ASSUME BusInv, BusInv', NEW t \in Tasks, Take(t) \/ Transfer(t)
  PROVE  \A u \in Tasks : RunsDown(u)
<1> USE DEF BusInv
<1>1. UNCHANGED <<call, phase, tries>> /\ \A u \in Tasks \ {t} : pc'[u] = pc[u]
  BY DEF Typed, Goto, Transfer, Take, Retake, BeginTransmission, Fill, EndTransmission, Regive,
         RequestFrom, Drain, Give
<1>2. pc[t] # "idle" /\ pc'[t] # "idle" /\ pc'[t] # pc[t] /\ Ahead[pc'[t]] < Ahead[pc[t]]
  BY DEF Typed, Goto, Transfer, Take, Retake, BeginTransmission, Fill, EndTransmission, Regive,
         RequestFrom, Drain, Give, Ahead
<1>3. StepsLeft(t)' < StepsLeft(t)
  <2>1. Ahead[pc[t]] \in 0..9 /\ tries[t] \in Nat
    BY <1>2, StepsTyped
  <2>2. Ahead[pc'[t]] \in 0..9
    BY <1>2, AheadTyped DEF Typed, PCs
  <2>3. QED
    BY <1>1, <1>2, <2>1, <2>2, RetryAssumption DEF StepsLeft
<1>4. StepsLeft(t) \in Nat /\ StepsLeft(t)' \in Nat
  <2>1. StepsLeft(t) \in Nat
    BY <1>2, StepsTyped
  <2>2. Ahead[pc'[t]] \in 0..9
    BY <1>2, AheadTyped DEF Typed, PCs
  <2>3. tries'[t] \in 0..(RETRY_COUNT - 1)
    BY DEF Typed
  <2>4. StepsLeft(t)' \in Nat
    BY <2>2, <2>3, RetryAssumption DEF StepsLeft
  <2>5. QED
    BY <2>1, <2>4
<1>5. RunsDown(t)
  BY <1>2, <1>3, <1>4 DEF RunsDown
<1>6. QED
  BY <1>1, <1>5, UnmovedRunsDown

(* A loop counts each attempt, and the read loop comes after the write     *)
(* loop.                                                                   *)
LEMMA LoopRunsDown ==
  ASSUME BusInv, BusInv', NEW t \in Tasks, Loop(t)
  PROVE  \A u \in Tasks : RunsDown(u)
<1> USE DEF BusInv
<1>1. /\ pc[t] = "result"
      /\ \/ Again(t)
         \/ Poll(t) /\ phase[t] = "write" /\ call[t].reads
         \/ Return(t)
  BY DEF Loop, AfterWrite, AfterRead, Again, Poll, Return, Goto
<1>2. \A u \in Tasks \ {t} : /\ pc'[u] = pc[u] /\ call'[u] = call[u]
                              /\ phase'[u] = phase[u] /\ tries'[u] = tries[u]
  BY <1>1 DEF Typed, Goto, Again, Poll, Return
<1>3. tries[t] \in 0..(RETRY_COUNT - 1)
  BY DEF Typed
<1>4. RunsDown(t)
  <2>1. CASE Again(t)
    <3>1. /\ pc'[t] = "take" /\ tries'[t] = tries[t] + 1 /\ tries[t] + 1 < RETRY_COUNT
          /\ UNCHANGED <<call, phase>>
      BY <2>1 DEF Again, Goto, Typed
    <3>2. StepsLeft(t)' = StepsLeft(t) - 1 /\ StepsLeft(t)' \in Nat
      BY <1>1, <1>3, <3>1, AheadTyped, RetryAssumption DEF StepsLeft
    <3>3. QED
      BY <1>1, <1>3, <3>1, <3>2, RetryAssumption DEF RunsDown, StepsLeft, Ahead
  <2>2. CASE Poll(t) /\ phase[t] = "write" /\ call[t].reads
    <3>1. pc'[t] = "take" /\ tries'[t] = 0 /\ phase'[t] = "read"
      BY <2>2 DEF Poll, Goto, Typed
    <3>2. StepsLeft(t)' = 10 * RETRY_COUNT - 1
      BY <3>1, AheadTyped, RetryAssumption DEF StepsLeft
    <3>3. StepsLeft(t) = 10 * (RETRY_COUNT - 1 - tries[t]) + 10 * RETRY_COUNT
      BY <1>1, <1>3, <2>2, AheadTyped, RetryAssumption DEF StepsLeft
    <3>4. QED
      BY <1>1, <1>3, <3>1, <3>2, <3>3, RetryAssumption DEF RunsDown
  <2>3. CASE Return(t)
    BY <1>1, <2>3 DEF Return, Goto, Typed, RunsDown
  <2>4. QED
    BY <1>1, <2>1, <2>2, <2>3
<1>5. QED
  BY <1>2, <1>4, UnmovedRunsDown

LEMMA StartRunsDown ==
  ASSUME BusInv, NEW t \in Tasks, NEW c \in Calls, Start(t, c)
  PROVE  \A u \in Tasks : RunsDown(u)
<1> USE DEF BusInv
<1>1. \A u \in Tasks \ {t} : /\ pc'[u] = pc[u] /\ call'[u] = call[u]
                              /\ phase'[u] = phase[u] /\ tries'[u] = tries[u]
  BY DEF Typed, Goto, Start
<1>2. pc[t] = "idle" /\ pc'[t] = "take" /\ tries'[t] = 0
  BY DEF Typed, Goto, Start
<1>3. \/ StepsLeft(t)' = 9 + 10 * (RETRY_COUNT - 1)
      \/ StepsLeft(t)' = 9 + 10 * (RETRY_COUNT - 1) + 10 * RETRY_COUNT
  BY <1>2, AheadTyped, RetryAssumption DEF StepsLeft
<1>4. RunsDown(t)
  BY <1>2, <1>3, RetryAssumption DEF RunsDown
<1>5. QED
  BY <1>1, <1>4, UnmovedRunsDown

(* The loops of the hardware calls are bounded, whatever the board and the *)
(* other tasks do.                                                         *)
THEOREM CallsRunDownHolds == Spec => CallsRunDown
<1> DEFINE RunDown == \A t \in Tasks : RunsDown(t)
<1>1. BusInv /\ BusInv' /\ [Next]_vars => RunDown
  <2> SUFFICES ASSUME BusInv, BusInv', [Next]_vars PROVE \A u \in Tasks : RunsDown(u)
    OBVIOUS
  <2>1. CASE \E t \in Tasks : Take(t) \/ Transfer(t) \/ Loop(t)
    BY <2>1, TransferRunsDown, LoopRunsDown
  <2>2. CASE \E t \in Tasks, c \in Calls : Start(t, c)
    BY <2>2, StartRunsDown
  <2>3. CASE (\E r \in {c.reg : c \in Calls} : Measured(r)) \/ UNCHANGED vars
    <3>1. UNCHANGED <<pc, call, phase, tries>>
      BY <2>3 DEF Measured, vars, taskVars
    <3>2. QED
      BY <3>1, UnmovedRunsDown
  <2>4. QED
    BY <2>1, <2>2, <2>3 DEF Next
<1>2. Spec => [][RunDown]_vars
  BY <1>1, BusInvHolds, PTL DEF Spec
<1>3. QED
  BY <1>2 DEF CallsRunDown
=============================================================================
