----------------------------- MODULE MotorDrive -----------------------------
(***************************************************************************)
(* The motors of MotorServoService (service id 0x02) on the expansion      *)
(* board: each motor is an H-bridge with two duty registers, written one   *)
(* after the other over I2C, and a cached speed written last.  Handlers of *)
(* several tasks run at once; each register write takes the bus mutex on   *)
(* its own and may be lost (every one of its RETRY_COUNT attempts fails)   *)
(* without the handler learning of it.                                     *)
(***************************************************************************)
EXTENDS Integers

CONSTANTS
  Motors,    \* motor ids: 1..MOTOR_COUNT
  HighBits,  \* bits a motor_mask can have beyond the motors
  Speeds,    \* the speed bytes clients send, valid or not
  Tasks,     \* the tasks that run handlers
  Lossy      \* register writes may be lost

ASSUME MotorsAssumption == Motors \subseteq Nat \ {0}
ASSUME HighBitsAssumption == HighBits \cap Motors = {}
ASSUME SpeedsAssumption == Speeds \subseteq -128..127
ASSUME LossyAssumption == Lossy \in BOOLEAN

SPEED_MIN == -100
SPEED_MAX == 100
Valid == SPEED_MIN..SPEED_MAX

Sides == {"fwd", "bwd"}

(* Mutant of FirstSide: the driving leg is zeroed instead.                 *)
FirstSideDriving(speed) == IF speed > 0 THEN "fwd" ELSE "bwd"

(* The leg written first and the leg written second: the opposing leg      *)
(* before the driving one, forward before backward to brake.               *)
FirstSide(speed) == IF speed > 0 THEN "bwd" ELSE "fwd"
SecondSide(speed) == IF speed > 0 THEN "fwd" ELSE "bwd"

Magnitude(speed) == IF speed < 0 THEN -speed ELSE speed

Duty(speed) == (Magnitude(speed) * 65535) \div 100

VARIABLES
  leg,           \* per motor and side: the duty register of the board
  motor_speeds,  \* per motor: motor_speeds_
  pc,            \* per task: "idle", "apply", "second", "cache" or "reply"
  todo,          \* per task: the motors its handler has not finished
  speed,         \* per task: the speed it applies
  reply,         \* per task: the response code, once known
  clean,         \* history, per task: its writes to the motor it is at all
                 \* took effect and no other task was at that motor meanwhile
  trust          \* history, per motor: see Trust

(* "exact": the last pass over the motor was a clean one; "safe": a clean  *)
(* pass was cut short after its first write; "none": anything else.        *)
Trust == {"exact", "safe", "none"}

taskVars == <<pc, todo, speed, reply>>
vars == <<leg, motor_speeds, taskVars, clean, trust>>

Init ==
  /\ leg = [m \in Motors |-> [s \in Sides |-> 0]]
  /\ motor_speeds = [m \in Motors |-> 0]
  /\ pc = [t \in Tasks |-> "idle"]
  /\ todo = [t \in Tasks |-> {}]
  /\ speed = [t \in Tasks |-> 0]
  /\ reply = [t \in Tasks |-> "none"]
  /\ clean = [t \in Tasks |-> TRUE]
  /\ trust = [m \in Motors |-> "exact"]

-----------------------------------------------------------------------------

(* The loop over the mask goes up: t is at its lowest motor left.          *)
Current(t, m) == m \in todo[t] /\ \A k \in todo[t] : m <= k

(* t is between its first register write to m and its cache write.         *)
Inside(t, m) == pc[t] \in {"second", "cache"} /\ Current(t, m)

Start(t, motors, s) ==
  /\ pc' = [pc EXCEPT ![t] = "apply"]
  /\ todo' = [todo EXCEPT ![t] = motors]
  /\ speed' = [speed EXCEPT ![t] = s]
  /\ UNCHANGED reply

Answer(t, r) ==
  /\ pc' = [pc EXCEPT ![t] = "reply"]
  /\ reply' = [reply EXCEPT ![t] = r]
  /\ UNCHANGED <<todo, speed>>

(* SET_MOTORS_SPEED: the checks of the handler and of setMotorsSpeed().    *)
SetMotorsSpeed(t, mask, s) ==
  /\ pc[t] = "idle"
  /\ \/ mask = {} /\ Answer(t, "resp_invalid_params")
     \/ mask # {} /\ s \notin Valid /\ Answer(t, "resp_invalid_values")
     \/ mask # {} /\ s \in Valid /\ Start(t, mask \cap Motors, s)
  /\ UNCHANGED <<leg, motor_speeds, clean, trust>>

(* STOP_ALL_MOTORS: stopAllMotors().                                       *)
StopAllMotors(t) ==
  /\ pc[t] = "idle"
  /\ Start(t, Motors, 0)
  /\ UNCHANGED <<leg, motor_speeds, clean, trust>>

(* setMotorDuty(): the register takes the duty, or every attempt fails.    *)
SetMotorDuty(m, side, duty, done) ==
  /\ done \/ Lossy
  /\ leg' = IF done THEN [leg EXCEPT ![m][side] = duty] ELSE leg

(* applyMotorSpeed(), its first register write: a leg is zeroed.           *)
ApplyFirst(t, m, done) ==
  /\ pc[t] = "apply"
  /\ Current(t, m)
  /\ SetMotorDuty(m, FirstSide(speed[t]), 0, done)
  /\ pc' = [pc EXCEPT ![t] = "second"]
  /\ LET alone == \A u \in Tasks : ~Inside(u, m)
     IN  /\ clean' = [u \in Tasks |->
                        IF u = t THEN done /\ alone ELSE clean[u] /\ ~Inside(u, m)]
         /\ trust' = [trust EXCEPT ![m] = IF done /\ alone THEN "safe" ELSE "none"]
  /\ UNCHANGED <<motor_speeds, todo, speed, reply>>

(* Mutant of ApplySecond: to brake, only one leg is zeroed.                *)
ApplySecondUnlessBrake(t, m, done) ==
  /\ pc[t] = "second"
  /\ Current(t, m)
  /\ IF speed[t] = 0 THEN UNCHANGED leg
                     ELSE SetMotorDuty(m, SecondSide(speed[t]), Duty(speed[t]), done)
  /\ pc' = [pc EXCEPT ![t] = "cache"]
  /\ clean' = [clean EXCEPT ![t] = clean[t] /\ done]
  /\ UNCHANGED <<motor_speeds, todo, speed, reply, trust>>

(* Its second register write: the driving leg gets its duty, or is zeroed  *)
(* too.                                                                    *)
ApplySecond(t, m, done) ==
  /\ pc[t] = "second"
  /\ Current(t, m)
  /\ SetMotorDuty(m, SecondSide(speed[t]), Duty(speed[t]), done)
  /\ pc' = [pc EXCEPT ![t] = "cache"]
  /\ clean' = [clean EXCEPT ![t] = clean[t] /\ done]
  /\ UNCHANGED <<motor_speeds, todo, speed, reply, trust>>

(* The cache write that ends it; the loop goes on to the next motor.       *)
ApplyCache(t, m) ==
  /\ pc[t] = "cache"
  /\ Current(t, m)
  /\ motor_speeds' = [motor_speeds EXCEPT ![m] = speed[t]]
  /\ pc' = [pc EXCEPT ![t] = "apply"]
  /\ todo' = [todo EXCEPT ![t] = todo[t] \ {m}]
  /\ trust' = [trust EXCEPT ![m] = IF clean[t] THEN "exact" ELSE trust[m]]
  /\ UNCHANGED <<leg, speed, reply, clean>>

(* The loop is over.                                                       *)
Done(t) ==
  /\ pc[t] = "apply"
  /\ todo[t] = {}
  /\ Answer(t, "resp_ok")
  /\ UNCHANGED <<leg, motor_speeds, clean, trust>>

(* The reply leaves.                                                       *)
Reply(t) ==
  /\ pc[t] = "reply"
  /\ pc' = [pc EXCEPT ![t] = "idle"]
  /\ reply' = [reply EXCEPT ![t] = "none"]
  /\ speed' = [speed EXCEPT ![t] = 0]
  /\ UNCHANGED <<leg, motor_speeds, todo, clean, trust>>

(* The controller restarts at any moment.  initializeService() zeroes the  *)
(* caches and writes no register; the board, powered apart, keeps its      *)
(* registers or comes up with all of them zero.                            *)
Restart ==
  /\ leg' \in {leg, [m \in Motors |-> [s \in Sides |-> 0]]}
  /\ motor_speeds' = [m \in Motors |-> 0]
  /\ pc' = [t \in Tasks |-> "idle"]
  /\ todo' = [t \in Tasks |-> {}]
  /\ speed' = [t \in Tasks |-> 0]
  /\ reply' = [t \in Tasks |-> "none"]
  /\ clean' = [t \in Tasks |-> TRUE]
  /\ trust' = [m \in Motors |-> IF \A k \in Motors, s \in Sides : leg'[k][s] = 0 THEN "exact"
                                ELSE IF trust[m] = "none" THEN "none" ELSE "safe"]

-----------------------------------------------------------------------------

Apply(t) ==
  \/ \E m \in Motors, done \in BOOLEAN : ApplyFirst(t, m, done) \/ ApplySecond(t, m, done)
  \/ \E m \in Motors : ApplyCache(t, m)
  \/ Done(t)
  \/ Reply(t)

Handlers ==
  \E t \in Tasks :
    \/ \E mask \in SUBSET (Motors \cup HighBits), s \in Speeds : SetMotorsSpeed(t, mask, s)
    \/ StopAllMotors(t)
    \/ Apply(t)

Next == Handlers \/ Restart

Spec == Init /\ [][Next]_vars

-----------------------------------------------------------------------------
(* Properties.                                                             *)

(* Every variable has its type.                                            *)
TypeOK ==
  /\ leg \in [Motors -> [Sides -> Nat]]
  /\ motor_speeds \in [Motors -> Valid]
  /\ pc \in [Tasks -> {"idle", "apply", "second", "cache", "reply"}]
  /\ todo \in [Tasks -> SUBSET Motors]
  /\ speed \in [Tasks -> Valid]
  /\ reply \in [Tasks -> {"none", "resp_ok", "resp_invalid_params", "resp_invalid_values"}]
  /\ clean \in [Tasks -> BOOLEAN]
  /\ trust \in [Motors -> Trust]

ShootThrough(m) == leg[m]["fwd"] # 0 /\ leg[m]["bwd"] # 0

(* One undisturbed first write makes a motor safe whatever state it was    *)
(* left in, and it stays safe, through lost second writes and restarts,    *)
(* until two tasks meet at it or the first write of a pass is lost.        *)
NoShootThrough == \A m \in Motors : trust[m] # "none" => ~ShootThrough(m)

(* One undisturbed pass makes the cached speed true again: the legs drive  *)
(* the motor at exactly the speed GET_MOTORS_SPEED reports, whatever went  *)
(* wrong before.                                                           *)
CacheMatches ==
  \A m \in Motors :
    trust[m] = "exact" =>
      /\ leg[m][SecondSide(motor_speeds[m])] = Duty(motor_speeds[m])
      /\ leg[m][FirstSide(motor_speeds[m])] = 0
=============================================================================
