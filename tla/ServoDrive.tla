----------------------------- MODULE ServoDrive -----------------------------
(***************************************************************************)
(* The servos of MotorServoService (service id 0x02): a configured type    *)
(* per channel, one cache that holds angles and, for continuous channels,  *)
(* speeds, and the pulse registers of the board.  A command first tests    *)
(* the type of all its channels, then moves them one by one; handlers of   *)
(* several tasks run at once without a lock.  The service is started.      *)
(***************************************************************************)
EXTENDS Integers

CONSTANTS
  Servos,    \* servo channels: 0..SERVO_COUNT - 1
  HighBits,  \* bits a servo_mask can have beyond the channels
  Angles,    \* the int16 angles and increments clients send, valid or not
  Speeds,    \* the speed bytes clients send, valid or not
  Tasks,     \* the tasks that run handlers
  Lossy      \* register writes may be lost

ASSUME ServosAssumption == Servos \subseteq Nat /\ HighBits \cap Servos = {}
ASSUME BytesAssumption == Angles \subseteq -32768..32767 /\ Speeds \subseteq -128..127
ASSUME LossyAssumption == Lossy \in BOOLEAN

ServoType == {"SERVO_180", "SERVO_270", "CONTINUOUS"}

Moves == {"SET_SERVOS_ANGLE", "INCREMENT_SERVOS_ANGLE", "SET_SERVOS_SPEED"}

InRange(c, v) == IF c = "SET_SERVOS_SPEED" THEN v \in -100..100 ELSE v \in -360..360

(* The types a move is meant for.                                          *)
Suits(c, type) == (c = "SET_SERVOS_SPEED") <=> (type = "CONTINUOUS")

MaxAngle(type) == IF type = "SERVO_270" THEN 270 ELSE 180

(* Mutant of ClampToServoRange: the upper end is forgotten.                *)
ClampBelow(type, a) == IF a < 0 THEN 0 ELSE a

ClampToServoRange(type, a) ==
  CASE a < 0              -> 0
    [] a > MaxAngle(type) -> MaxAngle(type)
    [] OTHER              -> a

(* The pulses of setServoAngle(), on the 270 degree scale whatever the     *)
(* type, and of setServo360(): 1500 us stops, shorter goes forward.        *)
AnglePulse(a) == 500 + ((IF a > 270 THEN 270 ELSE a) * 2000) \div 270
SpeedPulse(v) == 1500 - 10 * v

Pulse(type, v) == IF type = "CONTINUOUS" THEN SpeedPulse(v) ELSE AnglePulse(v)

VARIABLES
  servo_types, servo_angles,
  pulse,   \* per channel: the pulse register of the board, 0 before any
  pc,      \* per task: "idle", "types", "check", "apply", "clamp", "register",
           \* "cache" or "reply"
  req,     \* per task: the command it handles
  todo,    \* per task: the channels its loop has not reached
  value,   \* per task: the angle or speed for the channel it is at
  reply,   \* per task: the response code, once known
  fresh,   \* history, per task: the channels it tested and may rely on: their
           \* type did not change since and no other pass met its own there
  sure     \* history: the channels whose last pass was fresh to its end and
           \* whose type did not change since

Requests == [cmd : Moves \cup {"none", "SET_SERVO_TYPE"}, mask : SUBSET Servos, arg : Int,
             type : ServoType]

NoRequest == [cmd |-> "none", mask |-> {}, arg |-> 0, type |-> "SERVO_180"]

vars == <<servo_types, servo_angles, pulse, pc, req, todo, value, reply, fresh, sure>>

Init ==
  /\ servo_types = [s \in Servos |-> "SERVO_180"]
  /\ servo_angles = [s \in Servos |-> 0]
  /\ pulse = [s \in Servos |-> 0]
  /\ pc = [t \in Tasks |-> "idle"]
  /\ req = [t \in Tasks |-> NoRequest]
  /\ todo = [t \in Tasks |-> {}]
  /\ value = [t \in Tasks |-> 0]
  /\ reply = [t \in Tasks |-> "none"]
  /\ fresh = [t \in Tasks |-> {}]
  /\ sure = {}

-----------------------------------------------------------------------------

(* The loops over a mask go up: t is at its lowest channel left.           *)
Current(t, s) == s \in todo[t] /\ \A k \in todo[t] : s <= k

(* t moves channel s: it has begun and not yet written the cache.          *)
Inside(t, s) == pc[t] \in {"clamp", "register", "cache"} /\ Current(t, s)

Start(t, l, r) ==
  /\ pc' = [pc EXCEPT ![t] = l]
  /\ req' = [req EXCEPT ![t] = r]
  /\ todo' = [todo EXCEPT ![t] = r.mask]
  /\ UNCHANGED reply

Answer(t, r) ==
  /\ pc' = [pc EXCEPT ![t] = "reply"]
  /\ reply' = [reply EXCEPT ![t] = r]
  /\ todo' = [todo EXCEPT ![t] = {}]
  /\ UNCHANGED req

(* SET_SERVO_TYPE: the checks of the handler; "none" is a byte over 2.     *)
SetServoTypes(t, mask, type) ==
  /\ pc[t] = "idle"
  /\ \/ mask = {} /\ Answer(t, "resp_invalid_params")
     \/ mask # {} /\ type = "none" /\ Answer(t, "resp_invalid_values")
     \/ /\ mask # {}
        /\ type \in ServoType
        /\ Start(t, "types", [cmd |-> "SET_SERVO_TYPE", mask |-> mask \cap Servos,
                              arg |-> 0, type |-> type])
  /\ UNCHANGED <<servo_types, servo_angles, pulse, value, fresh, sure>>

(* setServosSpeed(), setServosAngle(), incrementServosAngle(): the checks  *)
(* that come before the loops.                                             *)
SetServos(t, c, mask, v) ==
  /\ pc[t] = "idle"
  /\ \/ mask = {} /\ Answer(t, "resp_invalid_params")
     \/ mask # {} /\ ~InRange(c, v) /\ Answer(t, "resp_invalid_values")
     \/ /\ mask # {}
        /\ InRange(c, v)
        /\ Start(t, "check", [cmd |-> c, mask |-> mask \cap Servos, arg |-> v,
                              type |-> "SERVO_180"])
  /\ UNCHANGED <<servo_types, servo_angles, pulse, value, fresh, sure>>

(* setServoTypes(), one round of its loop.                                 *)
TypeWrite(t, s) ==
  /\ pc[t] = "types"
  /\ Current(t, s)
  /\ servo_types' = [servo_types EXCEPT ![s] = req[t].type]
  /\ todo' = [todo EXCEPT ![t] = todo[t] \ {s}]
  /\ IF servo_types[s] = req[t].type
       THEN UNCHANGED <<fresh, sure>>
       ELSE /\ fresh' = [u \in Tasks |-> fresh[u] \ {s}]
            /\ sure' = sure \ {s}
  /\ UNCHANGED <<servo_angles, pulse, pc, req, value, reply>>

(* Mutant of CheckType: the first loop lets every type pass.               *)
CheckNothing(t, s) ==
  /\ pc[t] = "check"
  /\ Current(t, s)
  /\ todo' = [todo EXCEPT ![t] = todo[t] \ {s}]
  /\ fresh' = [fresh EXCEPT ![t] = fresh[t] \cup {s}]
  /\ UNCHANGED <<servo_types, servo_angles, pulse, pc, req, value, reply, sure>>

(* The first loop: a channel of the wrong type ends the command.           *)
CheckType(t, s) ==
  /\ pc[t] = "check"
  /\ Current(t, s)
  /\ IF Suits(req[t].cmd, servo_types[s])
       THEN /\ todo' = [todo EXCEPT ![t] = todo[t] \ {s}]
            /\ fresh' = [fresh EXCEPT ![t] = fresh[t] \cup {s}]
            /\ UNCHANGED <<pc, req, reply>>
       ELSE /\ Answer(t, "resp_invalid_params")
            /\ fresh' = [fresh EXCEPT ![t] = {}]
  /\ UNCHANGED <<servo_types, servo_angles, pulse, value, sure>>

Checked(t) ==
  /\ pc[t] = "check"
  /\ todo[t] = {}
  /\ pc' = [pc EXCEPT ![t] = "apply"]
  /\ todo' = [todo EXCEPT ![t] = req[t].mask]
  /\ UNCHANGED <<servo_types, servo_angles, pulse, req, value, reply, fresh, sure>>

(* A pass begins: it ends what other passes at s, and this one, rely on.   *)
Meet(t, s) ==
  fresh' = [u \in Tasks |->
              IF u = t
                THEN IF \E w \in Tasks : Inside(w, s) THEN fresh[t] \ {s} ELSE fresh[t]
                ELSE IF Inside(u, s) THEN fresh[u] \ {s} ELSE fresh[u]]

(* Mutant of Begin: an increment is taken for an absolute angle.           *)
BeginAbsolute(t, s) ==
  /\ pc[t] = "apply"
  /\ Current(t, s)
  /\ value' = [value EXCEPT ![t] = req[t].arg]
  /\ pc' = [pc EXCEPT ![t] = IF req[t].cmd = "SET_SERVOS_SPEED" THEN "register" ELSE "clamp"]
  /\ Meet(t, s)
  /\ UNCHANGED <<servo_types, servo_angles, pulse, req, todo, reply, sure>>

(* The second loop, per channel: an increment reads the cached angle.      *)
Begin(t, s) ==
  /\ pc[t] = "apply"
  /\ Current(t, s)
  /\ value' = [value EXCEPT ![t] = IF req[t].cmd = "INCREMENT_SERVOS_ANGLE"
                                     THEN servo_angles[s] + req[t].arg
                                     ELSE req[t].arg]
  /\ pc' = [pc EXCEPT ![t] = IF req[t].cmd = "SET_SERVOS_SPEED" THEN "register" ELSE "clamp"]
  /\ Meet(t, s)
  /\ UNCHANGED <<servo_types, servo_angles, pulse, req, todo, reply, sure>>

(* An angle is clamped to the range of the type the channel has now.       *)
Clamp(t, s) ==
  /\ pc[t] = "clamp"
  /\ Current(t, s)
  /\ value' = [value EXCEPT ![t] = ClampToServoRange(servo_types[s], value[t])]
  /\ pc' = [pc EXCEPT ![t] = "register"]
  /\ UNCHANGED <<servo_types, servo_angles, pulse, req, todo, reply, fresh, sure>>

(* The register takes the pulse, or every attempt to write it fails.       *)
WriteRegister(t, s, done) ==
  /\ pc[t] = "register"
  /\ Current(t, s)
  /\ done \/ Lossy
  /\ pulse' = IF ~done THEN pulse
              ELSE [pulse EXCEPT ![s] = IF req[t].cmd = "SET_SERVOS_SPEED"
                                          THEN SpeedPulse(value[t]) ELSE AnglePulse(value[t])]
  /\ pc' = [pc EXCEPT ![t] = "cache"]
  /\ fresh' = IF done THEN fresh ELSE [fresh EXCEPT ![t] = fresh[t] \ {s}]
  /\ sure' = sure \ {s}
  /\ UNCHANGED <<servo_types, servo_angles, req, todo, value, reply>>

WriteCache(t, s) ==
  /\ pc[t] = "cache"
  /\ Current(t, s)
  /\ servo_angles' = [servo_angles EXCEPT ![s] = value[t]]
  /\ pc' = [pc EXCEPT ![t] = "apply"]
  /\ todo' = [todo EXCEPT ![t] = todo[t] \ {s}]
  /\ sure' = IF s \in fresh[t] THEN sure \cup {s} ELSE sure \ {s}
  /\ UNCHANGED <<servo_types, pulse, req, value, reply, fresh>>

(* The last loop is over.                                                  *)
Done(t) ==
  /\ pc[t] \in {"types", "apply"}
  /\ todo[t] = {}
  /\ Answer(t, "resp_ok")
  /\ fresh' = [fresh EXCEPT ![t] = {}]
  /\ UNCHANGED <<servo_types, servo_angles, pulse, value, sure>>

(* The reply leaves.                                                       *)
Reply(t) ==
  /\ pc[t] = "reply"
  /\ pc' = [pc EXCEPT ![t] = "idle"]
  /\ req' = [req EXCEPT ![t] = NoRequest]
  /\ value' = [value EXCEPT ![t] = 0]
  /\ reply' = [reply EXCEPT ![t] = "none"]
  /\ UNCHANGED <<servo_types, servo_angles, pulse, todo, fresh, sure>>

(* The controller restarts: types and angles fall back to their defaults   *)
(* while the board, powered apart, holds its pulses or loses them.         *)
Restart ==
  /\ servo_types' = [s \in Servos |-> "SERVO_180"]
  /\ servo_angles' = [s \in Servos |-> 0]
  /\ pulse' \in {pulse, [s \in Servos |-> 0]}
  /\ pc' = [t \in Tasks |-> "idle"]
  /\ req' = [t \in Tasks |-> NoRequest]
  /\ todo' = [t \in Tasks |-> {}]
  /\ value' = [t \in Tasks |-> 0]
  /\ reply' = [t \in Tasks |-> "none"]
  /\ fresh' = [t \in Tasks |-> {}]
  /\ sure' = {}

-----------------------------------------------------------------------------

Loop(t) ==
  \/ \E s \in Servos :
       \/ TypeWrite(t, s) \/ CheckType(t, s)
       \/ Begin(t, s) \/ Clamp(t, s) \/ WriteCache(t, s)
       \/ \E done \in BOOLEAN : WriteRegister(t, s, done)
  \/ Checked(t)
  \/ Done(t)
  \/ Reply(t)

Command(t) ==
  \E mask \in SUBSET (Servos \cup HighBits) :
    \/ \E type \in ServoType \cup {"none"} : SetServoTypes(t, mask, type)
    \/ \E v \in Speeds : SetServos(t, "SET_SERVOS_SPEED", mask, v)
    \/ \E v \in Angles : \/ SetServos(t, "SET_SERVOS_ANGLE", mask, v)
                         \/ SetServos(t, "INCREMENT_SERVOS_ANGLE", mask, v)

Next == (\E t \in Tasks : Command(t) \/ Loop(t)) \/ Restart

Spec == Init /\ [][Next]_vars

-----------------------------------------------------------------------------
(* Properties.                                                             *)

(* Every variable has its type: in particular a cached angle or speed and  *)
(* a pulse never leave their ranges, and no sum leaves an int16.           *)
TypeOK ==
  /\ servo_types \in [Servos -> ServoType]
  /\ servo_angles \in [Servos -> -100..270]
  /\ pulse \in [Servos -> {0} \cup (500..2500)]
  /\ pc \in [Tasks -> {"idle", "types", "check", "apply", "clamp", "register", "cache",
                       "reply"}]
  /\ req \in [Tasks -> Requests]
  /\ todo \in [Tasks -> SUBSET Servos]
  /\ value \in [Tasks -> -460..630]
  /\ reply \in [Tasks -> {"none", "resp_ok", "resp_invalid_params", "resp_invalid_values"}]
  /\ fresh \in [Tasks -> SUBSET Servos]
  /\ sure \subseteq Servos

(* After one pass that nobody disturbed, and until its type changes, a     *)
(* channel holds the pulse of its cached angle or speed, and an angle is   *)
(* within the range of its type, whatever went wrong before: the type test *)
(* is made for all channels before the first of them moves.                *)
KnownPosition ==
  \A s \in sure :
    /\ pulse[s] = Pulse(servo_types[s], servo_angles[s])
    /\ servo_types[s] # "CONTINUOUS" => servo_angles[s] \in 0..MaxAngle(servo_types[s])

(* An increment that nobody disturbs at a channel moves it from the angle  *)
(* the cache has when the new one is stored.                               *)
IncrementIsRelative ==
  [][\A t \in Tasks, s \in Servos :
       (WriteCache(t, s) /\ req[t].cmd = "INCREMENT_SERVOS_ANGLE" /\ s \in fresh[t])
         => servo_angles'[s] = ClampToServoRange(servo_types[s], servo_angles[s] + req[t].arg)]_vars
=============================================================================
