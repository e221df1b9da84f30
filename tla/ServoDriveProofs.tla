-------------------------- MODULE ServoDriveProofs --------------------------
(***************************************************************************)
(* Theorems about ServoDrive: no value leaves its range, and an            *)
(* undisturbed pass over a channel leaves its pulse, cached value and type *)
(* in agreement, whatever other tasks, lost writes and restarts do.        *)
(***************************************************************************)
EXTENDS ServoDrive, TLAPS

(* Clamped angles are within the range of the type.                        *)
LEMMA ClampRange ==
  ASSUME NEW type \in ServoType, NEW a \in Int
  PROVE  /\ ClampToServoRange(type, a) \in 0..MaxAngle(type)
         /\ ClampToServoRange(type, a) \in 0..270
         /\ 0..MaxAngle(type) \subseteq 0..270
BY DEF ClampToServoRange, MaxAngle

Moving(t) == pc[t] \in {"check", "apply", "clamp", "register", "cache"}

(* A move got past the tests of its argument, and a value about to be      *)
(* written is an angle in range or a speed in range.                       *)
ValueOK(t) ==
  /\ Moving(t) => req[t].cmd \in Moves /\ InRange(req[t].cmd, req[t].arg)
  /\ pc[t] = "clamp" => req[t].cmd # "SET_SERVOS_SPEED"
  /\ pc[t] \in {"register", "cache"} =>
       value[t] \in (IF req[t].cmd = "SET_SERVOS_SPEED" THEN -100..100 ELSE 0..270)

RangeInv == TypeOK /\ \A t \in Tasks : ValueOK(t)

(* No value leaves its range.                                              *)
LEMMA RangeInvHolds == Spec => []RangeInv
<1>1. Init => RangeInv
  <2> SUFFICES ASSUME Init PROVE RangeInv
    OBVIOUS
  <2>1. NoRequest \in Requests
    BY DEF NoRequest, Requests, ServoType
  <2>2. TypeOK
    BY <2>1 DEF Init, TypeOK, ServoType
  <2>3. \A t \in Tasks : ValueOK(t)
    BY DEF Init, ValueOK, Moving
  <2>4. QED
    BY <2>2, <2>3 DEF RangeInv
<1>2. RangeInv /\ [Next]_vars => RangeInv'
  <2> SUFFICES ASSUME RangeInv, [Next]_vars PROVE RangeInv'
    OBVIOUS
  <2>0. TypeOK /\ \A u \in Tasks : ValueOK(u)
    BY DEF RangeInv
  <2>1. ASSUME NEW t \in Tasks, NEW mask \in SUBSET (Servos \cup HighBits),
               NEW type \in ServoType \cup {"none"}, SetServoTypes(t, mask, type)
        PROVE  RangeInv'
    <3>1. \A r \in Requests : req' = [req EXCEPT ![t] = r] => req' \in [Tasks -> Requests]
      BY <2>0 DEF TypeOK
    <3>2. type \in ServoType =>
            [cmd |-> "SET_SERVO_TYPE", mask |-> mask \cap Servos, arg |-> 0, type |-> type]
              \in Requests
      BY DEF Requests
    <3> DEFINE r == [cmd |-> "SET_SERVO_TYPE", mask |-> mask \cap Servos, arg |-> 0,
                     type |-> type]
    <3>f. type \in ServoType => r \in Requests
      BY <3>2
    <3>d. req' = req \/ (type \in ServoType /\ req' = [req EXCEPT ![t] = r])
      BY <2>1 DEF SetServoTypes, Start, Answer
    <3>e. req \in [Tasks -> Requests]
      BY <2>0 DEF TypeOK
    <3> HIDE DEF r
    <3>a. req' \in [Tasks -> Requests]
      BY <3>1, <3>f, <3>d, <3>e
    <3> USE DEF r
    <3>b. todo' \in [Tasks -> SUBSET Servos]
      BY <2>0, <2>1 DEF SetServoTypes, Start, Answer, TypeOK
    <3>c. /\ pc' \in [Tasks -> {"idle", "types", "check", "apply", "clamp", "register",
                               "cache", "reply"}]
          /\ reply' \in [Tasks -> {"none", "resp_ok", "resp_invalid_params",
                                  "resp_invalid_values"}]
      BY <2>0, <2>1 DEF SetServoTypes, Start, Answer, TypeOK
    <3>3. TypeOK'
      BY <2>0, <2>1, <3>a, <3>b, <3>c DEF SetServoTypes, TypeOK
    <3>4. \A u \in Tasks : ValueOK(u)'
      BY <2>0, <2>1 DEF SetServoTypes, Start, Answer, TypeOK, ValueOK, Moving
    <3>5. QED
      BY <3>3, <3>4 DEF RangeInv
  <2>2. ASSUME NEW t \in Tasks, NEW mask \in SUBSET (Servos \cup HighBits),
               NEW c \in Moves, NEW v \in Int, SetServos(t, c, mask, v)
        PROVE  RangeInv'
    <3> DEFINE r == [cmd |-> c, mask |-> mask \cap Servos, arg |-> v, type |-> "SERVO_180"]
    <3>1. r \in Requests
      BY DEF Requests, ServoType
    <3>d. req' = req \/ req' = [req EXCEPT ![t] = r]
      BY <2>2 DEF SetServos, Start, Answer
    <3>e. req \in [Tasks -> Requests]
      BY <2>0 DEF TypeOK
    <3> HIDE DEF r
    <3>a. req' \in [Tasks -> Requests]
      BY <3>1, <3>d, <3>e
    <3> USE DEF r
    <3>b. todo' \in [Tasks -> SUBSET Servos]
      BY <2>0, <2>2 DEF SetServos, Start, Answer, TypeOK
    <3>c. /\ pc' \in [Tasks -> {"idle", "types", "check", "apply", "clamp", "register",
                               "cache", "reply"}]
          /\ reply' \in [Tasks -> {"none", "resp_ok", "resp_invalid_params",
                                  "resp_invalid_values"}]
      BY <2>0, <2>2 DEF SetServos, Start, Answer, TypeOK
    <3>2. TypeOK'
      BY <2>0, <2>2, <3>a, <3>b, <3>c DEF SetServos, TypeOK
    <3>3. \A u \in Tasks : ValueOK(u)'
      BY <2>0, <2>2 DEF SetServos, Start, Answer, TypeOK, ValueOK, Moving
    <3>4. QED
      BY <3>2, <3>3 DEF RangeInv
  <2>3. ASSUME NEW t \in Tasks, NEW s \in Servos, TypeWrite(t, s) PROVE RangeInv'
    <3>1. req[t].type \in ServoType
      BY <2>0 DEF TypeOK, Requests
    <3>2. TypeOK'
      BY <2>0, <2>3, <3>1 DEF TypeWrite, TypeOK
    <3>3. \A u \in Tasks : ValueOK(u)'
      BY <2>0, <2>3 DEF TypeWrite, ValueOK, Moving
    <3>4. QED
      BY <3>2, <3>3 DEF RangeInv
  <2>4. ASSUME NEW t \in Tasks, NEW s \in Servos, CheckType(t, s) PROVE RangeInv'
    <3>1. TypeOK'
      BY <2>0, <2>4 DEF CheckType, Answer, TypeOK
    <3>2. \A u \in Tasks : ValueOK(u)'
      BY <2>0, <2>4 DEF CheckType, Answer, TypeOK, ValueOK, Moving
    <3>3. QED
      BY <3>1, <3>2 DEF RangeInv
  <2>5. ASSUME NEW t \in Tasks, Checked(t) PROVE RangeInv'
    <3>1. req[t].mask \in SUBSET Servos
      BY <2>0 DEF TypeOK, Requests
    <3>2. TypeOK'
      BY <2>0, <2>5, <3>1 DEF Checked, TypeOK
    <3>3. \A u \in Tasks : ValueOK(u)'
      BY <2>0, <2>5 DEF Checked, TypeOK, ValueOK, Moving
    <3>4. QED
      BY <3>2, <3>3 DEF RangeInv
  <2>6. ASSUME NEW t \in Tasks, NEW s \in Servos, Begin(t, s) PROVE RangeInv'
    <3>1. /\ req[t].cmd \in Moves
          /\ req[t].arg \in Int
          /\ InRange(req[t].cmd, req[t].arg)
      BY <2>0, <2>6 DEF Begin, ValueOK, Moving, TypeOK, Requests
    <3>2. servo_angles[s] \in -100..270
      BY <2>0 DEF TypeOK
    <3> DEFINE w == IF req[t].cmd = "INCREMENT_SERVOS_ANGLE" THEN servo_angles[s] + req[t].arg
                                                             ELSE req[t].arg
    <3>a. req[t].cmd # "SET_SERVOS_SPEED" => req[t].arg \in -360..360
      BY <3>1 DEF InRange
    <3>b. req[t].cmd = "SET_SERVOS_SPEED" => req[t].arg \in -100..100
      BY <3>1 DEF InRange
    <3>3. w \in -460..630
      <4>1. CASE req[t].cmd = "INCREMENT_SERVOS_ANGLE"
        <5>1. PICK x \in -100..270 : x = servo_angles[s]
          BY <3>2
        <5>2. PICK y \in -360..360 : y = req[t].arg
          BY <3>a, <4>1
        <5>3. x + y \in -460..630
          OBVIOUS
        <5>4. w = x + y
          BY <4>1, <5>1, <5>2
        <5>5. QED
          BY <5>3, <5>4
      <4>2. CASE req[t].cmd = "SET_SERVOS_SPEED"
        BY <3>b, <4>2
      <4>3. CASE req[t].cmd \notin {"INCREMENT_SERVOS_ANGLE", "SET_SERVOS_SPEED"}
        BY <3>a, <4>3
      <4>4. QED
        BY <4>1, <4>2, <4>3
    <3>c. value' = [value EXCEPT ![t] = w]
      BY <2>6 DEF Begin
    <3>d. value \in [Tasks -> -460..630]
      BY <2>0 DEF TypeOK
    <3>4. value' \in [Tasks -> -460..630] /\ value' = [value EXCEPT ![t] = w]
      BY <3>3, <3>c, <3>d
    <3>5. fresh' \in [Tasks -> SUBSET Servos]
      BY <2>0, <2>6 DEF Begin, Meet, TypeOK
    <3>6. /\ pc' \in [Tasks -> {"idle", "types", "check", "apply", "clamp", "register",
                               "cache", "reply"}]
          /\ pc' = [pc EXCEPT ![t] = IF req[t].cmd = "SET_SERVOS_SPEED"
                                       THEN "register" ELSE "clamp"]
      BY <2>0, <2>6 DEF Begin, TypeOK
    <3>e. UNCHANGED <<servo_types, servo_angles, pulse, req, todo, reply, sure>>
      BY <2>6 DEF Begin
    <3>f. /\ servo_types' \in [Servos -> ServoType]
          /\ servo_angles' \in [Servos -> -100..270]
          /\ pulse' \in [Servos -> {0} \cup (500..2500)]
          /\ req' \in [Tasks -> Requests]
          /\ todo' \in [Tasks -> SUBSET Servos]
          /\ reply' \in [Tasks -> {"none", "resp_ok", "resp_invalid_params",
                                  "resp_invalid_values"}]
          /\ sure' \subseteq Servos
      BY <2>0, <3>e DEF TypeOK
    <3>g. value' \in [Tasks -> -460..630]
      BY <3>4
    <3>h. pc' \in [Tasks -> {"idle", "types", "check", "apply", "clamp", "register",
                            "cache", "reply"}]
      BY <3>6
    <3>7. TypeOK'
      BY <3>5, <3>f, <3>g, <3>h DEF TypeOK
    <3>8. req[t].cmd = "SET_SERVOS_SPEED" => w \in -100..100
      BY <3>1 DEF InRange
    <3>9. value'[t] = w /\ req' = req
      BY <2>0, <2>6, <3>4 DEF Begin, TypeOK
    <3>10. pc'[t] = IF req[t].cmd = "SET_SERVOS_SPEED" THEN "register" ELSE "clamp"
      BY <2>0, <3>6 DEF TypeOK
    <3>11. ValueOK(t)'
      BY <3>1, <3>8, <3>9, <3>10 DEF ValueOK, Moving
    <3>12. \A u \in Tasks \ {t} : ValueOK(u)'
      BY <2>0, <3>4, <3>6, <3>9 DEF TypeOK, ValueOK, Moving
    <3>13. QED
      BY <3>7, <3>11, <3>12 DEF RangeInv
  <2>7. ASSUME NEW t \in Tasks, NEW s \in Servos, Clamp(t, s) PROVE RangeInv'
    <3>1. /\ req[t].cmd # "SET_SERVOS_SPEED"
          /\ servo_types[s] \in ServoType
      BY <2>0, <2>7 DEF Clamp, ValueOK, TypeOK
    <3>e. value[t] \in -460..630
      BY <2>0 DEF TypeOK
    <3>f. value[t] \in Int
      BY <3>e
    <3>2. value'[t] \in 0..270
      BY <2>0, <2>7, <3>1, <3>f, ClampRange DEF Clamp, TypeOK
    <3> DEFINE v == ClampToServoRange(servo_types[s], value[t])
    <3>a. v \in 0..270 /\ v \in -460..630
      BY <3>1, <3>f, ClampRange
    <3>b. value' = [value EXCEPT ![t] = v]
      BY <2>7 DEF Clamp
    <3>c. value' \in [Tasks -> -460..630]
      BY <2>0, <3>a, <3>b DEF TypeOK
    <3>d. pc' \in [Tasks -> {"idle", "types", "check", "apply", "clamp", "register",
                            "cache", "reply"}]
      BY <2>0, <2>7 DEF Clamp, TypeOK
    <3>3. TypeOK'
      BY <2>0, <2>7, <3>c, <3>d DEF Clamp, TypeOK
    <3>4. \A u \in Tasks : ValueOK(u)'
      BY <2>0, <2>7, <3>1, <3>2 DEF Clamp, TypeOK, ValueOK, Moving
    <3>5. QED
      BY <3>3, <3>4 DEF RangeInv
  <2>8. ASSUME NEW t \in Tasks, NEW s \in Servos, NEW done \in BOOLEAN,
               WriteRegister(t, s, done)
        PROVE  RangeInv'
    <3> DEFINE p == IF req[t].cmd = "SET_SERVOS_SPEED" THEN SpeedPulse(value[t])
                                                       ELSE AnglePulse(value[t])
    <3>1. value[t] \in (IF req[t].cmd = "SET_SERVOS_SPEED" THEN -100..100 ELSE 0..270)
      BY <2>0, <2>8 DEF WriteRegister, ValueOK
    <3>2. p \in 500..2500
      <4>1. CASE req[t].cmd = "SET_SERVOS_SPEED"
        <5>1. value[t] \in -100..100
          BY <3>1, <4>1
        <5>2. SpeedPulse(value[t]) \in 500..2500
          BY <5>1 DEF SpeedPulse
        <5>3. QED
          BY <4>1, <5>2
      <4>2. CASE req[t].cmd # "SET_SERVOS_SPEED"
        <5>1. value[t] \in 0..270
          BY <3>1, <4>2
        <5>2. AnglePulse(value[t]) \in 500..2500
          BY <5>1 DEF AnglePulse
        <5>3. QED
          BY <4>2, <5>2
      <4>3. QED
        BY <4>1, <4>2
    <3>3. pulse' = pulse \/ pulse' = [pulse EXCEPT ![s] = p]
      BY <2>8 DEF WriteRegister
    <3>a. pulse' \in [Servos -> {0} \cup (500..2500)]
      BY <2>0, <3>2, <3>3 DEF TypeOK
    <3>b. /\ pc' \in [Tasks -> {"idle", "types", "check", "apply", "clamp", "register",
                               "cache", "reply"}]
          /\ fresh' \in [Tasks -> SUBSET Servos]
          /\ sure' \subseteq Servos
      BY <2>0, <2>8 DEF WriteRegister, TypeOK
    <3>c. UNCHANGED <<servo_types, servo_angles, req, todo, value, reply>>
      BY <2>8 DEF WriteRegister
    <3>4. TypeOK'
      BY <2>0, <3>a, <3>b, <3>c DEF TypeOK
    <3>5. \A u \in Tasks : ValueOK(u)'
      BY <2>0, <2>8 DEF WriteRegister, TypeOK, ValueOK, Moving
    <3>6. QED
      BY <3>4, <3>5 DEF RangeInv
  <2>9. ASSUME NEW t \in Tasks, NEW s \in Servos, WriteCache(t, s) PROVE RangeInv'
    <3>1. value[t] \in -100..270
      BY <2>0, <2>9 DEF WriteCache, ValueOK
    <3>a. servo_angles' \in [Servos -> -100..270]
      BY <2>0, <2>9, <3>1 DEF WriteCache, TypeOK
    <3>b. /\ pc' \in [Tasks -> {"idle", "types", "check", "apply", "clamp", "register",
                               "cache", "reply"}]
          /\ todo' \in [Tasks -> SUBSET Servos]
          /\ sure' \subseteq Servos
      BY <2>0, <2>9 DEF WriteCache, TypeOK
    <3>2. TypeOK'
      BY <2>0, <2>9, <3>a, <3>b DEF WriteCache, TypeOK
    <3>3. \A u \in Tasks : ValueOK(u)'
      BY <2>0, <2>9 DEF WriteCache, TypeOK, ValueOK, Moving
    <3>4. QED
      BY <3>2, <3>3 DEF RangeInv
  <2>10. ASSUME NEW t \in Tasks, Done(t) PROVE RangeInv'
    <3>1. TypeOK'
      BY <2>0, <2>10 DEF Done, Answer, TypeOK
    <3>2. \A u \in Tasks : ValueOK(u)'
      BY <2>0, <2>10 DEF Done, Answer, TypeOK, ValueOK, Moving
    <3>3. QED
      BY <3>1, <3>2 DEF RangeInv
  <2>11. ASSUME NEW t \in Tasks, Reply(t) PROVE RangeInv'
    <3>1. NoRequest \in Requests /\ 0 \in -460..630
      BY DEF NoRequest, Requests, ServoType
    <3>2. TypeOK'
      BY <2>0, <2>11, <3>1 DEF Reply, TypeOK
    <3>3. \A u \in Tasks : ValueOK(u)'
      BY <2>0, <2>11 DEF Reply, TypeOK, ValueOK, Moving
    <3>4. QED
      BY <3>2, <3>3 DEF RangeInv
  <2>12. CASE Restart
    <3>1. NoRequest \in Requests
      BY DEF NoRequest, Requests, ServoType
    <3>2. pulse' \in [Servos -> {0} \cup (500..2500)]
      BY <2>0, <2>12 DEF Restart, TypeOK
    <3>3. TypeOK'
      BY <2>12, <3>1, <3>2 DEF Restart, TypeOK, ServoType
    <3>4. \A u \in Tasks : ValueOK(u)'
      BY <2>12 DEF Restart, ValueOK, Moving
    <3>5. QED
      BY <3>3, <3>4 DEF RangeInv
  <2>13. CASE UNCHANGED vars
    <3>1. TypeOK'
      BY <2>0, <2>13 DEF vars, TypeOK
    <3>2. \A u \in Tasks : ValueOK(u)'
      BY <2>0, <2>13 DEF vars, ValueOK, Moving
    <3>3. QED
      BY <3>1, <3>2 DEF RangeInv
  <2>14. \A v \in Angles \cup Speeds : v \in Int
    BY BytesAssumption
  <2>15. QED
    BY <2>1, <2>2, <2>3, <2>4, <2>5, <2>6, <2>7, <2>8, <2>9, <2>10, <2>11, <2>12, <2>13, <2>14
       DEF Next, Command, Loop, Moves
<1>3. QED
  BY <1>1, <1>2, PTL DEF Spec

(* Every variable has its type.                                            *)
THEOREM TypeCorrect == Spec => []TypeOK
<1>1. RangeInv => TypeOK
  BY DEF RangeInv
<1>2. QED
  BY <1>1, RangeInvHolds, PTL

(* The angle a command means for a channel at angle a, and the value it    *)
(* ends with for a channel of that type.                                   *)
Target(r, a) == IF r.cmd = "INCREMENT_SERVOS_ANGLE" THEN a + r.arg ELSE r.arg

Result(r, type, a) == IF r.cmd = "SET_SERVOS_SPEED" THEN r.arg
                                                    ELSE ClampToServoRange(type, Target(r, a))

(* What t may rely on at a channel it still counts as fresh: the type      *)
(* suits its command, no other pass is there, and its value and the        *)
(* register are what its steps so far made of the command.                 *)
FreshOK(t, s) ==
  /\ Moving(t)
  /\ Suits(req[t].cmd, servo_types[s])
  /\ Inside(t, s) =>
       /\ \A u \in Tasks \ {t} : ~Inside(u, s)
       /\ pc[t] = "clamp" => value[t] = Target(req[t], servo_angles[s])
       /\ pc[t] \in {"register", "cache"} =>
            value[t] = Result(req[t], servo_types[s], servo_angles[s])
       /\ pc[t] = "cache" => pulse[s] = Pulse(servo_types[s], value[t])

FreshInv == \A t \in Tasks, s \in Servos : s \in fresh[t] => FreshOK(t, s)

ServoInv == RangeInv /\ FreshInv /\ KnownPosition

(* A step of t that leaves the handlers of the other tasks alone.          *)
Others(t) ==
  \A u \in Tasks \ {t} :
    pc'[u] = pc[u] /\ req'[u] = req[u] /\ todo'[u] = todo[u] /\ value'[u] = value[u]

SameDevice(s) ==
  servo_types'[s] = servo_types[s] /\ servo_angles'[s] = servo_angles[s] /\ pulse'[s] = pulse[s]

(* Such a step keeps what u relies on at a channel t does not touch.       *)
LEMMA OthersFrame ==
  ASSUME NEW t \in Tasks, NEW u \in Tasks \ {t}, NEW k \in Servos,
         Others(t), FreshOK(u, k), SameDevice(k), Inside(t, k)' => Inside(t, k)
  PROVE  FreshOK(u, k)'
<1>1. \A w \in Tasks \ {t} : Inside(w, k)' <=> Inside(w, k)
  BY DEF Others, Inside, Current
<1>2. /\ pc'[u] = pc[u] /\ req'[u] = req[u] /\ value'[u] = value[u]
      /\ servo_types'[k] = servo_types[k]
      /\ servo_angles'[k] = servo_angles[k]
      /\ pulse'[k] = pulse[k]
  BY DEF Others, SameDevice
<1>3. Moving(u)' /\ Suits(req[u].cmd, servo_types[k])'
  BY <1>2 DEF FreshOK, Moving
<1>4. ASSUME Inside(u, k)', NEW w \in Tasks \ {u} PROVE ~Inside(w, k)'
  BY <1>1, <1>4 DEF FreshOK
<1>5. QED
  BY <1>1, <1>2, <1>3, <1>4 DEF FreshOK

(* ... and at a channel u is not inside of, when its type stays.           *)
LEMMA OthersOut ==
  ASSUME NEW t \in Tasks, NEW u \in Tasks \ {t}, NEW k \in Servos,
         Others(t), FreshOK(u, k), servo_types'[k] = servo_types[k], ~Inside(u, k)
  PROVE  FreshOK(u, k)'
BY DEF Others, FreshOK, Moving, Inside, Current

(* What t itself relies on at a channel it has not begun or has left.      *)
LEMMA OwnOut ==
  ASSUME NEW t \in Tasks, NEW k \in Servos,
         Moving(t)', Suits(req[t].cmd, servo_types[k])', ~Inside(t, k)'
  PROVE  FreshOK(t, k)'
BY DEF FreshOK

(* A task is at one channel at a time.                                     *)
LEMMA OneCurrent ==
  ASSUME NEW t \in Tasks, NEW s \in Servos, NEW k \in Servos, Current(t, s), Current(t, k)
  PROVE  k = s
BY ServosAssumption DEF Current

(* KnownPosition survives a step that adds no channel to sure and leaves   *)
(* the ones that stay alone.                                               *)
LEMMA KnownFrame ==
  ASSUME KnownPosition, sure' \subseteq sure, \A k \in sure' : SameDevice(k)
  PROVE  KnownPosition'
BY DEF KnownPosition, SameDevice

(* What a handler relies on at a channel it counts as fresh is so, and the *)
(* sure channels are where the cache says.                                 *)
LEMMA ServoInvHolds == Spec => []ServoInv
<1>1. Init => FreshInv /\ KnownPosition
  BY DEF Init, FreshInv, KnownPosition
<1>2. RangeInv /\ FreshInv /\ KnownPosition /\ [Next]_vars => FreshInv' /\ KnownPosition'
  <2> SUFFICES ASSUME RangeInv, FreshInv, KnownPosition, [Next]_vars
               PROVE  FreshInv' /\ KnownPosition'
    OBVIOUS
  <2>0. TypeOK /\ \A u \in Tasks : ValueOK(u)
    BY DEF RangeInv
  <2> DEFINE Good(u, k) == k \in fresh'[u] => FreshOK(u, k)'
  <2>a. \A u \in Tasks, k \in Servos : k \in fresh[u] => FreshOK(u, k)
    BY DEF FreshInv
  <2>b. (\A u \in Tasks, k \in Servos : Good(u, k)) => FreshInv'
    BY DEF FreshInv
  <2> HIDE DEF Good
  <2>1. ASSUME NEW t \in Tasks, NEW mask \in SUBSET (Servos \cup HighBits),
               NEW type \in ServoType \cup {"none"}, SetServoTypes(t, mask, type)
        PROVE  FreshInv' /\ KnownPosition'
    <3>1. Others(t) /\ ~Moving(t) /\ pc'[t] \notin {"clamp", "register", "cache"}
      BY <2>0, <2>1 DEF SetServoTypes, Start, Answer, Others, Moving, TypeOK
    <3>2. ASSUME NEW u \in Tasks, NEW k \in Servos, k \in fresh'[u] PROVE FreshOK(u, k)'
      <4>1. k \in fresh[u] /\ SameDevice(k)
        BY <2>1, <3>2 DEF SetServoTypes, SameDevice
      <4>2. FreshOK(u, k) /\ u # t
        BY <2>a, <3>1, <4>1 DEF FreshOK
      <4>3. QED
        BY <3>1, <4>1, <4>2, OthersFrame DEF Inside
    <3>3. KnownPosition'
      BY <2>1, KnownFrame DEF SetServoTypes, SameDevice
    <3>4. QED
      BY <2>b, <3>2, <3>3 DEF Good
  <2>2. ASSUME NEW t \in Tasks, NEW mask \in SUBSET (Servos \cup HighBits),
               NEW c \in Moves, NEW v \in Int, SetServos(t, c, mask, v)
        PROVE  FreshInv' /\ KnownPosition'
    <3>1. Others(t) /\ ~Moving(t) /\ pc'[t] \notin {"clamp", "register", "cache"}
      BY <2>0, <2>2 DEF SetServos, Start, Answer, Others, Moving, TypeOK
    <3>2. ASSUME NEW u \in Tasks, NEW k \in Servos, k \in fresh'[u] PROVE FreshOK(u, k)'
      <4>1. k \in fresh[u] /\ SameDevice(k)
        BY <2>2, <3>2 DEF SetServos, SameDevice
      <4>2. FreshOK(u, k) /\ u # t
        BY <2>a, <3>1, <4>1 DEF FreshOK
      <4>3. QED
        BY <3>1, <4>1, <4>2, OthersFrame DEF Inside
    <3>3. KnownPosition'
      BY <2>2, KnownFrame DEF SetServos, SameDevice
    <3>4. QED
      BY <2>b, <3>2, <3>3 DEF Good
  <2>3. ASSUME NEW t \in Tasks, NEW s \in Servos, TypeWrite(t, s)
        PROVE  FreshInv' /\ KnownPosition'
    <3>1. Others(t) /\ ~Moving(t) /\ pc'[t] \notin {"clamp", "register", "cache"}
      BY <2>0, <2>3 DEF TypeWrite, Others, Moving, TypeOK
    <3>2. \A k \in Servos : k # s \/ servo_types[s] = req[t].type => SameDevice(k)
      BY <2>0, <2>3 DEF TypeWrite, SameDevice, TypeOK
    <3>3. ASSUME NEW u \in Tasks, NEW k \in Servos, k \in fresh'[u] PROVE FreshOK(u, k)'
      <4>1. k \in fresh[u] /\ SameDevice(k)
        BY <2>3, <3>2, <3>3 DEF TypeWrite
      <4>2. FreshOK(u, k) /\ u # t
        BY <2>a, <3>1, <4>1 DEF FreshOK
      <4>3. QED
        BY <3>1, <4>1, <4>2, OthersFrame DEF Inside
    <3>4. sure' \subseteq sure /\ \A k \in sure' : SameDevice(k)
      BY <2>0, <2>3, <3>2 DEF TypeWrite, TypeOK
    <3>5. QED
      BY <2>b, <3>3, <3>4, KnownFrame DEF Good
  <2>4. ASSUME NEW t \in Tasks, NEW s \in Servos, CheckType(t, s)
        PROVE  FreshInv' /\ KnownPosition'
    <3>1. Others(t) /\ Moving(t) /\ pc'[t] \notin {"clamp", "register", "cache"}
      BY <2>0, <2>4 DEF CheckType, Answer, Others, Moving, TypeOK
    <3>2. \A k \in Servos : SameDevice(k)
      BY <2>4 DEF CheckType, SameDevice
    <3>3. ASSUME NEW u \in Tasks \ {t}, NEW k \in Servos, k \in fresh'[u] PROVE FreshOK(u, k)'
      <4>1. k \in fresh[u]
        BY <2>0, <2>4, <3>3 DEF CheckType, TypeOK
      <4>2. QED
        BY <2>a, <3>1, <3>2, <4>1, OthersFrame DEF Inside
    <3>4. ASSUME NEW k \in Servos, k \in fresh'[t] PROVE FreshOK(t, k)'
      <4>1. /\ Suits(req[t].cmd, servo_types[s])
            /\ k \in fresh[t] \cup {s}
            /\ pc' = pc /\ req' = req /\ servo_types' = servo_types
        BY <2>0, <2>4, <3>4 DEF CheckType, TypeOK
      <4>2. Suits(req[t].cmd, servo_types[k])'
        BY <2>a, <4>1 DEF FreshOK
      <4>3. Moving(t)' /\ ~Inside(t, k)'
        BY <3>1, <4>1 DEF Moving, Inside
      <4>4. QED
        BY <4>2, <4>3, OwnOut
    <3>5. KnownPosition'
      BY <2>4, <3>2, KnownFrame DEF CheckType, SameDevice
    <3>6. QED
      BY <2>b, <3>3, <3>4, <3>5 DEF Good
  <2>5. ASSUME NEW t \in Tasks, Checked(t) PROVE FreshInv' /\ KnownPosition'
    <3>1. Others(t) /\ Moving(t)' /\ pc'[t] = "apply"
      BY <2>0, <2>5 DEF Checked, Others, Moving, TypeOK
    <3>2. \A k \in Servos : SameDevice(k)
      BY <2>5 DEF Checked, SameDevice
    <3>3. ASSUME NEW u \in Tasks, NEW k \in Servos, k \in fresh'[u] PROVE FreshOK(u, k)'
      <4>1. FreshOK(u, k)
        BY <2>a, <2>5, <3>3 DEF Checked
      <4>2. CASE u = t
        BY <2>5, <3>1, <4>1, <4>2, OwnOut DEF Checked, FreshOK, Inside
      <4>3. CASE u # t
        BY <3>1, <3>2, <4>1, <4>3, OthersFrame DEF Inside
      <4>4. QED
        BY <4>2, <4>3
    <3>4. KnownPosition'
      BY <2>5, <3>2, KnownFrame DEF Checked, SameDevice
    <3>5. QED
      BY <2>b, <3>3, <3>4 DEF Good
  <2>6. ASSUME NEW t \in Tasks, NEW s \in Servos, Begin(t, s)
        PROVE  FreshInv' /\ KnownPosition'
    <3>1. /\ Others(t)
          /\ pc'[t] = IF req[t].cmd = "SET_SERVOS_SPEED" THEN "register" ELSE "clamp"
          /\ value'[t] = Target(req[t], servo_angles[s])
          /\ req' = req /\ todo' = todo
          /\ \A k \in Servos : SameDevice(k)
      BY <2>0, <2>6 DEF Begin, Others, SameDevice, TypeOK, Target
    <3>2. ~Inside(t, s) /\ Current(t, s)
      BY <2>6 DEF Begin, Inside
    <3>3. \A k \in Servos \ {s} : ~Inside(t, k)'
      BY <3>1, <3>2, OneCurrent DEF Inside, Current
    <3>4. \A w \in Tasks \ {t}, k \in Servos : Inside(w, k)' <=> Inside(w, k)
      BY <3>1 DEF Others, Inside, Current
    <3>5. ASSUME NEW u \in Tasks \ {t}, NEW k \in Servos, k \in fresh'[u] PROVE FreshOK(u, k)'
      <4>1. k \in fresh[u] /\ (k # s \/ ~Inside(u, k))
        BY <2>6, <3>5 DEF Begin, Meet
      <4>2. FreshOK(u, k)
        BY <2>a, <4>1
      <4>3. CASE ~Inside(u, k)
        BY <3>1, <4>2, <4>3, OthersOut DEF SameDevice
      <4>4. CASE k # s
        BY <3>1, <3>3, <4>2, <4>4, OthersFrame
      <4>5. QED
        BY <4>1, <4>3, <4>4
    <3>6. ASSUME NEW k \in Servos, k \in fresh'[t] PROVE FreshOK(t, k)'
      <4>1. k \in fresh[t] /\ (k = s => \A w \in Tasks : ~Inside(w, s))
        BY <2>6, <3>6 DEF Begin, Meet
      <4>2. Suits(req[t].cmd, servo_types[k])' /\ Moving(t)'
        BY <2>a, <3>1, <4>1 DEF FreshOK, Moving, SameDevice
      <4>3. CASE k # s
        BY <3>3, <4>2, <4>3, OwnOut
      <4>4. CASE k = s
        <5>1. \A w \in Tasks \ {t} : ~Inside(w, k)'
          BY <3>4, <4>1, <4>4
        <5>2. pc'[t] = "clamp" => value'[t] = Target(req'[t], servo_angles'[k])
          BY <3>1, <4>4 DEF SameDevice
        <5>3. pc'[t] = "register" =>
                value'[t] = Result(req'[t], servo_types'[k], servo_angles'[k])
          BY <3>1, <4>4 DEF SameDevice, Target, Result
        <5>4. pc'[t] \in {"clamp", "register"}
          BY <3>1
        <5>5. QED
          BY <4>2, <5>1, <5>2, <5>3, <5>4 DEF FreshOK
      <4>5. QED
        BY <4>3, <4>4
    <3>7. KnownPosition'
      BY <2>6, KnownFrame DEF Begin, SameDevice
    <3>8. QED
      BY <2>b, <3>5, <3>6, <3>7 DEF Good
  <2>7. ASSUME NEW t \in Tasks, NEW s \in Servos, Clamp(t, s)
        PROVE  FreshInv' /\ KnownPosition'
    <3>1. /\ Others(t)
          /\ pc[t] = "clamp" /\ pc'[t] = "register"
          /\ value'[t] = ClampToServoRange(servo_types[s], value[t])
          /\ req' = req /\ todo' = todo /\ fresh' = fresh
          /\ \A k \in Servos : SameDevice(k)
      BY <2>0, <2>7 DEF Clamp, Others, SameDevice, TypeOK
    <3>2. Inside(t, s) /\ Current(t, s) /\ req[t].cmd # "SET_SERVOS_SPEED"
      BY <2>0, <2>7 DEF Clamp, Inside, ValueOK
    <3>3. \A k \in Servos \ {s} : ~Inside(t, k)'
      BY <3>1, <3>2, OneCurrent DEF Inside, Current
    <3>4. \A w \in Tasks, k \in Servos : Inside(w, k)' => Inside(w, k)
      BY <3>1 DEF Others, Inside, Current
    <3>5. ASSUME NEW u \in Tasks \ {t}, NEW k \in Servos, k \in fresh'[u] PROVE FreshOK(u, k)'
      BY <2>a, <3>1, <3>4, <3>5, OthersFrame
    <3>6. ASSUME NEW k \in Servos, k \in fresh'[t] PROVE FreshOK(t, k)'
      <4>1. FreshOK(t, k)
        BY <2>a, <3>1, <3>6
      <4>2. Suits(req[t].cmd, servo_types[k])' /\ Moving(t)'
        BY <3>1, <4>1 DEF FreshOK, Moving, SameDevice
      <4>3. CASE k # s
        BY <3>3, <4>2, <4>3, OwnOut
      <4>4. CASE k = s
        <5>1. \A w \in Tasks \ {t} : ~Inside(w, k)'
          BY <3>2, <3>4, <4>1, <4>4 DEF FreshOK
        <5>2. value[t] = Target(req[t], servo_angles[k])
          BY <3>1, <3>2, <4>1, <4>4 DEF FreshOK
        <5>3. value'[t] = Result(req'[t], servo_types'[k], servo_angles'[k])
          BY <3>1, <3>2, <4>4, <5>2 DEF SameDevice, Result
        <5>4. QED
          BY <3>1, <4>2, <5>1, <5>3 DEF FreshOK
      <4>5. QED
        BY <4>3, <4>4
    <3>7. KnownPosition'
      BY <2>7, KnownFrame DEF Clamp, SameDevice
    <3>8. QED
      BY <2>b, <3>5, <3>6, <3>7 DEF Good
  <2>8. ASSUME NEW t \in Tasks, NEW s \in Servos, NEW done \in BOOLEAN,
               WriteRegister(t, s, done)
        PROVE  FreshInv' /\ KnownPosition'
    <3>1. /\ Others(t)
          /\ pc[t] = "register" /\ pc'[t] = "cache"
          /\ req' = req /\ todo' = todo /\ value' = value
          /\ servo_types' = servo_types /\ servo_angles' = servo_angles
          /\ \A u \in Tasks : fresh'[u] \subseteq fresh[u]
          /\ s \in fresh'[t] => done
      BY <2>0, <2>8 DEF WriteRegister, Others, TypeOK
    <3>2. Inside(t, s) /\ Current(t, s)
      BY <2>8 DEF WriteRegister, Inside
    <3>3. \A k \in Servos \ {s} : SameDevice(k)
      BY <2>0, <2>8 DEF WriteRegister, SameDevice, TypeOK
    <3>4. \A k \in Servos \ {s} : ~Inside(t, k)'
      BY <3>1, <3>2, OneCurrent DEF Inside, Current
    <3>5. ASSUME NEW u \in Tasks \ {t}, NEW k \in Servos, k \in fresh'[u] PROVE FreshOK(u, k)'
      <4>1. FreshOK(u, k)
        BY <2>a, <3>1, <3>5
      <4>2. CASE k # s
        BY <3>1, <3>3, <3>4, <4>1, <4>2, OthersFrame
      <4>3. CASE k = s
        <5>1. ~Inside(u, k)
          BY <3>2, <4>1, <4>3 DEF FreshOK
        <5>2. QED
          BY <3>1, <4>1, <5>1, OthersOut
      <4>4. QED
        BY <4>2, <4>3
    <3>6. ASSUME NEW k \in Servos, k \in fresh'[t] PROVE FreshOK(t, k)'
      <4>1. FreshOK(t, k)
        BY <2>a, <3>1, <3>6
      <4>2. Suits(req[t].cmd, servo_types[k])' /\ Moving(t)'
        BY <3>1, <4>1 DEF FreshOK, Moving
      <4>3. CASE k # s
        BY <3>4, <4>2, <4>3, OwnOut
      <4>4. CASE k = s
        <5>1. \A w \in Tasks \ {t} : ~Inside(w, k)'
          BY <3>1, <3>2, <4>1, <4>4 DEF FreshOK, Others, Inside, Current
        <5>2. value[t] = Result(req[t], servo_types[k], servo_angles[k])
          BY <3>1, <3>2, <4>1, <4>4 DEF FreshOK
        <5>3. done
          BY <3>1, <3>6, <4>4
        <5>4. pulse'[k] = IF req[t].cmd = "SET_SERVOS_SPEED" THEN SpeedPulse(value[t])
                                                             ELSE AnglePulse(value[t])
          BY <2>0, <2>8, <4>4, <5>3 DEF WriteRegister, TypeOK
        <5>5. pulse'[k] = Pulse(servo_types[k], value[t])
          BY <4>1, <5>4 DEF FreshOK, Suits, Pulse
        <5>6. QED
          BY <3>1, <4>2, <5>1, <5>2, <5>5 DEF FreshOK
      <4>5. QED
        BY <4>3, <4>4
    <3>7. sure' \subseteq sure /\ \A k \in sure' : SameDevice(k)
      BY <2>0, <2>8, <3>3 DEF WriteRegister, TypeOK
    <3>8. QED
      BY <2>b, <3>5, <3>6, <3>7, KnownFrame DEF Good
  <2>9. ASSUME NEW t \in Tasks, NEW s \in Servos, WriteCache(t, s)
        PROVE  FreshInv' /\ KnownPosition'
    <3>1. /\ Others(t)
          /\ pc[t] = "cache" /\ pc'[t] = "apply"
          /\ req' = req /\ value' = value /\ fresh' = fresh
          /\ servo_types' = servo_types /\ pulse' = pulse
          /\ servo_angles'[s] = value[t]
          /\ \A k \in Servos \ {s} : servo_angles'[k] = servo_angles[k]
      BY <2>0, <2>9 DEF WriteCache, Others, TypeOK
    <3>2. Inside(t, s)
      BY <2>9 DEF WriteCache, Inside
    <3>3. \A k \in Servos \ {s} : SameDevice(k)
      BY <3>1 DEF SameDevice
    <3>4. ASSUME NEW u \in Tasks, NEW k \in Servos, k \in fresh'[u] PROVE FreshOK(u, k)'
      <4>1. FreshOK(u, k)
        BY <2>a, <3>1, <3>4
      <4>2. CASE u = t
        BY <3>1, <4>1, <4>2, OwnOut DEF FreshOK, Moving, Inside
      <4>3. CASE u # t /\ k # s
        BY <3>1, <3>3, <4>1, <4>3, OthersFrame DEF Inside
      <4>4. CASE u # t /\ k = s
        <5>1. ~Inside(u, k)
          BY <3>2, <4>1, <4>4 DEF FreshOK
        <5>2. QED
          BY <3>1, <4>1, <4>4, <5>1, OthersOut
      <4>5. QED
        BY <4>2, <4>3, <4>4
    <3>5. ASSUME s \in fresh[t]
          PROVE  /\ pulse'[s] = Pulse(servo_types'[s], servo_angles'[s])
                 /\ servo_types'[s] # "CONTINUOUS" => servo_angles'[s] \in 0..MaxAngle(servo_types'[s])
      <4>1. FreshOK(t, s)
        BY <2>a, <3>5
      <4>2. pulse[s] = Pulse(servo_types[s], value[t])
        BY <3>1, <3>2, <4>1 DEF FreshOK
      <4>3. value[t] = Result(req[t], servo_types[s], servo_angles[s])
        BY <3>1, <3>2, <4>1 DEF FreshOK
      <4>4. Target(req[t], servo_angles[s]) \in Int /\ servo_types[s] \in ServoType
        <5>1. servo_angles[s] \in -100..270 /\ servo_types[s] \in ServoType
          BY <2>0 DEF TypeOK
        <5>2. req[t].arg \in Int
          BY <2>0 DEF TypeOK, Requests
        <5>3. QED
          BY <5>1, <5>2 DEF Target
      <4>5. servo_types[s] # "CONTINUOUS" => req[t].cmd # "SET_SERVOS_SPEED"
        BY <4>1 DEF FreshOK, Suits
      <4>6. servo_types[s] # "CONTINUOUS" => value[t] \in 0..MaxAngle(servo_types[s])
        BY <4>3, <4>4, <4>5, ClampRange DEF Result
      <4>7. QED
        BY <3>1, <4>2, <4>6
    <3>6. /\ sure' \subseteq sure \cup {s}
          /\ s \in sure' => s \in fresh[t]
      BY <2>9 DEF WriteCache
    <3>7. KnownPosition'
      <4> SUFFICES ASSUME NEW k \in sure'
                   PROVE  /\ pulse'[k] = Pulse(servo_types'[k], servo_angles'[k])
                          /\ servo_types'[k] # "CONTINUOUS" =>
                               servo_angles'[k] \in 0..MaxAngle(servo_types'[k])
        BY DEF KnownPosition
      <4>1. CASE k = s
        BY <3>5, <3>6, <4>1
      <4>2. CASE k # s
        <5>1. k \in sure /\ k \in Servos \ {s}
          BY <2>0, <3>6, <4>2 DEF TypeOK
        <5>2. QED
          BY <3>3, <5>1 DEF KnownPosition, SameDevice
      <4>3. QED
        BY <4>1, <4>2
    <3>8. QED
      BY <2>b, <3>4, <3>7 DEF Good
  <2>10. ASSUME NEW t \in Tasks, Done(t) PROVE FreshInv' /\ KnownPosition'
    <3>1. Others(t) /\ pc'[t] = "reply" /\ fresh'[t] = {}
      BY <2>0, <2>10 DEF Done, Answer, Others, TypeOK
    <3>2. ASSUME NEW u \in Tasks, NEW k \in Servos, k \in fresh'[u] PROVE FreshOK(u, k)'
      <4>1. k \in fresh[u] /\ SameDevice(k) /\ u # t
        BY <2>0, <2>10, <3>1, <3>2 DEF Done, SameDevice, TypeOK
      <4>2. QED
        BY <2>a, <3>1, <4>1, OthersFrame DEF Inside
    <3>3. KnownPosition'
      BY <2>10, KnownFrame DEF Done, SameDevice
    <3>4. QED
      BY <2>b, <3>2, <3>3 DEF Good
  <2>11. ASSUME NEW t \in Tasks, Reply(t)
        PROVE  FreshInv' /\ KnownPosition'
    <3>1. Others(t) /\ ~Moving(t) /\ pc'[t] \notin {"clamp", "register", "cache"}
      BY <2>0, <2>11 DEF Reply, Start, Answer, Others, Moving, TypeOK
    <3>2. ASSUME NEW u \in Tasks, NEW k \in Servos, k \in fresh'[u] PROVE FreshOK(u, k)'
      <4>1. k \in fresh[u] /\ SameDevice(k)
        BY <2>11, <3>2 DEF Reply, SameDevice
      <4>2. FreshOK(u, k) /\ u # t
        BY <2>a, <3>1, <4>1 DEF FreshOK
      <4>3. QED
        BY <3>1, <4>1, <4>2, OthersFrame DEF Inside
    <3>3. KnownPosition'
      BY <2>11, KnownFrame DEF Reply, SameDevice
    <3>4. QED
      BY <2>b, <3>2, <3>3 DEF Good
  <2>12. CASE Restart
    BY <2>12 DEF Restart, FreshInv, KnownPosition
  <2>13. CASE UNCHANGED vars
    <3>1. FreshInv'
      BY <2>13 DEF vars, FreshInv, FreshOK, Moving, Inside, Current
    <3>2. KnownPosition'
      BY <2>13 DEF vars, KnownPosition
    <3>3. QED
      BY <3>1, <3>2
  <2>14. \A v \in Angles \cup Speeds : v \in Int
    BY BytesAssumption
  <2>15. QED
    BY <2>1, <2>2, <2>3, <2>4, <2>5, <2>6, <2>7, <2>8, <2>9, <2>10, <2>11, <2>12, <2>13, <2>14
       DEF Next, Command, Loop, Moves
<1>3. Spec => [](FreshInv /\ KnownPosition)
  BY <1>1, <1>2, RangeInvHolds, PTL DEF Spec
<1>4. QED
  BY <1>3, RangeInvHolds, PTL DEF ServoInv

(* After an undisturbed pass a channel is where the cache says.            *)
THEOREM KnownPositionHolds == Spec => []KnownPosition
<1>1. ServoInv => KnownPosition
  BY DEF ServoInv
<1>2. QED
  BY <1>1, ServoInvHolds, PTL

(* An undisturbed increment is relative to the cached angle it replaces.   *)
THEOREM IncrementIsRelativeHolds == Spec => IncrementIsRelative
<1> DEFINE Relative ==
      \A t \in Tasks, s \in Servos :
        (WriteCache(t, s) /\ req[t].cmd = "INCREMENT_SERVOS_ANGLE" /\ s \in fresh[t])
          => servo_angles'[s] = ClampToServoRange(servo_types[s], servo_angles[s] + req[t].arg)
<1>1. ServoInv => Relative
  <2> SUFFICES ASSUME ServoInv, NEW t \in Tasks, NEW s \in Servos, WriteCache(t, s),
                      req[t].cmd = "INCREMENT_SERVOS_ANGLE", s \in fresh[t]
               PROVE  servo_angles'[s]
                        = ClampToServoRange(servo_types[s], servo_angles[s] + req[t].arg)
    OBVIOUS
  <2>1. FreshOK(t, s) /\ Inside(t, s) /\ pc[t] = "cache"
    BY DEF ServoInv, FreshInv, WriteCache, Inside
  <2>2. value[t] = ClampToServoRange(servo_types[s], servo_angles[s] + req[t].arg)
    BY <2>1 DEF FreshOK, Result, Target
  <2>3. servo_angles'[s] = value[t]
    BY DEF ServoInv, RangeInv, TypeOK, WriteCache
  <2>4. QED
    BY <2>2, <2>3
<1>2. Spec => [][Relative]_vars
  BY <1>1, ServoInvHolds, PTL
<1>3. QED
  BY <1>2 DEF IncrementIsRelative
=============================================================================
