-------------------------- MODULE MotorDriveProofs --------------------------
(***************************************************************************)
(* Theorems about MotorDrive: however many tasks, motors and lost writes,  *)
(* one undisturbed first write makes a motor safe and one undisturbed pass *)
(* makes its cached speed true.                                            *)
(***************************************************************************)
EXTENDS MotorDrive, TLAPS

(* A duty is a natural number and braking is duty 0.                       *)
LEMMA DutyType ==
  /\ \A s \in Valid : Duty(s) \in Nat
  /\ Duty(0) = 0
BY DEF Duty, Magnitude, Valid, SPEED_MIN, SPEED_MAX

(* The variables have their types.                                         *)
THEOREM TypeCorrect == Spec => []TypeOK
<1>1. Init => TypeOK
  BY DEF Init, TypeOK, Valid, SPEED_MIN, SPEED_MAX, Trust
<1>2. TypeOK /\ [Next]_vars => TypeOK'
  <2> SUFFICES ASSUME TypeOK, [Next]_vars PROVE TypeOK'
    OBVIOUS
  <2> USE DEF TypeOK, taskVars
  <2>1. ASSUME NEW t \in Tasks, NEW mask \in SUBSET (Motors \cup HighBits),
               NEW s \in Speeds, SetMotorsSpeed(t, mask, s)
        PROVE  TypeOK'
    BY <2>1 DEF SetMotorsSpeed, Start, Answer
  <2>2. ASSUME NEW t \in Tasks, StopAllMotors(t) PROVE TypeOK'
    BY <2>2 DEF StopAllMotors, Start, Valid, SPEED_MIN, SPEED_MAX
  <2>3. ASSUME NEW t \in Tasks, NEW m \in Motors, NEW done \in BOOLEAN,
               ApplyFirst(t, m, done)
        PROVE  TypeOK'
    <3>1. leg' \in [Motors -> [Sides -> Nat]]
      BY <2>3 DEF ApplyFirst, SetMotorDuty
    <3>2. clean' \in [Tasks -> BOOLEAN]
      BY <2>3, ZenonT(30) DEF ApplyFirst
    <3>3. trust' \in [Motors -> Trust]
      BY <2>3 DEF ApplyFirst, Trust
    <3>4. QED
      BY <2>3, <3>1, <3>2, <3>3 DEF ApplyFirst
  <2>4. ASSUME NEW t \in Tasks, NEW m \in Motors, NEW done \in BOOLEAN,
               ApplySecond(t, m, done)
        PROVE  TypeOK'
    <3>1. leg' \in [Motors -> [Sides -> Nat]]
      BY <2>4, DutyType DEF ApplySecond, SetMotorDuty
    <3>2. QED
      BY <2>4, <3>1 DEF ApplySecond
  <2>5. ASSUME NEW t \in Tasks, NEW m \in Motors, ApplyCache(t, m) PROVE TypeOK'
    BY <2>5 DEF ApplyCache, Trust
  <2>6. ASSUME NEW t \in Tasks, Done(t) \/ Reply(t) PROVE TypeOK'
    <3>1. 0 \in Valid
      BY DEF Valid, SPEED_MIN, SPEED_MAX
    <3>2. CASE Done(t)
      BY <3>2 DEF Done, Answer
    <3>3. CASE Reply(t)
      BY <3>1, <3>3 DEF Reply
    <3>4. QED
      BY <2>6, <3>2, <3>3
  <2>7. CASE Restart
    <3>1. leg' \in [Motors -> [Sides -> Nat]]
      BY <2>7 DEF Restart
    <3>2. trust' \in [Motors -> Trust]
      BY <2>7 DEF Restart, Trust
    <3>3. QED
      BY <2>7, <3>1, <3>2 DEF Restart, Valid, SPEED_MIN, SPEED_MAX
  <2>8. CASE UNCHANGED vars
    BY <2>8 DEF vars
  <2>9. QED
    BY <2>1, <2>2, <2>3, <2>4, <2>5, <2>6, <2>7, <2>8 DEF Next, Handlers, Apply
<1>3. QED
  BY <1>1, <1>2, PTL DEF Spec

-----------------------------------------------------------------------------
(* What holds of a motor while tasks are inside it.                        *)

(* A motor that a task is inside is not settled; two tasks inside one      *)
(* motor have spoilt it and each other.                                    *)
Crowd(m) ==
  \A t \in Tasks : Inside(t, m) =>
    /\ trust[m] # "exact"
    /\ \A u \in Tasks \ {t} : Inside(u, m) => trust[m] = "none" /\ ~clean[t]

(* A clean pass has zeroed the opposing leg, and at its cache write drives *)
(* the other one.                                                          *)
Progress(m) ==
  \A t \in Tasks : Inside(t, m) =>
    /\ clean[t] => trust[m] = "safe"
    /\ trust[m] = "safe" => leg[m][FirstSide(speed[t])] = 0
    /\ clean[t] /\ pc[t] = "cache" => leg[m][SecondSide(speed[t])] = Duty(speed[t])

MotorSafe(m) == trust[m] # "none" => ~ShootThrough(m)

MotorExact(m) ==
  trust[m] = "exact" =>
    /\ leg[m][SecondSide(motor_speeds[m])] = Duty(motor_speeds[m])
    /\ leg[m][FirstSide(motor_speeds[m])] = 0

DriveInv == \A m \in Motors : Crowd(m) /\ Progress(m) /\ MotorSafe(m) /\ MotorExact(m)

(* A task is at one motor at a time.                                       *)
LEMMA OneCurrent ==
  ASSUME TypeOK, NEW t \in Tasks, NEW m \in Motors, NEW k \in Motors,
         Current(t, m), Current(t, k)
  PROVE  m = k
BY MotorsAssumption DEF Current, TypeOK

(* A step that moves no task into or out of a motor, and leaves its legs,  *)
(* speeds and history alone, keeps what holds of it.                       *)
LEMMA SameMotor ==
  ASSUME NEW k \in Motors,
         Crowd(k), Progress(k), MotorSafe(k), MotorExact(k),
         leg'[k] = leg[k], trust'[k] = trust[k], motor_speeds'[k] = motor_speeds[k],
         \A u \in Tasks : Inside(u, k)' =>
           /\ Inside(u, k) /\ clean'[u] = clean[u]
           /\ pc'[u] = pc[u] /\ speed'[u] = speed[u]
  PROVE  Crowd(k)' /\ Progress(k)' /\ MotorSafe(k)' /\ MotorExact(k)'
<1>1. Crowd(k)'
  BY DEF Crowd
<1>2. Progress(k)'
  BY DEF Progress
<1>3. MotorSafe(k)' /\ MotorExact(k)'
  BY DEF MotorSafe, MotorExact, ShootThrough
<1>4. QED
  BY <1>1, <1>2, <1>3

(* DriveInv is inductive.                                                  *)
LEMMA DriveInvHolds == Spec => []DriveInv
<1>1. Init => DriveInv
  <2> SUFFICES ASSUME Init, NEW m \in Motors
               PROVE  Crowd(m) /\ Progress(m) /\ MotorSafe(m) /\ MotorExact(m)
    BY DEF DriveInv
  <2>1. Crowd(m) /\ Progress(m)
    BY DEF Init, Crowd, Progress, Inside
  <2>2. MotorSafe(m) /\ MotorExact(m)
    BY DutyType DEF Init, MotorSafe, MotorExact, ShootThrough, FirstSide, SecondSide, Sides
  <2>3. QED
    BY <2>1, <2>2
<1>2. TypeOK /\ DriveInv /\ [Next]_vars => DriveInv'
  <2> SUFFICES ASSUME TypeOK, DriveInv, [Next]_vars, NEW k \in Motors
               PROVE  Crowd(k)' /\ Progress(k)' /\ MotorSafe(k)' /\ MotorExact(k)'
    BY DEF DriveInv
  <2>0. Crowd(k) /\ Progress(k) /\ MotorSafe(k) /\ MotorExact(k)
    BY DEF DriveInv
  <2> USE DEF taskVars
  <2>1. ASSUME NEW t \in Tasks, NEW mask \in SUBSET (Motors \cup HighBits),
               NEW s \in Speeds, SetMotorsSpeed(t, mask, s)
        PROVE  Crowd(k)' /\ Progress(k)' /\ MotorSafe(k)' /\ MotorExact(k)'
    BY <2>0, <2>1, SameMotor
       DEF SetMotorsSpeed, Start, Answer, TypeOK, Inside, Current
  <2>2. ASSUME NEW t \in Tasks, StopAllMotors(t)
        PROVE  Crowd(k)' /\ Progress(k)' /\ MotorSafe(k)' /\ MotorExact(k)'
    BY <2>0, <2>2, SameMotor DEF StopAllMotors, Start, TypeOK, Inside, Current
  <2>3. ASSUME NEW t \in Tasks, NEW m \in Motors, NEW done \in BOOLEAN,
               ApplyFirst(t, m, done)
        PROVE  Crowd(k)' /\ Progress(k)' /\ MotorSafe(k)' /\ MotorExact(k)'
    <3> DEFINE alone == \A u \in Tasks : ~Inside(u, m)
    <3>1. /\ pc[t] = "apply" /\ pc'[t] = "second"
          /\ \A u \in Tasks \ {t} : pc'[u] = pc[u]
          /\ speed' = speed /\ motor_speeds' = motor_speeds
          /\ \A u \in Tasks \ {t}, j \in Motors : Inside(u, j)' <=> Inside(u, j)
          /\ \A j \in Motors : Inside(t, j)' <=> Current(t, j)
          /\ Current(t, m)
      BY <2>3 DEF ApplyFirst, TypeOK, Inside, Current
    <3>2. /\ clean'[t] <=> done /\ alone
          /\ \A u \in Tasks \ {t} : clean'[u] <=> clean[u] /\ ~Inside(u, m)
      BY <2>3, Zenon DEF ApplyFirst
    <3>3. trust' = [trust EXCEPT ![m] = IF done /\ alone THEN "safe" ELSE "none"]
      BY <2>3 DEF ApplyFirst
    <3>4. /\ \A j \in Motors \ {m} : leg'[j] = leg[j]
          /\ ~done => leg' = leg
          /\ done => leg'[m][FirstSide(speed[t])] = 0
      BY <2>3 DEF ApplyFirst, SetMotorDuty, TypeOK, Sides, FirstSide
    <3>5. CASE k # m
      <4>1. ~Current(t, k)
        BY <3>1, <3>5, OneCurrent
      <4>2. \A u \in Tasks : Inside(u, k) => u # t /\ ~Current(u, m)
        BY <3>1, <3>5, OneCurrent DEF Inside
      <4>3. \A u \in Tasks : Inside(u, k)' =>
              /\ Inside(u, k) /\ pc'[u] = pc[u] /\ speed'[u] = speed[u]
              /\ clean'[u] <=> clean[u]
        BY <3>1, <3>2, <4>1, <4>2 DEF Inside
      <4>4. \A u \in Tasks : Inside(u, k)' => clean'[u] = clean[u]
        BY <2>3, <4>2, <4>3 DEF ApplyFirst, TypeOK, Inside
      <4>5. trust'[k] = trust[k]
        BY <3>3, <3>5 DEF TypeOK
      <4>6. QED
        BY <2>0, <3>1, <3>4, <3>5, <4>3, <4>4, <4>5, SameMotor
    <3>6. CASE k = m /\ done /\ alone
      <4>1. trust'[k] = "safe"
        BY <3>3, <3>6 DEF TypeOK
      <4>2. \A u \in Tasks : Inside(u, k)' => u = t
        BY <3>1, <3>6
      <4>3. Crowd(k)'
        BY <4>1, <4>2 DEF Crowd
      <4>4. Progress(k)'
        BY <3>1, <3>4, <3>6, <4>1, <4>2 DEF Progress
      <4>5. MotorSafe(k)' /\ MotorExact(k)'
        BY <3>4, <3>6, <4>1 DEF MotorSafe, MotorExact, ShootThrough, FirstSide
      <4>6. QED
        BY <4>3, <4>4, <4>5
    <3>7. CASE k = m /\ ~(done /\ alone)
      <4>1. trust'[k] = "none"
        BY <3>3, <3>7 DEF TypeOK
      <4>2. \A u \in Tasks : Inside(u, k)' => ~clean'[u]
        BY <3>1, <3>2, <3>7
      <4>3. Crowd(k)' /\ Progress(k)'
        BY <4>1, <4>2 DEF Crowd, Progress
      <4>4. MotorSafe(k)' /\ MotorExact(k)'
        BY <4>1 DEF MotorSafe, MotorExact
      <4>5. QED
        BY <4>3, <4>4
    <3>8. QED
      BY <3>5, <3>6, <3>7
  <2>4. ASSUME NEW t \in Tasks, NEW m \in Motors, NEW done \in BOOLEAN,
               ApplySecond(t, m, done)
        PROVE  Crowd(k)' /\ Progress(k)' /\ MotorSafe(k)' /\ MotorExact(k)'
    <3>1. /\ pc[t] = "second" /\ pc'[t] = "cache"
          /\ \A u \in Tasks \ {t} : pc'[u] = pc[u] /\ clean'[u] = clean[u]
          /\ clean'[t] <=> clean[t] /\ done
          /\ speed' = speed /\ motor_speeds' = motor_speeds /\ trust' = trust
          /\ \A u \in Tasks, j \in Motors : Inside(u, j)' <=> Inside(u, j)
          /\ Inside(t, m) /\ Current(t, m)
      BY <2>4 DEF ApplySecond, TypeOK, Inside, Current
    <3>2. /\ \A j \in Motors \ {m} : leg'[j] = leg[j]
          /\ ~done => leg' = leg
          /\ done => leg'[m][SecondSide(speed[t])] = Duty(speed[t])
          /\ leg'[m][FirstSide(speed[t])] = leg[m][FirstSide(speed[t])]
      BY <2>4 DEF ApplySecond, SetMotorDuty, TypeOK, Sides, FirstSide, SecondSide
    <3>3. CASE k # m
      <4>1. ~Inside(t, k)
        BY <3>1, <3>3, OneCurrent DEF Inside
      <4>2. \A u \in Tasks : Inside(u, k)' =>
              /\ Inside(u, k) /\ clean'[u] = clean[u]
              /\ pc'[u] = pc[u] /\ speed'[u] = speed[u]
        BY <3>1, <4>1
      <4>3. QED
        BY <2>0, <3>1, <3>2, <3>3, <4>2, SameMotor
    <3>4. CASE k = m /\ trust[m] = "safe"
      <4>1. \A u \in Tasks : Inside(u, k) => u = t
        BY <2>0, <3>1, <3>4 DEF Crowd
      <4>2. leg'[m][FirstSide(speed[t])] = 0
        BY <2>0, <3>1, <3>2, <3>4 DEF Progress
      <4>3. Crowd(k)'
        BY <3>1, <3>4, <4>1 DEF Crowd
      <4>4. Progress(k)'
        BY <3>1, <3>2, <3>4, <4>1, <4>2 DEF Progress
      <4>5. MotorSafe(k)' /\ MotorExact(k)'
        BY <3>1, <3>4, <4>2 DEF MotorSafe, MotorExact, ShootThrough, FirstSide
      <4>6. QED
        BY <4>3, <4>4, <4>5
    <3>5. CASE k = m /\ trust[m] # "safe"
      <4>1. trust[m] = "none"
        BY <2>0, <3>1, <3>5 DEF Crowd, TypeOK, Trust
      <4>2. \A u \in Tasks : Inside(u, k)' => ~clean'[u]
        BY <2>0, <3>1, <3>5 DEF Progress
      <4>3. Crowd(k)' /\ Progress(k)'
        BY <3>1, <3>5, <4>1, <4>2 DEF Crowd, Progress
      <4>4. MotorSafe(k)' /\ MotorExact(k)'
        BY <3>1, <3>5, <4>1 DEF MotorSafe, MotorExact
      <4>5. QED
        BY <4>3, <4>4
    <3>6. QED
      BY <3>3, <3>4, <3>5
  <2>5. ASSUME NEW t \in Tasks, NEW m \in Motors, ApplyCache(t, m)
        PROVE  Crowd(k)' /\ Progress(k)' /\ MotorSafe(k)' /\ MotorExact(k)'
    <3>1. /\ pc[t] = "cache" /\ pc'[t] = "apply"
          /\ \A u \in Tasks \ {t} : pc'[u] = pc[u]
          /\ speed' = speed /\ leg' = leg /\ clean' = clean
          /\ \A u \in Tasks \ {t}, j \in Motors : Inside(u, j)' <=> Inside(u, j)
          /\ \A j \in Motors : ~Inside(t, j)'
          /\ Inside(t, m)
      BY <2>5 DEF ApplyCache, TypeOK, Inside, Current
    <3>2. /\ \A j \in Motors \ {m} : trust'[j] = trust[j] /\ motor_speeds'[j] = motor_speeds[j]
          /\ trust'[m] = IF clean[t] THEN "exact" ELSE trust[m]
          /\ motor_speeds'[m] = speed[t]
      BY <2>5 DEF ApplyCache, TypeOK
    <3>3. CASE k # m
      BY <2>0, <3>1, <3>2, <3>3, SameMotor
    <3>4. CASE k = m /\ clean[t]
      <4>1. /\ trust[m] = "safe"
            /\ leg[m][FirstSide(speed[t])] = 0
            /\ leg[m][SecondSide(speed[t])] = Duty(speed[t])
        BY <2>0, <3>1, <3>4 DEF Progress
      <4>2. \A u \in Tasks : ~Inside(u, k)'
        BY <2>0, <3>1, <3>4, <4>1 DEF Crowd
      <4>3. Crowd(k)' /\ Progress(k)'
        BY <4>2 DEF Crowd, Progress
      <4>4. MotorSafe(k)' /\ MotorExact(k)'
        BY <3>1, <3>2, <3>4, <4>1 DEF MotorSafe, MotorExact, ShootThrough, FirstSide
      <4>5. QED
        BY <4>3, <4>4
    <3>5. CASE k = m /\ ~clean[t]
      <4>1. trust'[m] = trust[m] /\ trust[m] # "exact"
        BY <2>0, <3>1, <3>2, <3>5 DEF Crowd
      <4>2. Crowd(k)'
        BY <2>0, <3>1, <3>5, <4>1 DEF Crowd
      <4>3. Progress(k)'
        BY <2>0, <3>1, <3>5, <4>1 DEF Progress
      <4>4. MotorSafe(k)' /\ MotorExact(k)'
        BY <2>0, <3>1, <3>5, <4>1 DEF MotorSafe, MotorExact, ShootThrough
      <4>5. QED
        BY <4>2, <4>3, <4>4
    <3>6. QED
      BY <3>3, <3>4, <3>5
  <2>6. ASSUME NEW t \in Tasks, Done(t) \/ Reply(t)
        PROVE  Crowd(k)' /\ Progress(k)' /\ MotorSafe(k)' /\ MotorExact(k)'
    BY <2>0, <2>6, SameMotor DEF Done, Reply, Answer, TypeOK, Inside, Current
  <2>7. CASE Restart
    <3>1. Crowd(k)' /\ Progress(k)'
      BY <2>7 DEF Restart, Crowd, Progress, Inside
    <3>2. CASE \A j \in Motors, side \in Sides : leg'[j][side] = 0
      <4>1. trust'[k] = "exact" /\ motor_speeds'[k] = 0
        BY <2>7, <3>2 DEF Restart
      <4>2. MotorSafe(k)' /\ MotorExact(k)'
        BY <3>2, <4>1, DutyType
           DEF MotorSafe, MotorExact, ShootThrough, FirstSide, SecondSide, Sides
      <4>3. QED
        BY <3>1, <4>2
    <3>3. CASE ~\A j \in Motors, side \in Sides : leg'[j][side] = 0
      <4>1. leg' = leg
        BY <2>7, <3>3 DEF Restart
      <4>2. trust'[k] = IF trust[k] = "none" THEN "none" ELSE "safe"
        BY <2>7, <3>3 DEF Restart
      <4>3. MotorSafe(k)' /\ MotorExact(k)'
        BY <2>0, <4>1, <4>2 DEF MotorSafe, MotorExact, ShootThrough
      <4>4. QED
        BY <3>1, <4>3
    <3>4. QED
      BY <3>2, <3>3
  <2>8. CASE UNCHANGED vars
    BY <2>0, <2>8, SameMotor DEF vars, Inside, Current
  <2>9. QED
    BY <2>1, <2>2, <2>3, <2>4, <2>5, <2>6, <2>7, <2>8 DEF Next, Handlers, Apply
<1>3. QED
  BY <1>1, <1>2, TypeCorrect, PTL DEF Spec

(* An undisturbed first write prevents shoot-through from then on.         *)
THEOREM NoShootThroughHolds == Spec => []NoShootThrough
<1>1. DriveInv => NoShootThrough
  BY DEF DriveInv, MotorSafe, NoShootThrough
<1>2. QED
  BY <1>1, DriveInvHolds, PTL

(* An undisturbed pass makes the cached speed what the legs do.            *)
THEOREM CacheMatchesHolds == Spec => []CacheMatches
<1>1. DriveInv => CacheMatches
  BY DEF DriveInv, MotorExact, CacheMatches
<1>2. QED
  BY <1>1, DriveInvHolds, PTL
=============================================================================
