---------------------------- MODULE FirmwareProofs ----------------------------
(***************************************************************************)
(* Theorems about Firmware: for any tasks, texts, networks, faults and     *)
(* power cuts.                                                             *)
(***************************************************************************)
EXTENDS Firmware, TLAPS

Credentials == {"ssid", "password"}
WPCs == {"idle", "assign", "assigning", "open", "put", "wipe", "done"}

(* TypeOK, in the parts that steps change together.                        *)
BootTyped ==
  /\ status \in [Services -> {"UNINITIALIZED", "INITIALIZED", "INITIALIZED_FAILED", "STARTED"}]
  /\ turn \in 1..7
  /\ step \in {"initialize", "poll", "start", "attempt", "fall_back"}

CountsTyped ==
  /\ polls \in 0..BoardRetries
  /\ listening \subseteq FirmwareTasks
  /\ loaded \in BOOLEAN /\ cuts \in 0..MaxCuts /\ commands \in 0..MaxCommands

HandlersTyped ==
  /\ wpc \in [Tasks -> WPCs]
  /\ op \in [Tasks -> {"set", "reset"}]
  /\ want \in [Tasks -> [Keys -> Texts]]
  /\ left \in [Tasks -> SUBSET Keys]
  /\ clean \in [Tasks -> BOOLEAN]
  /\ owed \in PairType \cup {Unknown}

SettingsTyped ==
  /\ field \in [Keys -> Texts] /\ nvs \in [Keys -> Texts]
  /\ link \in [mode : {"none", "sta", "ap"}, ssid : Texts]
  /\ tries \in 0..MaxAttempts

Typed == BootTyped /\ CountsTyped /\ HandlersTyped /\ SettingsTyped

(* The services get their turns in order, and each is decided when it has  *)
(* had its own.                                                            *)
Turns ==
  /\ turn = 7 => step = "initialize"
  /\ step = "poll" => turn = 2
  /\ step \in {"attempt", "fall_back"} => turn = 6
  /\ \A i \in 1..6 :
       /\ i < turn => status[Order[i]] # "UNINITIALIZED"
       /\ i > turn \/ (i = turn /\ step \in {"initialize", "poll"})
            => status[Order[i]] = "UNINITIALIZED"
       /\ i = turn /\ step \notin {"initialize", "poll"} => status[Order[i]] = "INITIALIZED"
  /\ turn > 3 /\ status["board"] = "STARTED" => status["motor_servo"] = "STARTED"

Booting ==
  /\ listening # {} => turn = 7
  /\ loaded => turn = 6 /\ step # "initialize"
  /\ status["wifi"] = "STARTED" <=> link # NoLink

(* While setup() runs no handler does; what it has loaded is what NVS has. *)
Quiet ==
  /\ listening = {} => \A t \in Tasks : wpc[t] = "idle"
  /\ loaded => field = nvs

(* A pair is owed only between handlers, and NVS has it.                   *)
Owed ==
  owed # Unknown => PairOf(nvs) = owed /\ \A t \in Tasks : wpc[t] = "idle"

(* How far a handler is that runs alone and without faults.                *)
Assigned(t) == \A k \in Credentials : field[k] = want[t][k]
InNvs(t) == \A k \in Credentials : nvs[k] = CString[want[t][k]]

Setting(t) ==
  /\ wpc[t] # "wipe"
  /\ wpc[t] \in {"assign", "assigning"} =>
       /\ left[t] \subseteq Credentials
       /\ \A k \in Credentials \ left[t] : field[k] = want[t][k]
  /\ wpc[t] \in {"open", "put"} => Assigned(t)
  /\ wpc[t] = "put" => \A k \in Credentials \ left[t] : nvs[k] = CString[want[t][k]]
  /\ wpc[t] = "done" => InNvs(t)

Resetting(t) ==
  /\ want[t] = Defaults
  /\ wpc[t] # "put"
  /\ wpc[t] = "wipe" => \A k \in Credentials \ left[t] : nvs[k] = Default
  /\ wpc[t] \in {"assign", "assigning", "done"} => InNvs(t)

Alone(t) == \A u \in Tasks \ {t} : wpc[u] = "idle"

CleanHandler(t) ==
  clean[t] => /\ wpc[t] # "idle" /\ Alone(t)
              /\ IF op[t] = "set" THEN Setting(t) ELSE Resetting(t)

(* No handler is about to change the access point.                         *)
ApWanted == \A t \in Tasks : \A k \in Keys \ Credentials : want[t][k] = Default

HandlersInv == Owed /\ (\A t \in Tasks : CleanHandler(t)) /\ ApWanted /\ AccessPointKnown

FirmwareInv == Typed /\ Turns /\ Booting /\ Quiet /\ HandlersInv

-----------------------------------------------------------------------------

LEMMA OrderIs ==
  /\ Len(Order) = 6
  /\ Order[1] = "ui" /\ Order[2] = "board" /\ Order[3] = "motor_servo"
  /\ Order[4] = "led" /\ Order[5] = "amaker_bot" /\ Order[6] = "wifi"
  /\ \A i \in 1..6 : Order[i] \in Services
  /\ \A s \in Services : \E i \in 1..6 : Order[i] = s
  /\ \A i, j \in 1..6 : Order[i] = Order[j] => i = j
BY DEF Order, Services

LEMMA TextsTyped ==
  /\ Default \in Texts /\ Torn \in Texts /\ Empty \in Texts /\ Default # Torn
  /\ CString[Default] = Default /\ \A x \in Texts : CString[x] \in Texts
  /\ Defaults \in [Keys -> Texts] /\ \A k \in Keys : Defaults[k] = Default
  /\ NoLink \in [mode : {"none", "sta", "ap"}, ssid : Texts]
BY TextsAssumption, CStringAssumption DEF Defaults, NoLink

LEMMA PairTyped ==
  ASSUME NEW f \in [Keys -> Texts]
  PROVE  PairOf(f) \in PairType
BY DEF PairOf, PairType, Keys

LEMMA FirmwareInit == Init => FirmwareInv
<1> SUFFICES ASSUME Init PROVE FirmwareInv
  OBVIOUS
<1> USE DEF Init, WiFiInit
<1>1. BootTyped
  BY DEF BootTyped, AllUninitialized
<1>2. CountsTyped
  <2>1. 0 \in 0..BoardRetries /\ 0 \in 0..MaxCuts /\ 0 \in 0..MaxCommands
    BY BoundsAssumption
  <2>2. QED
    BY <2>1 DEF CountsTyped
<1>3. HandlersTyped
  <2>1. owed \in PairType
    BY TextsTyped, PairTyped
  <2>2. want \in [Tasks -> [Keys -> Texts]]
    BY TextsTyped DEF NoWants
  <2>3. QED
    BY <2>1, <2>2 DEF HandlersTyped, AllIdle, NoOps, NoneLeft, NoneClean, WPCs
<1>4. SettingsTyped
  BY TextsTyped, MaxAttemptsAssumption DEF SettingsTyped
<1>5. Turns
  BY OrderIs DEF Turns, AllUninitialized, Services
<1>6. Booting /\ Quiet
  BY DEF Booting, Quiet, AllUninitialized, Services, AllIdle
<1>7. HandlersInv
  <2>1. Owed
    BY DEF Owed, AllIdle
  <2>2. \A t \in Tasks : CleanHandler(t)
    BY DEF CleanHandler, NoneClean
  <2>3. ApWanted
    BY TextsTyped DEF ApWanted, NoWants
  <2>4. AccessPointKnown
    BY TextsTyped DEF AccessPointKnown, NoLink
  <2>5. QED
    BY <2>1, <2>2, <2>3, <2>4 DEF HandlersInv
<1>8. QED
  BY <1>1, <1>2, <1>3, <1>4, <1>5, <1>6, <1>7 DEF FirmwareInv, Typed

-----------------------------------------------------------------------------
(* setup().                                                                *)

(* What start_service() may do to its service and to the turns.            *)
Waits ==
  /\ UNCHANGED <<status, turn>>
  /\ \/ step \in {"initialize", "poll"} /\ turn = 2 /\ step' \in {step, "poll"}
     \/ step \in {"start", "attempt"} /\ turn = 6 /\ step' \in {"attempt", "fall_back"}

Moves ==
  \/ Waits
  \/ step \in {"initialize", "poll"} /\ Initialized
  \/ /\ step \in {"initialize", "poll"} /\ InitializedFailed
     /\ Service = "motor_servo" => status["board"] # "STARTED"
  \/ step \in {"start", "attempt", "fall_back"} /\ Started
  \/ step = "fall_back" /\ NextService /\ UNCHANGED status

LEMMA MovesKeepTurns ==
  ASSUME BootTyped, Turns, turn <= 6, Moves
  PROVE  BootTyped' /\ Turns'
<1>1. Service \in Services /\ Service = Order[turn] /\ turn \in 1..6
  BY OrderIs DEF BootTyped, Service
<1>2. "board" \in Services /\ "motor_servo" \in Services
  BY DEF Services
<1>3. CASE Waits
  BY <1>3, OrderIs DEF Waits, BootTyped, Turns
<1>4. CASE step \in {"initialize", "poll"} /\ Initialized
  <2>1. status' = [status EXCEPT ![Service] = "INITIALIZED"] /\ step' = "start" /\ turn' = turn
    BY <1>4 DEF Initialized, SetStatus
  <2>2. status'[Service] = "INITIALIZED" /\ \A s \in Services \ {Service} : status'[s] = status[s]
    BY <1>1, <2>1 DEF BootTyped
  <2>3. BootTyped'
    BY <1>1, <2>1 DEF BootTyped
  <2>4. Turns'
    BY <1>1, <1>2, <2>1, <2>2, OrderIs DEF Turns
  <2>5. QED
    BY <2>3, <2>4
<1>5. ASSUME NEW s \in {"INITIALIZED_FAILED", "STARTED"}, SetStatus(s), NextService,
             Service = "motor_servo" /\ status["board"] = "STARTED" => s = "STARTED"
      PROVE  BootTyped' /\ Turns'
  <2>1. /\ status' = [status EXCEPT ![Service] = s]
        /\ step' = "initialize" /\ turn' = turn + 1
    BY <1>5 DEF NextService, SetStatus
  <2>2. status'[Service] = s /\ \A u \in Services \ {Service} : status'[u] = status[u]
    BY <1>1, <2>1 DEF BootTyped
  <2>3. BootTyped'
    BY <1>1, <2>1 DEF BootTyped
  <2>4. \A i \in 1..6 :
          /\ i < turn' => status'[Order[i]] # "UNINITIALIZED"
          /\ i >= turn' => status'[Order[i]] = "UNINITIALIZED"
    <3> SUFFICES ASSUME NEW i \in 1..6
                 PROVE  /\ i < turn' => status'[Order[i]] # "UNINITIALIZED"
                        /\ i >= turn' => status'[Order[i]] = "UNINITIALIZED"
      OBVIOUS
    <3>1. CASE i = turn
      BY <1>1, <2>1, <2>2, <3>1
    <3>2. CASE i # turn
      <4>1. Order[i] \in Services \ {Service} /\ status'[Order[i]] = status[Order[i]]
        BY <1>1, <2>2, <3>2, OrderIs
      <4>2. QED
        BY <1>1, <2>1, <3>2, <4>1 DEF Turns
    <3>3. QED
      BY <3>1, <3>2
  <2>5. turn' > 3 /\ status'["board"] = "STARTED" => status'["motor_servo"] = "STARTED"
    <3>1. CASE turn = 3
      BY <1>1, <1>2, <1>5, <2>2, <3>1, OrderIs
    <3>2. CASE turn > 3
      BY <1>1, <1>2, <2>2, <3>2, OrderIs DEF Turns
    <3>3. QED
      BY <1>1, <2>1, <3>1, <3>2
  <2>6. QED
    BY <1>1, <2>1, <2>3, <2>4, <2>5 DEF Turns
<1>6. CASE step = "fall_back" /\ NextService /\ UNCHANGED status
  <2>1. turn = 6 /\ turn' = 7 /\ step' = "initialize"
    BY <1>6 DEF Turns, NextService
  <2>2. QED
    BY <1>6, <2>1, OrderIs DEF Turns, BootTyped
<1>7. QED
  BY <1>3, <1>4, <1>5, <1>6 DEF Moves, Started, InitializedFailed

(* The handlers are idle, and what they and the boots have in common stays.*)
LEMMA IdleHandlersKept ==
  ASSUME FirmwareInv, \A t \in Tasks : wpc[t] = "idle", UNCHANGED <<nvs, handlerVars, owed>>
  PROVE  /\ HandlersTyped' /\ Owed' /\ (\A t \in Tasks : CleanHandler(t)') /\ ApWanted'
         /\ \A t \in Tasks : wpc'[t] = "idle"
<1>1. UNCHANGED <<wpc, op, want, left, clean>>
  BY DEF handlerVars
<1>2. \A t \in Tasks : ~clean[t]
  BY DEF FirmwareInv, HandlersInv, CleanHandler
<1>3. \A t \in Tasks : CleanHandler(t)'
  BY <1>1, <1>2 DEF CleanHandler
<1>4. QED
  BY <1>1, <1>3 DEF FirmwareInv, HandlersInv, Typed, HandlersTyped, Owed, ApWanted

(* What holds of every step of setup().                                    *)
LEMMA SetupMoves ==
  ASSUME FirmwareInv, setup
  PROVE  /\ turn \in 1..6 /\ listening = {} /\ (\A t \in Tasks : wpc[t] = "idle")
         /\ UNCHANGED <<nvs, handlerVars, owed, listening, cuts, commands>>
         /\ Moves
<1> USE DEF FirmwareInv
<1>1. turn \in 1..6
  BY OrderIs DEF setup, InitializeOther, InitializeMotorServo, StartOther, Connect, TryToConnect,
                 ProbeBoard, PollBoard, InitializeAmakerBot, InitializeWifi, EndConnect, FallBack,
                 At, Typed, BootTyped
<1>2. listening = {} /\ \A t \in Tasks : wpc[t] = "idle"
  BY <1>1 DEF Booting, Quiet
<1>3. UNCHANGED <<nvs, handlerVars, owed, listening, cuts, commands>>
  BY DEF setup, InitializeOther, InitializeMotorServo, StartOther, Connect, TryToConnect,
         ProbeBoard, PollBoard, InitializeAmakerBot, InitializeWifi, EndConnect, FallBack,
         StayingUp, wifiVars, loadSettings
<1>4. Moves
  <2>1. CASE InitializeOther
    BY <2>1 DEF InitializeOther, Moves, At
  <2>2. ASSUME NEW ok \in BOOLEAN, ProbeBoard(ok) PROVE Moves
    BY <1>1, <2>2, OrderIs DEF ProbeBoard, Moves, Waits, At, Service
  <2>3. ASSUME NEW ok \in BOOLEAN, PollBoard(ok) PROVE Moves
    BY <1>1, <2>3, OrderIs DEF PollBoard, Moves, Waits, At, Service
  <2>4. CASE InitializeMotorServo
    BY <2>4 DEF InitializeMotorServo, Moves, At
  <2>5. ASSUME NEW ok \in BOOLEAN, InitializeAmakerBot(ok) PROVE Moves
    BY <2>5 DEF InitializeAmakerBot, Moves, At
  <2>6. ASSUME NEW ok \in BOOLEAN, InitializeWifi(ok) PROVE Moves
    BY <2>6 DEF InitializeWifi, Moves, At
  <2>7. CASE StartOther
    BY <2>7 DEF StartOther, Moves, At
  <2>8. CASE Connect
    BY <1>1, <2>8, OrderIs DEF Connect, Moves, Waits, At, Service
  <2>9. CASE TryToConnect
    BY <1>1, <2>9, OrderIs DEF TryToConnect, Moves, Waits, At, Service
  <2>10. ASSUME NEW ok \in BOOLEAN, EndConnect(ok) PROVE Moves
    BY <1>1, <2>10, OrderIs DEF EndConnect, Moves, Waits, At, Service
  <2>11. ASSUME NEW ok \in BOOLEAN, FallBack(ok) PROVE Moves
    BY <2>11 DEF FallBack, Moves, At
  <2>12. QED
    BY <2>1, <2>2, <2>3, <2>4, <2>5, <2>6, <2>7, <2>8, <2>9, <2>10, <2>11 DEF setup
<1>5. QED
  BY <1>1, <1>2, <1>3, <1>4

(* The services before the WiFi service.                                   *)
LEMMA OtherServices ==
  ASSUME FirmwareInv, setup, UNCHANGED <<wifiVars, loaded>>, turn # 6, polls' \in 0..BoardRetries
  PROVE  FirmwareInv'
<1> USE DEF FirmwareInv
<1>1. BootTyped' /\ Turns'
  BY SetupMoves, MovesKeepTurns DEF Typed, BootTyped
<1>2. CountsTyped' /\ SettingsTyped'
  BY SetupMoves DEF Typed, CountsTyped, SettingsTyped, wifiVars
<1>3. HandlersTyped' /\ HandlersInv' /\ Quiet'
  BY SetupMoves, IdleHandlersKept
  DEF HandlersInv, Quiet, Booting, AccessPointKnown, wifiVars
<1>4. status'["wifi"] = status["wifi"]
  <2>1. Service \in Services /\ Service # "wifi"
    BY SetupMoves, OrderIs DEF Service
  <2>2. "wifi" \in Services
    BY DEF Services
  <2>3. QED
    BY SetupMoves, <2>1, <2>2
    DEF Moves, Waits, Initialized, InitializedFailed, Started, SetStatus, Typed, BootTyped
<1>5. Booting'
  BY SetupMoves, <1>4 DEF Booting, wifiVars
<1>6. QED
  BY <1>1, <1>2, <1>3, <1>5 DEF Typed

LEMMA WifiServiceFacts ==
  ASSUME FirmwareInv, setup, turn = 6
  PROVE  /\ Service = "wifi" /\ "wifi" \in Services
         /\ BootTyped' /\ Turns' /\ link = NoLink
         /\ HandlersTyped' /\ Owed' /\ (\A t \in Tasks : CleanHandler(t)') /\ ApWanted'
         /\ \A t \in Tasks : wpc'[t] = "idle"
         /\ nvs' = nvs /\ listening' = {}
<1> USE DEF FirmwareInv
<1>1. Service = "wifi" /\ "wifi" \in Services
  BY OrderIs DEF Service, Services
<1>2. BootTyped' /\ Turns'
  BY SetupMoves, MovesKeepTurns
  DEF Typed
<1>3. link = NoLink
  BY OrderIs DEF Turns, Booting
<1>4. QED
  BY <1>1, <1>2, <1>3, SetupMoves, IdleHandlersKept

(* The WiFi service: settings loaded, connection attempts, access point.   *)
LEMMA WifiService ==
  ASSUME FirmwareInv, setup, turn = 6,
         \/ Connect \/ TryToConnect
         \/ \E ok \in BOOLEAN : InitializeWifi(ok) \/ EndConnect(ok) \/ FallBack(ok)
  PROVE  FirmwareInv'
<1> USE DEF FirmwareInv
<1>1. UNCHANGED <<polls, listening, cuts, commands>>
  BY SetupMoves DEF Connect, TryToConnect, InitializeWifi, EndConnect, FallBack
<1>2. SUFFICES /\ loaded' \in BOOLEAN /\ SettingsTyped' /\ AccessPointKnown'
               /\ loaded' => turn' = 6 /\ step' # "initialize" /\ field' = nvs'
               /\ status'["wifi"] = "STARTED" <=> link' # NoLink
  <2>1. CountsTyped'
    BY <1>1 DEF Typed, CountsTyped
  <2>2. Booting' /\ Quiet' /\ HandlersInv'
    BY WifiServiceFacts DEF Booting, Quiet, HandlersInv
  <2>3. QED
    BY <2>1, <2>2, WifiServiceFacts DEF Typed
<1>3. CASE Connect \/ TryToConnect
  <2>1. UNCHANGED <<field, nvs, link, loaded, status, turn>>
    BY <1>3 DEF Connect, TryToConnect, Attempt, wifiVars
  <2>2. step' \in {"attempt", "fall_back"}
    <3>1. CASE Connect
      BY <3>1, Zenon DEF Connect
    <3>2. CASE TryToConnect
      BY <3>2 DEF TryToConnect, At
    <3>3. QED
      BY <1>3, <3>1, <3>2
  <2>3. tries' \in 0..MaxAttempts
    <3>1. CASE UNCHANGED tries
      BY <3>1 DEF Typed, SettingsTyped
    <3>2. CASE tries < MaxAttempts /\ tries' = tries + 1
      BY <3>2, MaxAttemptsAssumption DEF Typed, SettingsTyped
    <3>3. QED
      BY <1>3, <3>1, <3>2 DEF Connect, TryToConnect, Attempt, wifiVars
  <2>4. QED
    BY <2>1, <2>2, <2>3 DEF Typed, CountsTyped, SettingsTyped, HandlersInv, AccessPointKnown, Booting, Quiet
<1>4. ASSUME NEW ok \in BOOLEAN, InitializeWifi(ok)
      PROVE  /\ loaded' \in BOOLEAN /\ SettingsTyped' /\ AccessPointKnown'
             /\ loaded' => turn' = 6 /\ step' # "initialize" /\ field' = nvs'
             /\ status'["wifi"] = "STARTED" <=> link' # NoLink
  <2>1. /\ field' = (IF ok THEN nvs ELSE field) /\ UNCHANGED <<nvs, link, tries>>
        /\ loaded' = ok /\ turn' = 6 /\ step' = "start"
        /\ status' = [status EXCEPT !["wifi"] = "INITIALIZED"]
    BY <1>4, WifiServiceFacts DEF InitializeWifi, loadSettings, Initialized, SetStatus
  <2>2. status'["wifi"] = "INITIALIZED"
    BY <2>1, WifiServiceFacts DEF Typed, BootTyped
  <2>3. SettingsTyped' /\ AccessPointKnown'
    BY <2>1 DEF Typed, SettingsTyped, HandlersInv, AccessPointKnown
  <2>4. QED
    BY <2>1, <2>2, <2>3, WifiServiceFacts
<1>5. ASSUME NEW up \in BOOLEAN, EndConnect(up)
      PROVE  /\ loaded' \in BOOLEAN /\ SettingsTyped' /\ AccessPointKnown'
             /\ loaded' => turn' = 6 /\ step' # "initialize" /\ field' = nvs'
             /\ status'["wifi"] = "STARTED" <=> link' # NoLink
  <2>1. /\ UNCHANGED <<field, nvs>> /\ tries' = 0
        /\ link' = IF up THEN [mode |-> "sta", ssid |-> field["ssid"]] ELSE link
    BY <1>5 DEF EndConnect, Verdict
  <2>2. SettingsTyped' /\ AccessPointKnown'
    BY <2>1, MaxAttemptsAssumption
    DEF Typed, SettingsTyped, HandlersInv, AccessPointKnown, Keys
  <2>3. CASE up
    <3>1. loaded' = FALSE
      BY <1>5, <2>3 DEF EndConnect
    <3>2. status'["wifi"] = "STARTED"
      BY <1>5, <2>3, WifiServiceFacts DEF EndConnect, Started, SetStatus, Typed, BootTyped
    <3>3. link' # NoLink
      BY <2>1, <2>3 DEF NoLink
    <3>4. QED
      BY <2>2, <3>1, <3>2, <3>3
  <2>4. CASE ~up
    <3>1. (loaded' <=> loaded) /\ loaded' \in BOOLEAN
      BY <1>5, <2>4, Zenon DEF EndConnect
    <3>2. UNCHANGED <<status, turn, link>> /\ step' = "fall_back"
      BY <1>5, <2>1, <2>4 DEF EndConnect
    <3>3. QED
      BY <2>1, <2>2, <3>1, <3>2 DEF Booting, Quiet
  <2>5. QED
    BY <2>3, <2>4
<1>6. ASSUME NEW ok \in BOOLEAN, FallBack(ok)
      PROVE  /\ loaded' \in BOOLEAN /\ SettingsTyped' /\ AccessPointKnown'
             /\ loaded' => turn' = 6 /\ step' # "initialize" /\ field' = nvs'
             /\ status'["wifi"] = "STARTED" <=> link' # NoLink
  <2>1. /\ UNCHANGED <<field, nvs, tries>> /\ loaded' = FALSE
        /\ link' = IF ok THEN [mode |-> "ap", ssid |-> field["ap_ssid"]] ELSE link
    BY <1>6 DEF FallBack, open_access_point
  <2>2. SettingsTyped' /\ AccessPointKnown'
    BY <2>1 DEF Typed, SettingsTyped, HandlersInv, AccessPointKnown, Keys
  <2>3. CASE ok
    <3>1. status'["wifi"] = "STARTED"
      BY <1>6, <2>3, WifiServiceFacts DEF FallBack, Started, SetStatus, Typed, BootTyped
    <3>2. link' # NoLink
      BY <2>1, <2>3 DEF NoLink
    <3>3. QED
      BY <2>1, <2>2, <3>1, <3>2
  <2>4. CASE ~ok
    <3>1. UNCHANGED <<status, link>>
      BY <1>6, <2>1, <2>4 DEF FallBack
    <3>2. QED
      BY <2>1, <2>2, <3>1 DEF Booting
  <2>5. QED
    BY <2>3, <2>4
<1>7. QED
  BY <1>3, <1>4, <1>5, <1>6

LEMMA SetupKeeps ==
  ASSUME FirmwareInv, setup
  PROVE  FirmwareInv'
<1>1. CASE \/ InitializeOther \/ InitializeMotorServo \/ StartOther
           \/ \E ok \in BOOLEAN : ProbeBoard(ok) \/ PollBoard(ok) \/ InitializeAmakerBot(ok)
  <2>1. UNCHANGED <<wifiVars, loaded>>
    BY <1>1 DEF InitializeOther, InitializeMotorServo, StartOther, ProbeBoard, PollBoard,
                InitializeAmakerBot
  <2>2. turn # 6
    BY <1>1, OrderIs DEF InitializeOther, InitializeMotorServo, StartOther, ProbeBoard, PollBoard,
                InitializeAmakerBot, At, Service
  <2>3. polls' \in 0..BoardRetries
    BY <1>1, BoundsAssumption
    DEF InitializeOther, InitializeMotorServo, StartOther, ProbeBoard, PollBoard,
        InitializeAmakerBot, FirmwareInv, Typed, CountsTyped
  <2>4. QED
    BY <2>1, <2>2, <2>3, OtherServices
<1>2. CASE \/ Connect \/ TryToConnect
           \/ \E ok \in BOOLEAN : InitializeWifi(ok) \/ EndConnect(ok) \/ FallBack(ok)
  <2>1. turn = 6
    BY <1>2, SetupMoves, OrderIs
    DEF Connect, TryToConnect, InitializeWifi, EndConnect, FallBack, At, Service
  <2>2. QED
    BY <1>2, <2>1, WifiService
<1>3. QED
  BY <1>1, <1>2 DEF setup

-----------------------------------------------------------------------------
(* Handlers.                                                               *)

(* A handler runs when servers listen, and nothing is owed meanwhile.      *)
LEMMA BusyHandler ==
  ASSUME FirmwareInv, NEW t \in Tasks, wpc[t] # "idle"
  PROVE  /\ listening # {} /\ turn = 7 /\ loaded = FALSE
         /\ owed = Unknown
         /\ \A u \in Tasks \ {t} : ~clean[u]
  BY DEF FirmwareInv, Quiet, Booting, HandlersInv, Owed, CleanHandler, Alone, Typed, CountsTyped

(* A step of a handler is right if its own part of the invariant is.       *)
LEMMA HandlerFrame ==
  ASSUME FirmwareInv, NEW t \in Tasks, wpc[t] # "idle", wpc'[t] # "idle",
         UNCHANGED <<bootVars, link, tries, op, want, owed>>,
         field' \in [Keys -> Texts], nvs' \in [Keys -> Texts],
         \A k \in Keys \ Credentials : field'[k] = Default /\ nvs'[k] = Default,
         wpc' \in [Tasks -> WPCs], \A u \in Tasks \ {t} : wpc'[u] = wpc[u],
         left' \in [Tasks -> SUBSET Keys],
         clean' \in [Tasks -> BOOLEAN], \A u \in Tasks : clean'[u] => clean[u],
         clean[t] /\ clean'[t] => IF op[t] = "set" THEN Setting(t)' ELSE Resetting(t)'
  PROVE  FirmwareInv'
<1> USE DEF FirmwareInv
<1>1. HandlersTyped' /\ SettingsTyped'
  BY DEF Typed, HandlersTyped, SettingsTyped
<1>2. BootTyped' /\ CountsTyped' /\ Turns' /\ Booting'
  BY DEF Typed, BootTyped, CountsTyped, Turns, Booting, bootVars
<1>3. Quiet' /\ Owed'
  BY BusyHandler DEF Quiet, Owed, bootVars
<1>4. \A u \in Tasks : CleanHandler(u)'
  <2>1. \A u \in Tasks \ {t} : CleanHandler(u)'
    BY BusyHandler DEF CleanHandler
  <2>2. CleanHandler(t)'
    BY DEF HandlersInv, CleanHandler, Alone
  <2>3. QED
    BY <2>1, <2>2
<1>5. ApWanted' /\ AccessPointKnown'
  BY DEF HandlersInv, ApWanted, AccessPointKnown, Credentials
<1>6. QED
  BY <1>1, <1>2, <1>3, <1>4, <1>5 DEF Typed, HandlersInv

(* What is true of the handler before its step.                            *)
LEMMA HandlerFacts ==
  ASSUME FirmwareInv, NEW t \in Tasks, NEW k \in Keys
  PROVE  /\ want[t][k] \in Texts /\ field[k] \in Texts /\ nvs[k] \in Texts
         /\ CString[field[k]] \in Texts /\ left[t] \in SUBSET Keys /\ clean[t] \in BOOLEAN
         /\ k \notin Credentials => want[t][k] = Default /\ field[k] = Default /\ nvs[k] = Default
         /\ clean[t] => IF op[t] = "set" THEN Setting(t) ELSE Resetting(t)
         /\ field = [field EXCEPT ![k] = field[k]] /\ nvs = [nvs EXCEPT ![k] = nvs[k]]
         /\ wpc[t] \in WPCs /\ op[t] \in {"set", "reset"}
         /\ clean[t] => Alone(t)
<1> USE DEF FirmwareInv
<1>1. want[t][k] \in Texts /\ field[k] \in Texts /\ nvs[k] \in Texts /\ CString[field[k]] \in Texts
  BY TextsTyped DEF Typed, HandlersTyped, SettingsTyped
<1>2. left[t] \in SUBSET Keys /\ clean[t] \in BOOLEAN /\ wpc[t] \in WPCs /\ op[t] \in {"set", "reset"}
  BY DEF Typed, HandlersTyped
<1>3. k \notin Credentials => want[t][k] = Default /\ field[k] = Default /\ nvs[k] = Default
  BY DEF HandlersInv, ApWanted, AccessPointKnown, Credentials
<1>4. clean[t] => Alone(t) /\ IF op[t] = "set" THEN Setting(t) ELSE Resetting(t)
  BY DEF HandlersInv, CleanHandler
<1>5. field = [field EXCEPT ![k] = field[k]] /\ nvs = [nvs EXCEPT ![k] = nvs[k]]
  BY DEF Typed, SettingsTyped
<1>6. QED
  BY <1>1, <1>2, <1>3, <1>4, <1>5

(* assign(): the strings of a pair or of all five settings.                *)
LEMMA AssigningSteps ==
  ASSUME FirmwareInv, NEW t \in Tasks, NEW k \in Keys, AssignBegin(t, k) \/ AssignEnd(t, k),
         UNCHANGED bootVars
  PROVE  FirmwareInv'
<1>1. wpc[t] \in {"assign", "assigning"} /\ k \in left[t]
      /\ UNCHANGED <<nvs, link, tries, op, want, clean, owed>>
  BY DEF AssignBegin, AssignEnd, Goto, Current
<1>2. /\ nvs \in [Keys -> Texts] /\ field \in [Keys -> Texts]
      /\ wpc \in [Tasks -> WPCs] /\ left \in [Tasks -> SUBSET Keys] /\ clean \in [Tasks -> BOOLEAN]
      /\ \A j \in Keys \ Credentials : field[j] = Default /\ nvs[j] = Default /\ want[t][j] = Default
  BY HandlerFacts DEF FirmwareInv, Typed, HandlersTyped, SettingsTyped
<1>3. CASE AssignBegin(t, k)
  <2>1. /\ field' = [field EXCEPT ![k] = IF field[k] = want[t][k] THEN field[k] ELSE Torn]
        /\ wpc' = [wpc EXCEPT ![t] = "assigning"] /\ left' = left
    BY <1>3 DEF AssignBegin, Goto
  <2>2. field' \in [Keys -> Texts]
    BY <1>2, <2>1, TextsTyped
  <2>3. \A j \in Keys \ Credentials : field'[j] = Default
    BY <1>2, <2>1
  <2>4. /\ wpc' \in [Tasks -> WPCs] /\ wpc'[t] = "assigning"
        /\ \A u \in Tasks \ {t} : wpc'[u] = wpc[u]
    BY <1>2, <2>1 DEF WPCs
  <2>5. clean[t] => IF op[t] = "set" THEN Setting(t)' ELSE Resetting(t)'
    <3>1. CASE op[t] = "set"
      BY <1>1, <1>2, <2>1, <2>4, <3>1, HandlerFacts DEF Setting, Assigned, InNvs
    <3>2. CASE op[t] # "set"
      BY <1>1, <1>2, <2>1, <2>4, <3>2, HandlerFacts DEF Resetting, InNvs
    <3>3. QED
      BY <3>1, <3>2
  <2>6. QED
    BY <1>1, <1>2, <2>1, <2>2, <2>3, <2>4, <2>5, HandlerFrame
<1>4. CASE AssignEnd(t, k)
  <2>1. PICK v \in {want[t][k]} \cup (IF AssigningToo(t, k) /\ field[k] = Torn THEN {Torn} ELSE {}) :
          field' = [field EXCEPT ![k] = v]
    BY <1>4 DEF AssignEnd
  <2>2. v \in Texts /\ (k \notin Credentials => v = Default)
    BY <1>2, <2>1, TextsTyped, HandlerFacts
  <2>3. field' \in [Keys -> Texts] /\ \A j \in Keys \ Credentials : field'[j] = Default
    BY <1>2, <2>1, <2>2
  <2>4. clean[t] => v = want[t][k]
    BY <2>1, HandlerFacts DEF AssigningToo, Alone
  <2>5. \/ /\ left[t] # {k}
           /\ left' = [left EXCEPT ![t] = left[t] \ {k}] /\ wpc' = [wpc EXCEPT ![t] = "assign"]
        \/ /\ left[t] = {k} /\ op[t] = "set"
           /\ left' = [left EXCEPT ![t] = Keys] /\ wpc' = [wpc EXCEPT ![t] = "open"]
        \/ /\ left[t] = {k} /\ op[t] # "set"
           /\ left' = [left EXCEPT ![t] = {}] /\ wpc' = [wpc EXCEPT ![t] = "done"]
    BY <1>4 DEF AssignEnd
  <2>6. left' \in [Tasks -> SUBSET Keys]
    BY <1>2, <2>5
  <2>7. /\ wpc' \in [Tasks -> WPCs] /\ wpc'[t] # "idle"
        /\ \A u \in Tasks \ {t} : wpc'[u] = wpc[u]
    BY <1>2, <2>5 DEF WPCs
  <2>8. clean[t] => IF op[t] = "set" THEN Setting(t)' ELSE Resetting(t)'
    <3>1. ASSUME clean[t], op[t] = "set" PROVE Setting(t)'
      <4>1. /\ left[t] \subseteq Credentials
            /\ \A j \in Credentials \ (left[t] \ {k}) : field'[j] = want'[t][j]
        BY <1>1, <1>2, <2>1, <2>4, <3>1, HandlerFacts DEF Setting, Credentials, Keys
      <4>2. /\ wpc'[t] = "assign" /\ left'[t] = left[t] \ {k}
            \/ /\ wpc'[t] = "open" /\ left[t] = {k}
        BY <1>2, <2>5, <3>1
      <4>3. QED
        BY <4>1, <4>2 DEF Setting, Assigned
    <3>2. ASSUME clean[t], op[t] # "set" PROVE Resetting(t)'
      BY <1>1, <1>2, <2>5, <3>2, HandlerFacts DEF Resetting, InNvs
    <3>3. QED
      BY <3>1, <3>2
  <2>9. QED
    BY <1>1, <1>2, <2>3, <2>6, <2>7, <2>8, HandlerFrame
<1>5. QED
  BY <1>3, <1>4

(* Opening NVS, and the keys: stored or removed one by one.                *)
LEMMA NvsSteps ==
  ASSUME FirmwareInv, NEW t \in Tasks, UNCHANGED bootVars,
         \E ok \in BOOLEAN :
           OpenPrefs(t, ok) \/ \E k \in Keys : Put(t, k, ok) \/ Wipe(t, k, ok)
  PROVE  FirmwareInv'
<1>1. wpc[t] \in {"open", "put", "wipe"} /\ UNCHANGED <<field, link, tries, op, want, owed>>
  BY DEF OpenPrefs, Put, Wipe, Goto
<1>2. /\ nvs \in [Keys -> Texts] /\ field \in [Keys -> Texts]
      /\ wpc \in [Tasks -> WPCs] /\ left \in [Tasks -> SUBSET Keys] /\ clean \in [Tasks -> BOOLEAN]
      /\ \A j \in Keys \ Credentials : field[j] = Default /\ nvs[j] = Default /\ want[t][j] = Default
  BY HandlerFacts DEF FirmwareInv, Typed, HandlersTyped, SettingsTyped
<1>3. ASSUME NEW ok \in BOOLEAN, OpenPrefs(t, ok) PROVE FirmwareInv'
  <2>1. /\ nvs' = nvs /\ wpc[t] = "open"
        /\ wpc' = [wpc EXCEPT ![t] = IF op[t] = "set" THEN (IF ok THEN "put" ELSE "done")
                                      ELSE (IF ok THEN "wipe" ELSE "assign")]
        /\ left' = [left EXCEPT ![t] = IF op[t] = "set" /\ ~ok THEN {} ELSE Keys]
    BY <1>3 DEF OpenPrefs, Goto
  <2>2. clean' \in [Tasks -> BOOLEAN] /\ (\A u \in Tasks : clean'[u] => clean[u]) /\ (clean'[t] => ok)
    <3>1. clean' = [clean EXCEPT ![t] = clean[t] /\ ok]
      BY <1>3 DEF OpenPrefs
    <3>2. QED
      BY <1>2, <3>1, Zenon
  <2>3. /\ wpc' \in [Tasks -> WPCs] /\ wpc'[t] # "idle"
        /\ \A u \in Tasks \ {t} : wpc'[u] = wpc[u]
    BY <1>2, <2>1 DEF WPCs
  <2>4. left' \in [Tasks -> SUBSET Keys]
    BY <1>2, <2>1
  <2>5. clean[t] /\ clean'[t] => IF op[t] = "set" THEN Setting(t)' ELSE Resetting(t)'
    <3> SUFFICES ASSUME clean[t], ok
                 PROVE  IF op[t] = "set" THEN Setting(t)' ELSE Resetting(t)'
      BY <2>2
    <3>1. left'[t] = Keys /\ wpc'[t] = IF op[t] = "set" THEN "put" ELSE "wipe"
      BY <1>2, <2>1
    <3>2. Credentials \subseteq Keys
      BY DEF Credentials, Keys
    <3>3. CASE op[t] = "set"
      BY <1>1, <2>1, <3>1, <3>2, <3>3, HandlerFacts DEF Setting, Assigned
    <3>4. CASE op[t] # "set"
      <4>1. Resetting(t)
        BY <3>4 DEF FirmwareInv, HandlersInv, CleanHandler
      <4>2. QED
        BY <1>1, <3>1, <3>2, <3>4, <4>1 DEF Resetting
    <3>5. QED
      BY <3>3, <3>4
  <2>6. QED
    BY <1>1, <1>2, <2>1, <2>2, <2>3, <2>4, <2>5, HandlerFrame
<1>4. ASSUME NEW ok \in BOOLEAN, NEW k \in Keys, Put(t, k, ok) PROVE FirmwareInv'
  <2>1. /\ wpc[t] = "put" /\ k \in left[t]
        /\ nvs' = [nvs EXCEPT ![k] = IF ok THEN CString[field[k]] ELSE nvs[k]]
        /\ left' = [left EXCEPT ![t] = left[t] \ {k}]
        /\ wpc' = [wpc EXCEPT ![t] = IF left[t] = {k} THEN "done" ELSE "put"]
    BY <1>4 DEF Put, Current, Stored
  <2>2. clean' \in [Tasks -> BOOLEAN] /\ (\A u \in Tasks : clean'[u] => clean[u]) /\ (clean'[t] => ok)
    <3>1. clean' = [clean EXCEPT ![t] = clean[t] /\ ok]
      BY <1>4 DEF Put
    <3>2. QED
      BY <1>2, <3>1, Zenon
  <2>3. /\ wpc' \in [Tasks -> WPCs] /\ wpc'[t] # "idle"
        /\ \A u \in Tasks \ {t} : wpc'[u] = wpc[u]
    BY <1>2, <2>1 DEF WPCs
  <2>4. left' \in [Tasks -> SUBSET Keys]
    BY <1>2, <2>1
  <2>5. nvs' \in [Keys -> Texts] /\ \A j \in Keys \ Credentials : nvs'[j] = Default
    BY <1>2, <2>1, HandlerFacts, TextsTyped
  <2>6. clean[t] /\ clean'[t] => IF op[t] = "set" THEN Setting(t)' ELSE Resetting(t)'
    <3> SUFFICES ASSUME clean[t], ok
                 PROVE  op[t] = "set" /\ Setting(t)'
      BY <2>2
    <3>1. op[t] = "set" /\ Setting(t)
      BY <2>1, HandlerFacts DEF Resetting
    <3>2. Credentials \subseteq Keys
      BY DEF Credentials, Keys
    <3>3. \A j \in Credentials \ (left[t] \ {k}) : nvs'[j] = CString[want'[t][j]]
      BY <1>1, <1>2, <2>1, <3>1, <3>2 DEF Setting, Assigned
    <3>4. \/ wpc'[t] = "put" /\ left'[t] = left[t] \ {k}
          \/ wpc'[t] = "done" /\ left[t] = {k}
      BY <1>2, <2>1
    <3>5. Setting(t)'
      BY <1>1, <2>1, <3>1, <3>3, <3>4 DEF Setting, Assigned, InNvs
    <3>6. QED
      BY <3>1, <3>5
  <2>7. QED
    BY <1>1, <1>2, <2>2, <2>3, <2>4, <2>5, <2>6, HandlerFrame
<1>5. ASSUME NEW ok \in BOOLEAN, NEW k \in Keys, Wipe(t, k, ok) PROVE FirmwareInv'
  <2>1. /\ wpc[t] = "wipe" /\ k \in left[t]
        /\ nvs' = [nvs EXCEPT ![k] = IF ok THEN Default ELSE nvs[k]]
        /\ left' = [left EXCEPT ![t] = IF ~ok \/ left[t] = {k} THEN Keys ELSE left[t] \ {k}]
        /\ wpc' = [wpc EXCEPT ![t] = IF ~ok \/ left[t] = {k} THEN "assign" ELSE "wipe"]
    BY <1>5 DEF Wipe, Current
  <2>2. clean' \in [Tasks -> BOOLEAN] /\ (\A u \in Tasks : clean'[u] => clean[u]) /\ (clean'[t] => ok)
    <3>1. clean' = [clean EXCEPT ![t] = clean[t] /\ ok]
      BY <1>5 DEF Wipe
    <3>2. QED
      BY <1>2, <3>1, Zenon
  <2>3. /\ wpc' \in [Tasks -> WPCs] /\ wpc'[t] # "idle"
        /\ \A u \in Tasks \ {t} : wpc'[u] = wpc[u]
    BY <1>2, <2>1 DEF WPCs
  <2>4. left' \in [Tasks -> SUBSET Keys]
    BY <1>2, <2>1
  <2>5. nvs' \in [Keys -> Texts] /\ \A j \in Keys \ Credentials : nvs'[j] = Default
    BY <1>2, <2>1, TextsTyped
  <2>6. clean[t] /\ clean'[t] => IF op[t] = "set" THEN Setting(t)' ELSE Resetting(t)'
    <3> SUFFICES ASSUME clean[t], ok
                 PROVE  op[t] # "set" /\ Resetting(t)'
      BY <2>2
    <3>1. op[t] # "set" /\ Resetting(t)
      BY <2>1, HandlerFacts DEF Setting
    <3>2. Credentials \subseteq Keys
      BY DEF Credentials, Keys
    <3>3. \A j \in Credentials \ (left[t] \ {k}) : nvs'[j] = Default
      BY <1>2, <2>1, <3>1, <3>2 DEF Resetting
    <3>4. \/ wpc'[t] = "wipe" /\ left'[t] = left[t] \ {k}
          \/ wpc'[t] = "assign" /\ left[t] = {k}
      BY <1>2, <2>1
    <3>5. \A j \in Credentials : CString[want'[t][j]] = Default
      BY <1>1, <3>1, <3>2, TextsTyped DEF Resetting
    <3>6. Resetting(t)'
      BY <1>1, <3>1, <3>3, <3>4, <3>5 DEF Resetting, InNvs
    <3>7. QED
      BY <3>1, <3>6
  <2>7. QED
    BY <1>1, <1>2, <2>2, <2>3, <2>4, <2>5, <2>6, HandlerFrame
<1>6. QED
  BY <1>3, <1>4, <1>5

(* The answer: a clean handler leaves its pair in NVS.                     *)
LEMMA ReplyStep ==
  ASSUME FirmwareInv, NEW t \in Tasks, Reply(t), UNCHANGED bootVars
  PROVE  FirmwareInv'
<1> USE DEF FirmwareInv
<1>1. /\ wpc[t] = "done" /\ wpc' = [wpc EXCEPT ![t] = "idle"]
      /\ UNCHANGED <<field, nvs, link, tries, left>>
      /\ op' = [op EXCEPT ![t] = "set"] /\ want' = [want EXCEPT ![t] = Defaults]
      /\ clean' = [clean EXCEPT ![t] = FALSE]
  BY DEF Reply, Goto
<1>2. /\ \A u \in Tasks : clean'[u] => clean[u] /\ u # t
      /\ clean' \in [Tasks -> BOOLEAN]
  BY <1>1, Zenon DEF Typed, HandlersTyped
<1>3. \A u \in Tasks : ~clean'[u]
  BY <1>1, <1>2, BusyHandler
<1>4. Owed' /\ owed' \in PairType \cup {Unknown}
  <2>1. CASE ~clean[t]
    <3>1. owed' = owed /\ owed = Unknown
      BY <1>1, <2>1, BusyHandler DEF Reply
    <3>2. QED
      BY <3>1 DEF Owed
  <2>2. CASE clean[t]
    <3>1. InNvs(t) /\ Alone(t)
      BY <1>1, <2>2, Zenon DEF HandlersInv, CleanHandler, Setting, Resetting
    <3>2. owed' = PairOf([k \in Keys |-> CString[want[t][k]]])
      BY <2>2 DEF Reply
    <3>3. PairOf(nvs) = PairOf([k \in Keys |-> CString[want[t][k]]])
      BY <3>1 DEF InNvs, PairOf, Credentials, Keys
    <3>4. PairOf(nvs) \in PairType
      BY PairTyped DEF Typed, SettingsTyped
    <3>5. \A u \in Tasks : wpc'[u] = "idle"
      BY <1>1, <3>1 DEF Typed, HandlersTyped, Alone
    <3>6. QED
      BY <1>1, <3>2, <3>3, <3>4, <3>5 DEF Owed, PairOf
  <2>3. QED
    BY <2>1, <2>2
<1>5. HandlersTyped'
  <2>1. wpc' \in [Tasks -> WPCs] /\ op' \in [Tasks -> {"set", "reset"}]
    BY <1>1 DEF Typed, HandlersTyped, WPCs
  <2>2. want' \in [Tasks -> [Keys -> Texts]]
    BY <1>1, TextsTyped DEF Typed, HandlersTyped
  <2>3. QED
    BY <1>1, <1>2, <1>4, <2>1, <2>2 DEF Typed, HandlersTyped
<1>6. SettingsTyped' /\ BootTyped' /\ CountsTyped' /\ Turns' /\ Booting'
  BY <1>1 DEF Typed, SettingsTyped, BootTyped, CountsTyped, Turns, Booting, bootVars
<1>7. Quiet'
  BY <1>1, BusyHandler DEF Quiet, bootVars
<1>8. \A u \in Tasks : CleanHandler(u)'
  BY <1>3 DEF CleanHandler
<1>9. ApWanted' /\ AccessPointKnown'
  <2>1. ApWanted'
    BY <1>1, TextsTyped DEF HandlersInv, ApWanted, Typed, HandlersTyped
  <2>2. QED
    BY <1>1, <2>1 DEF HandlersInv, AccessPointKnown
<1>10. QED
  BY <1>4, <1>5, <1>6, <1>7, <1>8, <1>9 DEF Typed, HandlersInv

(* SET_WIFI and RESET_WIFI begin.                                          *)
LEMMA CommandStep ==
  ASSUME FirmwareInv, NEW t \in Tasks, Command(t)
  PROVE  FirmwareInv'
<1> USE DEF FirmwareInv
<1>1. /\ listening # {} /\ UNCHANGED <<status, turn, step, polls, listening, loaded, cuts>>
      /\ commands' \in 0..MaxCommands
  BY BoundsAssumption DEF Command, Typed, CountsTyped
<1>2. ASSUME NEW o \in {"set", "reset"}, NEW s \in {"assign", "open"}, NEW values \in [Keys -> Texts],
             NEW l \in SUBSET Keys, Enter(t, o, s, values), left' = [left EXCEPT ![t] = l],
             \A k \in Keys \ Credentials : values[k] = Default,
             \/ o = "set" /\ s = "assign" /\ l = Credentials
             \/ o = "reset" /\ s = "open" /\ values = Defaults
      PROVE  FirmwareInv'
  <2>1. /\ wpc[t] = "idle" /\ wpc' = [wpc EXCEPT ![t] = s]
        /\ op' = [op EXCEPT ![t] = o] /\ want' = [want EXCEPT ![t] = values]
        /\ clean' = [u \in Tasks |-> u = t /\ \A v \in Tasks : wpc[v] = "idle"]
        /\ owed' = Unknown /\ UNCHANGED <<field, nvs, link, tries>>
    BY <1>2 DEF Enter, Goto
  <2>2. /\ clean' \in [Tasks -> BOOLEAN]
        /\ \A u \in Tasks : clean'[u] => u = t /\ \A v \in Tasks : wpc[v] = "idle"
    BY <2>1, Zenon
  <2>3. /\ wpc'[t] = s /\ op'[t] = o /\ want'[t] = values /\ left'[t] = l
        /\ \A u \in Tasks \ {t} : wpc'[u] = wpc[u]
    BY <1>2, <2>1 DEF Typed, HandlersTyped
  <2>4. HandlersTyped'
    <3>1. wpc' \in [Tasks -> WPCs] /\ op' \in [Tasks -> {"set", "reset"}]
      BY <2>1 DEF Typed, HandlersTyped, WPCs
    <3>2. want' \in [Tasks -> [Keys -> Texts]]
      BY <2>1 DEF Typed, HandlersTyped
    <3>3. left' \in [Tasks -> SUBSET Keys]
      BY <1>2 DEF Typed, HandlersTyped
    <3>4. QED
      BY <2>1, <2>2, <3>1, <3>2, <3>3 DEF HandlersTyped
  <2>5. CleanHandler(t)'
    <3>1. clean'[t] => Alone(t)'
      BY <2>2, <2>3 DEF Alone
    <3>2. IF op'[t] = "set" THEN Setting(t)' ELSE Resetting(t)'
      BY <1>2, <2>3 DEF Setting, Resetting
    <3>3. QED
      BY <2>3, <3>1, <3>2 DEF CleanHandler
  <2>6. \A u \in Tasks : CleanHandler(u)'
    BY <2>2, <2>5 DEF CleanHandler
  <2>7. Owed' /\ ApWanted' /\ AccessPointKnown'
    <3>1. ApWanted'
      BY <1>2, <2>1 DEF HandlersInv, ApWanted, Typed, HandlersTyped
    <3>2. QED
      BY <2>1, <3>1 DEF HandlersInv, Owed, AccessPointKnown
  <2>8. SettingsTyped' /\ BootTyped' /\ CountsTyped' /\ Turns' /\ Booting' /\ Quiet'
    BY <1>1, <2>1 DEF Typed, SettingsTyped, BootTyped, CountsTyped, Turns, Booting, Quiet
  <2>9. QED
    BY <2>4, <2>6, <2>7, <2>8 DEF Typed, HandlersInv
<1>3. ASSUME NEW pair \in Pairs, SetWifi(t, pair) PROVE FirmwareInv'
  <2> DEFINE values == [k \in Keys |-> IF k = "ssid" THEN pair.ssid
                                      ELSE IF k = "password" THEN pair.password ELSE Default]
  <2>1. pair.ssid \in Texts /\ pair.password \in Texts
    BY PairsAssumption DEF PairType
  <2>2. values \in [Keys -> Texts]
    BY <2>1, TextsTyped
  <2>3. \A k \in Keys \ Credentials : values[k] = Default
    BY DEF Credentials
  <2>4. /\ Enter(t, "set", "assign", values) /\ left' = [left EXCEPT ![t] = Credentials]
        /\ Credentials \in SUBSET Keys
    BY <1>3 DEF SetWifi, Credentials, Keys
  <2> HIDE DEF values
  <2>5. QED
    BY <1>2, <2>2, <2>3, <2>4
<1>4. CASE ResetWifi(t)
  <2>1. /\ Enter(t, "reset", "open", Defaults) /\ left' = [left EXCEPT ![t] = Keys]
        /\ Defaults \in [Keys -> Texts] /\ \A k \in Keys \ Credentials : Defaults[k] = Default
    BY <1>4, TextsTyped DEF ResetWifi
  <2>2. QED
    BY <1>2, <2>1
<1>5. QED
  BY <1>3, <1>4 DEF Command

LEMMA TasksAndCuts ==
  ASSUME FirmwareInv,
         xtask_bot_transport \/ xtask_web_server \/ PowerCut \/ UNCHANGED vars
  PROVE  FirmwareInv'
<1> USE DEF FirmwareInv
<1>1. ASSUME NEW task \in FirmwareTasks, Open(task) PROVE FirmwareInv'
  <2>1. turn = 7 /\ UNCHANGED <<wifiVars, status, turn, step, polls, loaded, cuts, commands>>
        /\ listening' = listening \cup {task}
    BY <1>1, OrderIs DEF Open, TasksCreated, Typed, BootTyped
  <2>2. Typed'
    BY <2>1 DEF Typed, BootTyped, CountsTyped, HandlersTyped, SettingsTyped, wifiVars, handlerVars
  <2>3. Turns' /\ Booting' /\ Quiet'
    BY <2>1 DEF Turns, Booting, Quiet, wifiVars, handlerVars
  <2>4. HandlersInv'
    BY <2>1 DEF HandlersInv, Owed, CleanHandler, Alone, Setting, Resetting, Assigned, InNvs,
                ApWanted, AccessPointKnown, wifiVars, handlerVars
  <2>5. QED
    BY <2>2, <2>3, <2>4
<1>2. CASE PowerCut
  <2>1. /\ field' = Defaults /\ link' = NoLink /\ tries' = 0 /\ UNCHANGED <<nvs, owed, commands>>
        /\ wpc' = AllIdle /\ op' = NoOps /\ want' = NoWants /\ left' = NoneLeft /\ clean' = NoneClean
        /\ status' = AllUninitialized /\ turn' = 1 /\ step' = "initialize" /\ polls' = 0
        /\ listening' = {} /\ loaded' = FALSE
    BY <1>2 DEF PowerCut, WiFiPowerCut
  <2>2. BootTyped' /\ Turns' /\ Booting'
    BY <2>1, OrderIs DEF BootTyped, Turns, Booting, AllUninitialized, Services
  <2>3. CountsTyped'
    <3>1. polls' \in 0..BoardRetries /\ cuts' \in 0..MaxCuts
      BY <1>2, <2>1, BoundsAssumption DEF PowerCut, Typed, CountsTyped
    <3>2. QED
      BY <2>1, <3>1 DEF Typed, CountsTyped
  <2>4. HandlersTyped'
    <3>1. want' \in [Tasks -> [Keys -> Texts]]
      BY <2>1, TextsTyped DEF NoWants
    <3>2. QED
      BY <2>1, <3>1 DEF Typed, HandlersTyped, AllIdle, NoOps, NoneLeft, NoneClean, WPCs
  <2>5. SettingsTyped'
    BY <2>1, TextsTyped, MaxAttemptsAssumption DEF Typed, SettingsTyped
  <2>6. Quiet' /\ Owed' /\ \A t \in Tasks : CleanHandler(t)'
    <3>1. \A t \in Tasks : ~clean'[t] /\ wpc'[t] = "idle"
      BY <2>1 DEF NoneClean, AllIdle
    <3>2. QED
      BY <2>1, <3>1 DEF Quiet, HandlersInv, Owed, CleanHandler, PairOf
  <2>7. ApWanted' /\ AccessPointKnown'
    <3>1. ApWanted'
      BY <2>1, TextsTyped DEF ApWanted, NoWants
    <3>2. AccessPointKnown'
      BY <2>1, TextsTyped DEF HandlersInv, AccessPointKnown, NoLink
    <3>3. QED
      BY <3>1, <3>2
  <2>8. QED
    BY <2>2, <2>3, <2>4, <2>5, <2>6, <2>7 DEF Typed, HandlersInv
<1>3. CASE UNCHANGED vars
  <2>1. UNCHANGED <<field, nvs, link, tries, wpc, op, want, left, clean, owed,
                    status, turn, step, polls, listening, loaded, cuts, commands>>
    BY <1>3 DEF vars, wifiVars, handlerVars, bootVars
  <2>2. Typed' /\ Turns' /\ Booting' /\ Quiet'
    BY <2>1 DEF Typed, BootTyped, CountsTyped, HandlersTyped, SettingsTyped, Turns, Booting, Quiet
  <2>3. HandlersInv'
    BY <2>1 DEF HandlersInv, Owed, CleanHandler, Alone, Setting, Resetting, Assigned, InNvs,
                ApWanted, AccessPointKnown
  <2>4. QED
    BY <2>2, <2>3
<1>4. QED
  BY <1>1, <1>2, <1>3 DEF xtask_bot_transport, xtask_web_server, FirmwareTasks

-----------------------------------------------------------------------------

LEMMA FirmwareInvHolds == Spec => []FirmwareInv
<1>1. FirmwareInv /\ [Next]_vars => FirmwareInv'
  BY SetupKeeps, CommandStep, AssigningSteps, NvsSteps, ReplyStep, TasksAndCuts
  DEF Next, RunHandler, Handler
<1>2. QED
  BY FirmwareInit, <1>1, PTL DEF Spec

(* Every variable has its type.                                            *)
THEOREM TypeCorrect == Spec => []TypeOK
<1>1. FirmwareInv => TypeOK
  BY OrderIs DEF FirmwareInv, Typed, BootTyped, CountsTyped, HandlersTyped, SettingsTyped, WPCs,
                 TypeOK, WiFiTypeOK
<1>2. QED
  BY FirmwareInvHolds, <1>1, PTL

(* The order of setup() decides every service before a command arrives.    *)
THEOREM ServedByDecidedServicesHolds == Spec => []ServedByDecidedServices
<1>1. FirmwareInv => ServedByDecidedServices
  <2> SUFFICES ASSUME FirmwareInv, listening # {} PROVE
        /\ \A s \in Services : status[s] # "UNINITIALIZED"
        /\ status["board"] = "STARTED" => status["motor_servo"] = "STARTED"
        /\ status["wifi"] = "STARTED" <=> link # NoLink
    BY DEF ServedByDecidedServices
  <2>1. turn = 7
    BY DEF FirmwareInv, Booting
  <2>2. \A s \in Services : status[s] # "UNINITIALIZED"
    BY <2>1, OrderIs DEF FirmwareInv, Turns
  <2>3. QED
    BY <2>1, <2>2 DEF FirmwareInv, Turns, Booting
<1>2. QED
  BY FirmwareInvHolds, <1>1, PTL

(* saveSettings(), resetSettings() and loadSettings() over power cuts.     *)
THEOREM RestartFindsLastSettingsHolds == Spec => []RestartFindsLastSettings
<1>1. FirmwareInv => RestartFindsLastSettings
  BY DEF FirmwareInv, HandlersInv, Owed, Quiet, RestartFindsLastSettings
<1>2. QED
  BY FirmwareInvHolds, <1>1, PTL

(* The name and the password of the access point never change.             *)
THEOREM AccessPointKnownHolds == Spec => []AccessPointKnown
<1>1. FirmwareInv => AccessPointKnown
  BY DEF FirmwareInv, HandlersInv
<1>2. QED
  BY FirmwareInvHolds, <1>1, PTL

-----------------------------------------------------------------------------
(* The refinement of ServiceLifecycle.                                     *)

(* setup() makes the transitions of the lifecycle, one service at a time.  *)
LEMMA SetupTransitions ==
  ASSUME FirmwareInv, setup
  PROVE  [Lifecycle!Next]_(Lifecycle!vars)
<1> USE DEF FirmwareInv
<1>1. turn \in 1..6 /\ listening = {} /\ listening' = {} /\ Moves
  BY SetupMoves
<1>2. Service \in Services /\ Service = Order[turn]
  BY <1>1, OrderIs DEF Service
<1>3. CASE UNCHANGED status
  BY <1>1, <1>3 DEF Lifecycle!vars
<1>4. ASSUME NEW s \in {"INITIALIZED", "INITIALIZED_FAILED", "STARTED"}, SetStatus(s),
             s \in Lifecycle!After[status[Service]]
      PROVE  Lifecycle!Next
  <2>1. Lifecycle!Transition(Service)
    BY <1>1, <1>4 DEF Lifecycle!Transition, SetStatus
  <2>2. QED
    BY <1>2, <2>1 DEF Lifecycle!Next
<1>5. CASE step \in {"initialize", "poll"}
  <2>1. status[Service] = "UNINITIALIZED"
    BY <1>1, <1>2, <1>5 DEF Turns
  <2>2. CASE Initialized \/ InitializedFailed
    BY <1>4, <2>1, <2>2 DEF Initialized, InitializedFailed, Lifecycle!After
  <2>3. QED
    BY <1>1, <1>3, <1>5, <2>2 DEF Moves, Waits
<1>6. CASE step \notin {"initialize", "poll"}
  <2>1. status[Service] = "INITIALIZED"
    BY <1>1, <1>2, <1>6 DEF Turns
  <2>2. CASE Started
    BY <1>4, <2>1, <2>2 DEF Started, Lifecycle!After
  <2>3. QED
    BY <1>1, <1>3, <1>6, <2>2 DEF Moves, Waits
<1>7. QED
  BY <1>5, <1>6

(* The services go through their lifecycles, and stand still once handlers *)
(* run.                                                                    *)
THEOREM LifecycleRefinement == Spec => LifecyclePromise
<1>1. Init => Lifecycle!Init
  BY DEF Init, Lifecycle!Init, Lifecycle!Off, AllUninitialized
<1>2. FirmwareInv /\ [Next]_vars => [Lifecycle!Next]_(Lifecycle!vars)
  <2> SUFFICES ASSUME FirmwareInv, [Next]_vars PROVE [Lifecycle!Next]_(Lifecycle!vars)
    OBVIOUS
  <2>1. CASE setup
    BY <2>1, SetupTransitions
  <2>2. ASSUME NEW task \in FirmwareTasks, Open(task) PROVE Lifecycle!Next
    <3>1. turn = 7 /\ status' = status /\ listening' # {}
      BY <2>2, OrderIs DEF Open, TasksCreated, FirmwareInv, Typed, BootTyped
    <3>2. \A s \in Services : status[s] # "UNINITIALIZED"
      BY <3>1, OrderIs DEF FirmwareInv, Turns
    <3>3. QED
      BY <3>1, <3>2 DEF Lifecycle!Next, Lifecycle!Serve
  <2>3. CASE PowerCut
    <3>1. Lifecycle!PowerCut
      BY <2>3 DEF PowerCut, AllUninitialized, Lifecycle!PowerCut, Lifecycle!Off
    <3>2. QED
      BY <3>1 DEF Lifecycle!Next
  <2>4. CASE UNCHANGED <<status, listening>>
    BY <2>4 DEF Lifecycle!vars
  <2>5. CASE (\E t \in Tasks : Command(t) \/ RunHandler(t)) \/ UNCHANGED vars
    <3>1. UNCHANGED <<status, listening>>
      BY <2>5 DEF Command, RunHandler, vars, bootVars
    <3>2. QED
      BY <2>4, <3>1
  <2>6. QED
    BY <2>1, <2>2, <2>3, <2>5
    DEF Next, xtask_bot_transport, xtask_web_server, FirmwareTasks
<1>3. QED
  BY <1>1, <1>2, FirmwareInvHolds, PTL DEF Spec, LifecyclePromise, Lifecycle!Spec

-----------------------------------------------------------------------------
(* setup() runs down.                                                      *)

LEMMA LeftTyped ==
  ASSUME FirmwareInv
  PROVE  /\ turn \in 1..7 /\ polls \in Nat /\ tries \in Nat
         /\ BoardRetries \in Nat /\ MaxAttempts \in Nat
         /\ Taken[step] \in 0..4
         /\ PollsLeft \in Nat /\ AttemptsLeft \in Nat /\ SetupLeft \in Nat
         /\ SetupLeft = 5 * (7 - turn) - Taken[step] + PollsLeft + AttemptsLeft
         /\ SetupLeft = 0 <=> TasksCreated
<1> USE DEF FirmwareInv
<1>1. /\ turn \in 1..7 /\ polls \in 0..BoardRetries /\ tries \in 0..MaxAttempts
      /\ BoardRetries \in Nat /\ MaxAttempts \in Nat
  BY BoundsAssumption, MaxAttemptsAssumption DEF Typed, BootTyped, CountsTyped, SettingsTyped
<1>2. Taken[step] \in 0..4 /\ (turn = 7 => Taken[step] = 0)
  BY DEF Taken, Typed, BootTyped, Turns
<1>3. PollsLeft \in Nat /\ AttemptsLeft \in Nat
  BY <1>1 DEF PollsLeft, AttemptsLeft
<1>4. SetupLeft = 5 * (7 - turn) - Taken[step] + PollsLeft + AttemptsLeft
  BY <1>1, OrderIs DEF SetupLeft
<1>5. CASE turn = 7
  <2>1. PollsLeft = 0 /\ AttemptsLeft = 0 /\ TasksCreated
    BY <1>5, OrderIs DEF PollsLeft, AttemptsLeft, TasksCreated
  <2>2. QED
    BY <1>1, <1>2, <1>3, <1>4, <1>5, <2>1
<1>6. CASE turn # 7
  <2>1. turn <= 6 /\ ~TasksCreated
    BY <1>1, <1>6, OrderIs DEF TasksCreated
  <2>2. SetupLeft \in Nat /\ SetupLeft # 0
    BY <1>1, <1>2, <1>3, <1>4, <2>1
  <2>3. QED
    BY <1>1, <1>2, <1>3, <1>4, <2>1, <2>2
<1>7. QED
  BY <1>5, <1>6

(* A service other than the board and the WiFi service has two steps.      *)
LEMMA OthersRunDown ==
  ASSUME FirmwareInv, FirmwareInv', setup, turn \notin {2, 6}
  PROVE  SetupLeft' < SetupLeft
<1> USE DEF FirmwareInv
<1>1. turn \in 1..6 /\ Moves
  BY SetupMoves
<1>2. polls' = polls /\ tries' = tries
  BY <1>1, OrderIs
  DEF setup, InitializeOther, InitializeMotorServo, StartOther, Connect, TryToConnect, ProbeBoard,
      PollBoard, InitializeAmakerBot, InitializeWifi, EndConnect, FallBack, At, Service, wifiVars
<1>3. step \in {"initialize", "start"}
  BY <1>1 DEF Turns, Typed, BootTyped
<1>4. CASE turn' = turn /\ step = "initialize" /\ step' = "start"
  <2>1. PollsLeft' = PollsLeft /\ AttemptsLeft' = AttemptsLeft
    BY <1>1, <1>2, <1>4 DEF PollsLeft, AttemptsLeft
  <2>2. Taken[step] = 0 /\ Taken[step'] = 2
    BY <1>4 DEF Taken
  <2>3. QED
    BY <1>4, <2>1, <2>2, LeftTyped, OrderIs DEF SetupLeft
<1>5. CASE turn' = turn + 1 /\ step' = "initialize"
  <2>1. PollsLeft' = PollsLeft
    BY <1>1, <1>2, <1>3, <1>5 DEF PollsLeft
  <2>2. AttemptsLeft' = AttemptsLeft
    BY <1>1, <1>2, <1>3, <1>5, OrderIs DEF AttemptsLeft
  <2>3. Taken[step'] = 0
    BY <1>5 DEF Taken
  <2>4. QED
    BY <1>1, <1>5, <2>1, <2>2, <2>3, LeftTyped, OrderIs DEF SetupLeft
<1>6. QED
  BY <1>1, <1>3, <1>4, <1>5
  DEF Moves, Waits, Initialized, InitializedFailed, Started, NextService

(* begin() gives up after its last poll.                                   *)
LEMMA BoardRunsDown ==
  ASSUME FirmwareInv, FirmwareInv', setup, turn = 2
  PROVE  SetupLeft' < SetupLeft
<1> USE DEF FirmwareInv
<1>1. /\ step \in {"initialize", "poll", "start"} /\ polls \in 0..BoardRetries /\ tries' = tries
      /\ \/ /\ turn' = 2 /\ step = "initialize" /\ step' = "poll" /\ polls' = polls
         \/ /\ turn' = 2 /\ step = "poll" /\ step' = "poll" /\ polls' = polls + 1
         \/ /\ turn' = 2 /\ step = "poll" /\ step' = "start"
         \/ /\ turn' = 3 /\ step' = "initialize"
  <2>1. Service = "board"
    BY OrderIs DEF Service
  <2>2. (\E ok \in BOOLEAN : ProbeBoard(ok) \/ PollBoard(ok)) \/ StartOther
    BY <2>1 DEF setup, InitializeOther, InitializeMotorServo, Connect, TryToConnect,
                InitializeAmakerBot, InitializeWifi, EndConnect, FallBack, At
  <2>3. QED
    BY <2>2
    DEF ProbeBoard, PollBoard, StartOther, At, Initialized, InitializedFailed, Started,
        NextService, wifiVars, Typed, CountsTyped
<1>2. AttemptsLeft' = AttemptsLeft
  BY <1>1, OrderIs DEF AttemptsLeft
<1>3. Taken[step] <= 2 /\ Taken["initialize"] = 0 /\ Taken["poll"] = 1 /\ Taken["start"] = 2
  BY <1>1 DEF Taken
<1>4. BoardRetries \in Nat
  BY BoundsAssumption
<1>5. CASE turn' = 2 /\ step = "initialize" /\ step' = "poll" /\ polls' = polls
  <2>1. PollsLeft' = PollsLeft
    BY <1>5 DEF PollsLeft
  <2>2. QED
    BY <1>2, <1>3, <1>5, <2>1, LeftTyped, OrderIs DEF SetupLeft
<1>6. CASE turn' = 2 /\ step = "poll" /\ step' = "poll" /\ polls' = polls + 1
  <2>1. PollsLeft' = PollsLeft - 1
    BY <1>1, <1>4, <1>6 DEF PollsLeft
  <2>2. QED
    BY <1>2, <1>3, <1>6, <2>1, LeftTyped, OrderIs DEF SetupLeft
<1>7. CASE turn' = 2 /\ step = "poll" /\ step' = "start"
  <2>1. PollsLeft' = 0
    BY <1>7 DEF PollsLeft
  <2>2. QED
    BY <1>2, <1>3, <1>7, <2>1, LeftTyped, OrderIs DEF SetupLeft
<1>8. CASE turn' = 3 /\ step' = "initialize"
  <2>1. PollsLeft' = 0
    BY <1>8 DEF PollsLeft
  <2>2. QED
    BY <1>2, <1>3, <1>8, <2>1, LeftTyped, OrderIs DEF SetupLeft
<1>9. QED
  BY <1>1, <1>5, <1>6, <1>7, <1>8

(* The loop over the connection attempts ends, and then the fall-back.     *)
LEMMA WifiRunsDown ==
  ASSUME FirmwareInv, FirmwareInv', setup, turn = 6
  PROVE  SetupLeft' < SetupLeft
<1> USE DEF FirmwareInv
<1>1. /\ step \in {"initialize", "start", "attempt", "fall_back"}
      /\ tries \in 0..MaxAttempts /\ MaxAttempts \in Nat
      /\ \/ /\ turn' = 6 /\ step = "initialize" /\ step' = "start" /\ tries' = tries
         \/ /\ turn' = 6 /\ step = "start" /\ step' = "attempt" /\ tries' = tries
         \/ /\ turn' = 6 /\ step = "start" /\ step' = "fall_back"
         \/ /\ turn' = 6 /\ step = "attempt" /\ step' = "attempt" /\ tries' = tries + 1
         \/ /\ turn' = 6 /\ step = "attempt" /\ step' = "fall_back"
         \/ /\ turn' = 7 /\ step' = "initialize"
  <2>1. Service = "wifi"
    BY OrderIs DEF Service
  <2>2. \/ Connect \/ TryToConnect
        \/ \E ok \in BOOLEAN : InitializeWifi(ok) \/ EndConnect(ok) \/ FallBack(ok)
    BY <2>1 DEF setup, InitializeOther, InitializeMotorServo, StartOther, ProbeBoard, PollBoard,
                InitializeAmakerBot, At, Services
  <2>3. tries \in 0..MaxAttempts /\ MaxAttempts \in Nat
    BY MaxAttemptsAssumption DEF Typed, SettingsTyped
  <2>4. CASE Connect
    BY <2>3, <2>4 DEF Connect, At, wifiVars
  <2>5. CASE TryToConnect
    BY <2>3, <2>5 DEF TryToConnect, At, Attempt
  <2>6. ASSUME NEW ok \in BOOLEAN, InitializeWifi(ok)
        PROVE  turn' = 6 /\ step = "initialize" /\ step' = "start" /\ tries' = tries
    BY <2>6 DEF InitializeWifi, At, Initialized, loadSettings
  <2>7. ASSUME NEW ok \in BOOLEAN, EndConnect(ok)
        PROVE  /\ step = "attempt"
               /\ (turn' = 6 /\ step' = "fall_back") \/ (turn' = 7 /\ step' = "initialize")
    BY <2>7 DEF EndConnect, At, Started, NextService
  <2>8. ASSUME NEW ok \in BOOLEAN, FallBack(ok)
        PROVE  step = "fall_back" /\ turn' = 7 /\ step' = "initialize"
    BY <2>8 DEF FallBack, At, Started, NextService
  <2>9. QED
    BY <2>2, <2>3, <2>4, <2>5, <2>6, <2>7, <2>8
<1>2. PollsLeft = 0 /\ PollsLeft' = 0
  BY <1>1 DEF PollsLeft
<1>3. /\ Taken["initialize"] = 0 /\ Taken["start"] = 2 /\ Taken["attempt"] = 3
      /\ Taken["fall_back"] = 4
  BY DEF Taken
<1>4. CASE turn' = 6 /\ step' # "fall_back"
  <2>1. /\ AttemptsLeft = MaxAttempts - tries /\ AttemptsLeft' = MaxAttempts - tries'
    BY <1>1, <1>4, OrderIs DEF AttemptsLeft
  <2>2. QED
    BY <1>1, <1>2, <1>3, <1>4, <2>1, LeftTyped, OrderIs DEF SetupLeft
<1>5. CASE turn' = 7 \/ step' = "fall_back"
  <2>1. AttemptsLeft' = 0
    BY <1>5, OrderIs DEF AttemptsLeft
  <2>2. QED
    BY <1>1, <1>2, <1>3, <1>5, <2>1, LeftTyped, OrderIs DEF SetupLeft
<1>6. QED
  BY <1>1, <1>4, <1>5

(* No service holds up the ones behind it: setup() is bounded.             *)
THEOREM BootRunsDownHolds == Spec => BootRunsDown
<1> DEFINE RunsDown ==
      /\ SetupLeft = 0 <=> TasksCreated
      /\ SetupLeft' \in IF setup THEN 0..(SetupLeft - 1)
                        ELSE IF cuts' # cuts THEN {30 + BoardRetries + MaxAttempts}
                        ELSE {SetupLeft}
<1>1. FirmwareInv => SetupLeft \in Nat
  BY LeftTyped
<1>2. FirmwareInv /\ FirmwareInv' /\ (SetupLeft \in Nat)' /\ [Next]_vars => RunsDown
  <2> SUFFICES ASSUME FirmwareInv, FirmwareInv', (SetupLeft \in Nat)', [Next]_vars
               PROVE  RunsDown
    OBVIOUS
  <2>1. SetupLeft = 0 <=> TasksCreated
    BY LeftTyped
  <2>2. SetupLeft \in Nat /\ SetupLeft' \in Nat
    BY LeftTyped
  <2>3. CASE setup
    <3>1. turn \in 1..6
      BY <2>3, SetupMoves
    <3>2. SetupLeft' < SetupLeft
      BY <2>3, <3>1, OthersRunDown, BoardRunsDown, WifiRunsDown
    <3>3. SetupLeft' \in 0..(SetupLeft - 1)
      BY <2>2, <3>2
    <3>4. QED
      BY <2>1, <2>3, <3>3
  <2>4. CASE PowerCut /\ ~setup
    <3>1. /\ cuts' = cuts + 1 /\ cuts \in Nat
          /\ turn' = 1 /\ step' = "initialize" /\ polls' = 0 /\ tries' = 0
      BY <2>4, BoundsAssumption DEF PowerCut, WiFiPowerCut, FirmwareInv, Typed, CountsTyped
    <3>2. PollsLeft' = BoardRetries /\ AttemptsLeft' = MaxAttempts /\ Taken[step'] = 0
      BY <3>1, LeftTyped, OrderIs DEF PollsLeft, AttemptsLeft, Taken
    <3>3. SetupLeft' = 30 + BoardRetries + MaxAttempts
      BY <3>1, <3>2, LeftTyped, OrderIs DEF SetupLeft
    <3>4. QED
      BY <2>1, <2>4, <3>1, <3>3
  <2>5. CASE UNCHANGED <<turn, step, polls, tries, cuts>> /\ ~setup
    <3>1. PollsLeft' = PollsLeft /\ AttemptsLeft' = AttemptsLeft
      BY <2>5 DEF PollsLeft, AttemptsLeft
    <3>2. SetupLeft' = SetupLeft
      BY <2>5, <3>1 DEF SetupLeft
    <3>3. QED
      BY <2>1, <2>5, <3>2
  <2>6. CASE \/ xtask_bot_transport \/ xtask_web_server
             \/ \E t \in Tasks : Command(t) \/ RunHandler(t)
             \/ UNCHANGED vars
    <3>1. UNCHANGED <<turn, step, polls, cuts>>
      BY <2>6 DEF xtask_bot_transport, xtask_web_server, Open, Command, RunHandler, vars, bootVars
    <3>2. ASSUME NEW t \in Tasks, Handler(t) PROVE tries' = tries
      <4>1. ASSUME NEW ok \in BOOLEAN, NEW k \in Keys, Put(t, k, ok) \/ Wipe(t, k, ok)
            PROVE  tries' = tries
        BY <4>1 DEF Put, Wipe
      <4>2. QED
        BY <3>2, <4>1 DEF Handler, AssignBegin, AssignEnd, OpenPrefs, Reply
    <3>3. tries' = tries
      BY <2>6, <3>2 DEF xtask_bot_transport, xtask_web_server, Open, Command, RunHandler, vars, wifiVars,
        SetWifi, ResetWifi, Enter
    <3>4. QED
      BY <2>3, <2>5, <3>1, <3>3
  <2>7. QED
    BY <2>3, <2>4, <2>6 DEF Next
<1>3. Spec => [][RunsDown]_vars
  BY <1>1, <1>2, FirmwareInvHolds, PTL DEF Spec
<1>4. QED
  BY <1>3 DEF BootRunsDown
=============================================================================
