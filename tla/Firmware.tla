------------------------------ MODULE Firmware ------------------------------
(***************************************************************************)
(* A boot of the controller: setup() brings up six services one after the  *)
(* other, whatever becomes of them, and creates two tasks that open the    *)
(* servers; then the handlers of the WiFi commands may run.  The power may *)
(* go at any moment.                                                       *)
(***************************************************************************)
EXTENDS WiFiService, Sequences

CONSTANTS
  BoardRetries,  \* how often begin() polls the board again: 100
  MaxCuts,       \* bound: power cuts
  MaxCommands    \* bound: commands

ASSUME BoundsAssumption == {BoardRetries, MaxCuts, MaxCommands} \subseteq Nat

(* The services in the order of setup(), and its two tasks.                *)
Services == {"ui", "board", "motor_servo", "led", "amaker_bot", "wifi"}
Order == <<"ui", "board", "motor_servo", "led", "amaker_bot", "wifi">>
FirmwareTasks == {"transport", "web_server"}

VARIABLES
  status,    \* per service: its ServiceStatus
  turn,      \* setup(): the index of the service in Order; past it, the tasks
  step,      \* setup(): where in start_service() it is
  polls,     \* begin(): failed polls
  listening, \* the tasks that have tried to open their servers
  loaded,    \* history: setup() could open NVS and has yet to end
  cuts,      \* power cuts so far
  commands   \* commands so far

bootVars == <<status, turn, step, polls, listening, loaded, cuts, commands>>
vars == <<wifiVars, bootVars>>

AllUninitialized == [s \in Services |-> "UNINITIALIZED"]

Init ==
  /\ WiFiInit
  /\ status = AllUninitialized
  /\ turn = 1 /\ step = "initialize" /\ polls = 0
  /\ listening = {} /\ loaded = FALSE /\ cuts = 0 /\ commands = 0

-----------------------------------------------------------------------------
(* start_service().                                                        *)

Service == Order[turn]
At(s, here) == turn <= Len(Order) /\ Service = s /\ step = here

(* Its results are not looked at: the next service has its turn.           *)
NextService == turn' = turn + 1 /\ step' = "initialize"

SetStatus(s) == status' = [status EXCEPT ![Service] = s]

(* initializeService(): on success startService() is next.                 *)
Initialized == SetStatus("INITIALIZED") /\ step' = "start" /\ UNCHANGED turn

(* Mutant of InitializedFailed: the service is started all the same.       *)
InitializedFailedGoesOn == SetStatus("INITIALIZED_FAILED") /\ step' = "start" /\ UNCHANGED turn

InitializedFailed == SetStatus("INITIALIZED_FAILED") /\ NextService

(* startService() wants INITIALIZED.                                       *)
Started == SetStatus("STARTED") /\ NextService

StayingUp == UNCHANGED <<listening, cuts, commands>>

(* The screens, the LEDs.                                                  *)
InitializeOther ==
  /\ At("ui", "initialize") \/ At("led", "initialize")
  /\ Initialized
  /\ UNCHANGED <<wifiVars, polls, loaded>> /\ StayingUp

(* The expansion board: begin() probes it; unless it answers that was all. *)
ProbeBoard(acked) ==
  /\ At("board", "initialize")
  /\ IF acked THEN step' = "poll" /\ UNCHANGED <<status, turn>> ELSE InitializedFailed
  /\ UNCHANGED <<wifiVars, polls, loaded>> /\ StayingUp

(* Mutant of PollBoard: the count wraps before it exceeds the limit.       *)
PollBoardWrapped(acked) ==
  /\ At("board", "poll")
  /\ IF acked THEN Initialized /\ polls' = 0
     ELSE polls' = (polls + 1) % (BoardRetries + 1) /\ UNCHANGED <<status, turn, step>>
  /\ UNCHANGED <<wifiVars, loaded>> /\ StayingUp

(* After the reset of its sensors, sent once, it is polled.                *)
PollBoard(acked) ==
  /\ At("board", "poll")
  /\ IF acked THEN Initialized /\ polls' = 0
     ELSE IF polls >= BoardRetries THEN InitializedFailed /\ polls' = 0
     ELSE polls' = polls + 1 /\ UNCHANGED <<status, turn, step>>
  /\ UNCHANGED <<wifiVars, loaded>> /\ StayingUp

(* The motors need the board.                                              *)
InitializeMotorServo ==
  /\ At("motor_servo", "initialize")
  /\ IF status["board"] = "STARTED" THEN Initialized ELSE InitializedFailed
  /\ UNCHANGED <<wifiVars, polls, loaded>> /\ StayingUp

(* The bot needs two mutexes.                                              *)
InitializeAmakerBot(memory) ==
  /\ At("amaker_bot", "initialize")
  /\ IF memory THEN Initialized ELSE InitializedFailed
  /\ UNCHANGED <<wifiVars, polls, loaded>> /\ StayingUp

(* The WiFi service loads its settings.                                    *)
InitializeWifi(ok) ==
  /\ At("wifi", "initialize")
  /\ loadSettings(ok)
  /\ loaded' = ok
  /\ Initialized
  /\ UNCHANGED polls /\ StayingUp

(* All but the WiFi service just start; the LEDs do without the board too. *)
StartOther ==
  /\ \E s \in Services \ {"wifi"} : At(s, "start")
  /\ Started
  /\ UNCHANGED <<wifiVars, polls, loaded>> /\ StayingUp

(* connect_and_fallback().                                                 *)
Connect ==
  /\ At("wifi", "start")
  /\ step' = IF Joining THEN "attempt" ELSE "fall_back"
  /\ UNCHANGED <<wifiVars, status, turn, polls, loaded>> /\ StayingUp

TryToConnect ==
  /\ At("wifi", "attempt")
  /\ Attempt
  /\ UNCHANGED <<field, nvs, link, handlerVars, owed, status, turn, step, polls, loaded>>
  /\ StayingUp

EndConnect(up) ==
  /\ At("wifi", "attempt")
  /\ Verdict(up)
  /\ IF up THEN Started ELSE step' = "fall_back" /\ UNCHANGED <<status, turn>>
  /\ loaded' = (loaded /\ ~up)
  /\ UNCHANGED <<field, nvs, handlerVars, owed, polls>> /\ StayingUp

(* Without an access point the status stays INITIALIZED: startService()    *)
(* names START_FAILED and does not set it.                                 *)
FallBack(ok) ==
  /\ At("wifi", "fall_back")
  /\ open_access_point(ok)
  /\ IF ok THEN Started ELSE NextService /\ UNCHANGED status
  /\ loaded' = FALSE
  /\ UNCHANGED <<field, nvs, tries, handlerVars, owed, polls>> /\ StayingUp

setup ==
  \/ InitializeOther \/ InitializeMotorServo \/ StartOther \/ Connect \/ TryToConnect
  \/ \E ok \in BOOLEAN :
       \/ ProbeBoard(ok) \/ PollBoard(ok) \/ InitializeAmakerBot(ok)
       \/ InitializeWifi(ok) \/ EndConnect(ok) \/ FallBack(ok)

-----------------------------------------------------------------------------
(* The tasks.                                                              *)

(* Mutant of TasksCreated: before the WiFi service has had its turn.       *)
TasksCreatedEarly == turn >= Len(Order)

TasksCreated == turn > Len(Order)

Open(task) ==
  /\ TasksCreated
  /\ task \notin listening
  /\ listening' = listening \cup {task}
  /\ UNCHANGED <<wifiVars, status, turn, step, polls, loaded, cuts, commands>>

(* UDP and WebSocket, then nothing more; whether they opened is not asked. *)
xtask_bot_transport == Open("transport")

(* HTTP and the camera's routes; the loop of ticks is AmakerBotUI's.       *)
xtask_web_server == Open("web_server")

(* The servers call handlers.  Without its mutexes the bot has no master,  *)
(* and only a master sets or resets.                                       *)
Command(t) ==
  /\ listening # {}
  /\ status["amaker_bot"] = "STARTED"
  /\ commands < MaxCommands
  /\ commands' = commands + 1
  /\ ResetWifi(t) \/ \E pair \in Pairs : SetWifi(t, pair)
  /\ UNCHANGED <<status, turn, step, polls, listening, loaded, cuts>>

RunHandler(t) == Handler(t) /\ UNCHANGED bootVars

PowerCut ==
  /\ cuts < MaxCuts
  /\ cuts' = cuts + 1
  /\ WiFiPowerCut
  /\ status' = AllUninitialized
  /\ turn' = 1 /\ step' = "initialize" /\ polls' = 0
  /\ listening' = {} /\ loaded' = FALSE
  /\ UNCHANGED commands

Next ==
  \/ setup \/ xtask_bot_transport \/ xtask_web_server
  \/ \E t \in Tasks : Command(t) \/ RunHandler(t)
  \/ PowerCut

(* setup() and the two tasks it creates run on; nothing is assumed of the  *)
(* board, the network, the memory, the clients and the power, other than   *)
(* that it is not cut for ever.                                            *)
Spec == Init /\ [][Next]_vars
FairSpec ==
  /\ Spec
  /\ WF_vars(setup) /\ WF_vars(xtask_bot_transport) /\ WF_vars(xtask_web_server)

-----------------------------------------------------------------------------
(* Properties.                                                             *)

(* Every variable has its type.                                            *)
TypeOK ==
  /\ WiFiTypeOK
  /\ status \in [Services -> {"UNINITIALIZED", "INITIALIZED", "INITIALIZED_FAILED", "STARTED"}]
  /\ turn \in 1..(Len(Order) + 1)
  /\ step \in {"initialize", "poll", "start", "attempt", "fall_back"}
  /\ polls \in 0..BoardRetries
  /\ listening \subseteq FirmwareTasks
  /\ loaded \in BOOLEAN /\ cuts \in 0..MaxCuts /\ commands \in 0..MaxCommands

(* No command arrives before the last service had its turn, and then, if   *)
(* the board answered, motors and LEDs run: the order of setup() gives     *)
(* each service what it asks for when it is initialized.                   *)
ServedByDecidedServices ==
  listening # {} =>
    /\ \A s \in Services : status[s] # "UNINITIALIZED"
    /\ status["board"] = "STARTED" => status["motor_servo"] = "STARTED"
    /\ status["wifi"] = "STARTED" <=> link # NoLink

(* A boot connects with the pair of the last SET_WIFI or RESET_WIFI that   *)
(* was answered, cut off where a C string ends, if that command met no     *)
(* other and NVS did its work, however many cuts and mixed sets there were *)
(* before; a later command that was cut off makes nothing certain.         *)
RestartFindsLastSettings ==
  owed # Unknown /\ loaded => PairOf(field) = owed

(* The name and password of the bot's own access point stay the ones a     *)
(* client knows, in memory and in NVS: no race, fault or cut changes them. *)
AccessPointKnown ==
  /\ \A k \in Keys \ {"ssid", "password"} : field[k] = Default /\ nvs[k] = Default
  /\ link.mode = "ap" => link.ssid = Default

Lifecycle == INSTANCE ServiceLifecycle WITH serving <- (listening # {})

(* Each service goes through its lifecycle as its interface documents it,  *)
(* skipping no state and leaving none that is final, and none of them      *)
(* changes while handlers of two tasks rely on it.                         *)
LifecyclePromise == Lifecycle!Spec

(* The steps that setup() has ahead of it: five for a service at most, the *)
(* polls of the board and the connection attempts.                         *)
Taken == [initialize |-> 0, poll |-> 1, start |-> 2, attempt |-> 3, fall_back |-> 4]

PollsLeft ==
  IF turn = 1 \/ (turn = 2 /\ step \in {"initialize", "poll"}) THEN BoardRetries - polls ELSE 0

AttemptsLeft == IF turn <= Len(Order) /\ step # "fall_back" THEN MaxAttempts - tries ELSE 0

SetupLeft == 5 * (Len(Order) + 1 - turn) - Taken[step] + PollsLeft + AttemptsLeft

(* Whatever the services do, each step of setup() brings it nearer to the  *)
(* creation of its tasks, which ends it, and nothing but a power cut puts  *)
(* it back: no service can keep the ones behind it waiting for ever.       *)
BootRunsDown ==
  [][/\ SetupLeft = 0 <=> TasksCreated
     /\ SetupLeft' \in IF setup THEN 0..(SetupLeft - 1)
                       ELSE IF cuts' # cuts THEN {30 + BoardRetries + MaxAttempts}
                       ELSE {SetupLeft}]_vars

(* Every boot comes to its servers: no service holds it up for ever.       *)
BootEnds == <>[](listening = FirmwareTasks)
=============================================================================
