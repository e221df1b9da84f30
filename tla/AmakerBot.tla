----------------------------- MODULE AmakerBot -----------------------------
(***************************************************************************)
(* AmakerBotService: the master registry, the heartbeat watchdog and the   *)
(* bot's own commands (service id 0x04), as they run in the firmware: the  *)
(* AsyncUDP task and the AsyncTCP task (WebSocket and HTTP) each execute   *)
(* handlers, and a handler is a sequence of steps, one per critical        *)
(* section or access to a shared volatile, between which the other tasks   *)
(* run.                                                                    *)
(***************************************************************************)
EXTENDS Integers

CONSTANTS
  IPs,               \* client addresses
  NoIP,              \* the empty string: "no master", and the sender of HTTP commands
  Names,             \* bot names a client may set
  DefaultName,       \* the name after a boot
  Commands,          \* the commands clients send in this instance
  Transports,        \* the transports they use
  SendsMalformed,    \* they also send payloads the code refuses
  HeartbeatTimeout,  \* HEARTBEAT_TIMEOUT_MS, in ticks of millis()
  ClockModulus,      \* millis() is an unsigned long: 2^32
  MaxTime,           \* bound: the last tick of the clock
  WatchdogWired      \* a task calls checkHeartbeatTimeout() and the callback is set

AllCommands == {"CMD_REGISTER", "CMD_UNREGISTER", "CMD_HEARTBEAT", "CMD_PING",
                "CMD_GET_NAME", "CMD_SET_NAME", "CMD_REBOOT", "MOTORS", "UNKNOWN"}

ASSUME NoIPAssumption == NoIP \notin IPs
ASSUME CommandsAssumption == Commands \subseteq AllCommands
ASSUME TransportsAssumption == Transports \subseteq {"udp", "ws", "http"}
ASSUME WiringAssumption == WatchdogWired \in BOOLEAN
ASSUME MalformedAssumption == SendsMalformed \in BOOLEAN
ASSUME ClockAssumption ==
  /\ MaxTime \in Nat
  /\ HeartbeatTimeout \in Nat
  /\ ClockModulus \in Nat
  /\ MaxTime < ClockModulus

Tasks == {"udp", "tcp"}

TaskOf(via) == IF via = "udp" THEN "udp" ELSE "tcp"

(* "short": too few bytes; "bad": the wrong token, or a name that is too   *)
(* long; "good": everything else.                                          *)
Malformed(c) ==
  CASE c \in {"CMD_REGISTER", "CMD_SET_NAME"} -> {"short", "bad"}
    [] c = "CMD_PING"                          -> {"short"}
    [] OTHER                                   -> {}

Payloads(c) == {"good"} \cup (IF SendsMalformed THEN Malformed(c) ELSE {})

Requests == [cmd : AllCommands \cup {"none"}, payload : {"short", "bad", "good"},
             via : {"udp", "ws", "http"}, peer : IPs \cup {NoIP}]

NoRequest == [cmd |-> "none", payload |-> "good", via |-> "udp", peer |-> NoIP]

Responses == {"none", "resp_ok", "resp_invalid_params", "resp_invalid_values",
              "resp_operation_failed", "resp_unknown_cmd", "resp_not_master", "echo"}

Never == -1

VARIABLES
  master_ip, last_seen_ms, heartbeat_active, heartbeat_timed_out, bot_name,
  now,          \* millis()
  outputs,      \* what the motor and servo outputs do: "stopped" or "driven"
  pc,           \* per task: where its handler is
  req,          \* per task: the command it handles
  reply,        \* per task: the response code of that command once known
  beat_ms,      \* per task: the millis() its heartbeat read, until it is stored
  wd_pc,        \* where checkHeartbeatTimeout() is
  wd_millis,    \* its first operand: the millis() it read
  wd_late,      \* its elapsed > HEARTBEAT_TIMEOUT_MS
  tokenShown,   \* history: the addresses that presented the server token
  heardAt,      \* history: when the last heartbeat arrived
  met,          \* history: a heartbeat was handled while the check was under way
  stale,        \* history: the last store of last_seen_ms went back in time
  rechecked     \* history: a whole check has run since the last heartbeat was handled

registryVars == <<master_ip, bot_name, tokenShown>>
beatVars == <<last_seen_ms, heartbeat_active, heartbeat_timed_out>>
taskVars == <<pc, req, reply, beat_ms>>
silenceVars == <<heardAt, met, stale, rechecked>>
wdVars   == <<wd_pc, wd_millis, wd_late, silenceVars>>
vars == <<registryVars, beatVars, taskVars, wdVars, now, outputs>>

Init ==
  /\ master_ip = NoIP
  /\ last_seen_ms = 0
  /\ heartbeat_active = FALSE
  /\ heartbeat_timed_out = FALSE
  /\ bot_name = DefaultName
  /\ now = 0
  /\ outputs = "stopped"
  /\ pc = [t \in Tasks |-> "idle"]
  /\ req = [t \in Tasks |-> NoRequest]
  /\ reply = [t \in Tasks |-> "none"]
  /\ beat_ms = [t \in Tasks |-> 0]
  /\ wd_pc = "idle"
  /\ wd_millis = 0
  /\ wd_late = FALSE
  /\ tokenShown = {}
  /\ heardAt = Never
  /\ met = FALSE
  /\ stale = FALSE
  /\ rechecked = FALSE

-----------------------------------------------------------------------------
(* Handler plumbing.                                                       *)

(* HTTP calls dispatch(data, len) without the sender's address.            *)
SenderIP(t) == IF req[t].via = "http" THEN NoIP ELSE req[t].peer

(* Mutant of IsMaster: the test for an empty master is dropped.            *)
IsMasterOrNobody(t) == master_ip = SenderIP(t)

IsMaster(t) == master_ip # NoIP /\ master_ip = SenderIP(t)

(* A handler of t that is at label l and handles command c.                *)
At(t, l, c) == pc[t] = l /\ req[t].cmd = c

Goto(t, l) == /\ pc' = [pc EXCEPT ![t] = l]
              /\ UNCHANGED <<req, reply, beat_ms>>

Answer(t, r) == /\ pc' = [pc EXCEPT ![t] = "reply"]
                /\ reply' = [reply EXCEPT ![t] = r]
                /\ UNCHANGED <<req, beat_ms>>

Finish(t) == /\ pc' = [pc EXCEPT ![t] = "idle"]
             /\ req' = [req EXCEPT ![t] = NoRequest]
             /\ reply' = [reply EXCEPT ![t] = "none"]
             /\ UNCHANGED beat_ms

(* A command arrives from peer over via, and its task starts to handle it. *)
Receive(c, p, via, peer) ==
  /\ pc[TaskOf(via)] = "idle"
  /\ pc' = [pc EXCEPT ![TaskOf(via)] = "handle"]
  /\ req' = [req EXCEPT ![TaskOf(via)] =
               [cmd |-> c, payload |-> p, via |-> via, peer |-> peer]]
  /\ heardAt' = IF c = "CMD_HEARTBEAT" THEN now ELSE heardAt
  /\ met' = (met \/ (c = "CMD_HEARTBEAT" /\ wd_pc # "idle"))
  /\ rechecked' = (rechecked /\ c # "CMD_HEARTBEAT")
  /\ UNCHANGED <<registryVars, beatVars, wd_pc, wd_millis, wd_late, stale, now, outputs,
                 reply, beat_ms>>

(* The reply is handed to the transport and the task is free again.        *)
Reply(t) ==
  /\ pc[t] = "reply"
  /\ Finish(t)
  /\ UNCHANGED <<registryVars, beatVars, wdVars, now, outputs>>

-----------------------------------------------------------------------------
(* CMD_HEARTBEAT: no test of the sender, no reply.  updateMasterLastSeen() *)
(* reads millis() and then stores it; the other task, or the clock, may    *)
(* come in between.  The local is cleared when it is stored.               *)

HeartbeatRead(t) ==
  /\ At(t, "handle", "CMD_HEARTBEAT")
  /\ beat_ms' = [beat_ms EXCEPT ![t] = now]
  /\ pc' = [pc EXCEPT ![t] = "hb_store"]
  /\ UNCHANGED <<registryVars, beatVars, req, reply, wdVars, now, outputs>>

HeartbeatStore(t) ==
  /\ pc[t] = "hb_store"
  /\ last_seen_ms' = beat_ms[t]
  /\ stale' = (beat_ms[t] < last_seen_ms)
  /\ beat_ms' = [beat_ms EXCEPT ![t] = 0]
  /\ pc' = [pc EXCEPT ![t] = "hb_active"]
  /\ UNCHANGED <<registryVars, heartbeat_active, heartbeat_timed_out, req, reply, wd_pc,
                 wd_millis, wd_late, heardAt, met, rechecked, now, outputs>>

HeartbeatActive(t) ==
  /\ pc[t] = "hb_active"
  /\ heartbeat_active' = TRUE
  /\ Goto(t, "hb_reset")
  /\ UNCHANGED <<registryVars, last_seen_ms, heartbeat_timed_out, wdVars, now, outputs>>

HeartbeatReset(t) ==
  /\ pc[t] = "hb_reset"
  /\ heartbeat_timed_out' = FALSE
  /\ Finish(t)
  /\ UNCHANGED <<registryVars, last_seen_ms, heartbeat_active, wdVars, now, outputs>>

-----------------------------------------------------------------------------
(* CMD_REGISTER: the token, then isMaster(), then registerMaster(), each   *)
(* taking the mutex on its own, then the two resets outside it.            *)

RegisterCheck(t) ==
  /\ At(t, "handle", "CMD_REGISTER")
  /\ tokenShown' = IF req[t].payload = "good" THEN tokenShown \cup ({SenderIP(t)} \cap IPs)
                                              ELSE tokenShown
  /\ \/ /\ req[t].payload = "short"
        /\ Answer(t, "resp_invalid_params")
     \/ /\ req[t].payload = "bad"
        /\ Answer(t, "resp_not_master")
     \/ /\ req[t].payload = "good"
        /\ IsMaster(t)
        /\ Answer(t, "resp_ok")
     \/ /\ req[t].payload = "good"
        /\ ~IsMaster(t)
        /\ Goto(t, "reg_take")
  /\ UNCHANGED <<master_ip, bot_name, beatVars, wdVars, now, outputs>>

(* Mutant of RegisterTake: registerMaster() without its already_set test.  *)
RegisterTakeAlways(t) ==
  /\ pc[t] = "reg_take"
  /\ master_ip' = SenderIP(t)
  /\ pc' = [pc EXCEPT ![t] = "reg_active"]
  /\ reply' = [reply EXCEPT ![t] = "resp_ok"]
  /\ UNCHANGED <<req, beat_ms, bot_name, tokenShown, beatVars, wdVars, now, outputs>>

RegisterTake(t) ==
  /\ pc[t] = "reg_take"
  /\ IF master_ip = NoIP
       THEN /\ master_ip' = SenderIP(t)
            /\ pc' = [pc EXCEPT ![t] = "reg_active"]
            /\ reply' = [reply EXCEPT ![t] = "resp_ok"]
            /\ UNCHANGED <<req, beat_ms>>
       ELSE /\ Answer(t, "resp_operation_failed")
            /\ UNCHANGED master_ip
  /\ UNCHANGED <<bot_name, tokenShown, beatVars, wdVars, now, outputs>>

RegisterActive(t) ==
  /\ pc[t] = "reg_active"
  /\ heartbeat_active' = FALSE
  /\ Goto(t, "reg_reset")
  /\ UNCHANGED <<registryVars, last_seen_ms, heartbeat_timed_out, wdVars, now, outputs>>

RegisterReset(t) ==
  /\ pc[t] = "reg_reset"
  /\ heartbeat_timed_out' = FALSE
  /\ Goto(t, "reply")
  /\ UNCHANGED <<registryVars, last_seen_ms, heartbeat_active, wdVars, now, outputs>>

(* Mutant of Unregister: always answers ok, as if it could not fail.       *)
UnregisterAlwaysOk(t) ==
  /\ At(t, "handle", "CMD_UNREGISTER")
  /\ master_ip' = IF master_ip = SenderIP(t) THEN NoIP ELSE master_ip
  /\ Answer(t, "resp_ok")
  /\ UNCHANGED <<bot_name, tokenShown, beatVars, wdVars, now, outputs>>

(* CMD_UNREGISTER: compares without a test for an empty master.            *)
Unregister(t) ==
  /\ At(t, "handle", "CMD_UNREGISTER")
  /\ IF master_ip = SenderIP(t)
       THEN master_ip' = NoIP /\ Answer(t, "resp_ok")
       ELSE UNCHANGED master_ip /\ Answer(t, "resp_not_master")
  /\ UNCHANGED <<bot_name, tokenShown, beatVars, wdVars, now, outputs>>

-----------------------------------------------------------------------------
(* The other commands of service 0x04.                                     *)

(* CMD_PING, CMD_GET_NAME and unknown commands change nothing.             *)
ReadOnly(t) ==
  /\ pc[t] = "handle"
  /\ \/ /\ req[t].cmd = "CMD_PING"
        /\ Answer(t, IF req[t].payload = "short" THEN "resp_invalid_params" ELSE "echo")
     \/ req[t].cmd = "CMD_GET_NAME" /\ Answer(t, "resp_ok")
     \/ req[t].cmd = "UNKNOWN" /\ Answer(t, "resp_unknown_cmd")
  /\ UNCHANGED <<registryVars, beatVars, wdVars, now, outputs>>

(* CMD_SET_NAME: the test of the master and the write are two critical     *)
(* sections of two mutexes.                                                *)
SetNameCheck(t) ==
  /\ At(t, "handle", "CMD_SET_NAME")
  /\ \/ ~IsMaster(t) /\ Answer(t, "resp_not_master")
     \/ IsMaster(t) /\ req[t].payload = "short" /\ Answer(t, "resp_invalid_params")
     \/ IsMaster(t) /\ req[t].payload = "bad" /\ Answer(t, "resp_invalid_values")
     \/ IsMaster(t) /\ req[t].payload = "good" /\ Goto(t, "name_write")
  /\ UNCHANGED <<registryVars, beatVars, wdVars, now, outputs>>

SetNameWrite(t) ==
  /\ pc[t] = "name_write"
  /\ bot_name' \in Names
  /\ Answer(t, "resp_ok")
  /\ UNCHANGED <<master_ip, tokenShown, beatVars, wdVars, now, outputs>>

(* CMD_REBOOT: the emergency callback if one is set, delay(20), restart.   *)
RebootCheck(t) ==
  /\ At(t, "handle", "CMD_REBOOT")
  /\ IF IsMaster(t) THEN Goto(t, "reboot") ELSE Answer(t, "resp_not_master")
  /\ UNCHANGED <<registryVars, beatVars, wdVars, now, outputs>>

RebootStop(t) ==
  /\ pc[t] = "reboot"
  /\ outputs' = IF WatchdogWired THEN "stopped" ELSE outputs
  /\ Goto(t, "restart")
  /\ UNCHANGED <<registryVars, beatVars, wdVars, now>>

(* The board boots again.  The outputs belong to the expansion board: the  *)
(* motor service zeroes its caches and writes nothing to it at boot, and   *)
(* whether the board's sensor-reset register stops them is the board's.    *)
Restart(t) ==
  /\ pc[t] = "restart"
  /\ master_ip' = NoIP
  /\ last_seen_ms' = 0
  /\ heartbeat_active' = FALSE
  /\ heartbeat_timed_out' = FALSE
  /\ bot_name' = DefaultName
  /\ now' = 0
  /\ pc' = [u \in Tasks |-> "idle"]
  /\ req' = [u \in Tasks |-> NoRequest]
  /\ reply' = [u \in Tasks |-> "none"]
  /\ beat_ms' = [u \in Tasks |-> 0]
  /\ wd_pc' = "idle"
  /\ wd_millis' = 0
  /\ wd_late' = FALSE
  /\ tokenShown' = {}
  /\ heardAt' = Never
  /\ met' = FALSE
  /\ stale' = FALSE
  /\ rechecked' = FALSE
  /\ outputs' \in {outputs, "stopped"}

(* A motor or servo command: dispatch() hands it to MotorServoService      *)
(* without the sender's address, so no master test is made.                *)
Motors(t) ==
  /\ At(t, "handle", "MOTORS")
  /\ outputs' \in {"driven", "stopped"}
  /\ Answer(t, "resp_ok")
  /\ UNCHANGED <<registryVars, beatVars, wdVars, now>>

-----------------------------------------------------------------------------
(* checkHeartbeatTimeout(), called periodically when WatchdogWired.        *)

(* The check goes to label l, or ends.                                     *)
CheckGoto(l) == wd_pc' = l /\ UNCHANGED rechecked

CheckEnd == wd_pc' = "idle" /\ rechecked' = (rechecked \/ ~met)

WatchdogMaster ==
  /\ WatchdogWired
  /\ wd_pc = "idle"
  /\ master_ip # NoIP
  /\ CheckGoto("active")
  /\ met' = \E t \in Tasks : req[t].cmd = "CMD_HEARTBEAT"
  /\ UNCHANGED <<registryVars, beatVars, taskVars, wd_millis, wd_late, heardAt, stale, now, outputs>>

WatchdogActive ==
  /\ wd_pc = "active"
  /\ IF heartbeat_active THEN CheckGoto("millis") ELSE CheckEnd
  /\ UNCHANGED <<registryVars, beatVars, taskVars, wd_millis, wd_late, heardAt, met, stale, now, outputs>>

WatchdogMillis ==
  /\ wd_pc = "millis"
  /\ wd_millis' = now
  /\ CheckGoto("elapsed")
  /\ UNCHANGED <<registryVars, beatVars, taskVars, wd_late, heardAt, met, stale, now, outputs>>

(* Mutant of WatchdogElapsed: late already at the timeout.                 *)
WatchdogElapsedEarly ==
  /\ wd_pc = "elapsed"
  /\ wd_late' = ((wd_millis - last_seen_ms) % ClockModulus >= HeartbeatTimeout)
  /\ CheckGoto("decide")
  /\ UNCHANGED <<registryVars, beatVars, taskVars, wd_millis, heardAt, met, stale, now, outputs>>

WatchdogElapsed ==
  /\ wd_pc = "elapsed"
  /\ wd_late' = ((wd_millis - last_seen_ms) % ClockModulus > HeartbeatTimeout)
  /\ CheckGoto("decide")
  /\ UNCHANGED <<registryVars, beatVars, taskVars, wd_millis, heardAt, met, stale, now, outputs>>

(* Mutant of WatchdogDecide: without the branch that takes a time-out back *)
(* when the heartbeat is restored.                                         *)
WatchdogDecideForGood ==
  /\ wd_pc = "decide"
  /\ IF wd_late /\ ~heartbeat_timed_out THEN CheckGoto("latch") ELSE CheckEnd
  /\ wd_late' = FALSE
  /\ wd_millis' = 0
  /\ UNCHANGED <<registryVars, beatVars, taskVars, heardAt, met, stale, now, outputs>>

(* The test of the latch; its write is a step of its own, and a handler's  *)
(* reset may run between the two.                                          *)
WatchdogDecide ==
  /\ wd_pc = "decide"
  /\ \/ wd_late /\ ~heartbeat_timed_out /\ CheckGoto("latch")
     \/ ~wd_late /\ heartbeat_timed_out /\ CheckGoto("unlatch")
     \/ (wd_late <=> heartbeat_timed_out) /\ CheckEnd
  /\ wd_late' = FALSE
  /\ wd_millis' = 0
  /\ UNCHANGED <<registryVars, beatVars, taskVars, heardAt, met, stale, now, outputs>>

WatchdogLatch ==
  /\ wd_pc = "latch"
  /\ heartbeat_timed_out' = TRUE
  /\ CheckGoto("fire")
  /\ UNCHANGED <<registryVars, last_seen_ms, heartbeat_active, taskVars, wd_millis, wd_late,
                 heardAt, met, stale, now, outputs>>

WatchdogUnlatch ==
  /\ wd_pc = "unlatch"
  /\ heartbeat_timed_out' = FALSE
  /\ CheckEnd
  /\ UNCHANGED <<registryVars, last_seen_ms, heartbeat_active, taskVars, wd_millis, wd_late,
                 heardAt, met, stale, now, outputs>>

WatchdogFire ==
  /\ wd_pc = "fire"
  /\ outputs' = "stopped"
  /\ CheckEnd
  /\ UNCHANGED <<registryVars, beatVars, taskVars, wd_millis, wd_late, heardAt, met, stale, now>>

CheckHeartbeatTimeout ==
  \/ WatchdogMaster \/ WatchdogActive \/ WatchdogMillis \/ WatchdogElapsed
  \/ WatchdogDecide \/ WatchdogLatch \/ WatchdogUnlatch \/ WatchdogFire

Tick ==
  /\ now < MaxTime
  /\ now' = now + 1
  /\ UNCHANGED <<registryVars, beatVars, taskVars, wdVars, outputs>>

-----------------------------------------------------------------------------

Handler(t) ==
  \/ Reply(t)
  \/ HeartbeatRead(t) \/ HeartbeatStore(t) \/ HeartbeatActive(t) \/ HeartbeatReset(t)
  \/ RegisterCheck(t) \/ RegisterTake(t) \/ RegisterActive(t) \/ RegisterReset(t)
  \/ Unregister(t)
  \/ ReadOnly(t)
  \/ SetNameCheck(t) \/ SetNameWrite(t)
  \/ RebootCheck(t) \/ RebootStop(t) \/ Restart(t)
  \/ Motors(t)

Next ==
  \/ \E via \in Transports, peer \in IPs, c \in Commands :
       \E p \in Payloads(c) : Receive(c, p, via, peer)
  \/ \E t \in Tasks : Handler(t)
  \/ CheckHeartbeatTimeout
  \/ Tick

Spec == Init /\ [][Next]_vars

(* A task that runs a handler goes on, the periodic check is called again, *)
(* time passes.  Clients owe nothing.                                      *)
Fairness ==
  /\ \A t \in Tasks : WF_vars(Handler(t))
  /\ WF_vars(CheckHeartbeatTimeout)
  /\ WF_vars(Tick)

FairSpec == Spec /\ Fairness

-----------------------------------------------------------------------------
(* Properties.                                                             *)

(* Where a handler is.                                                     *)
Labels == {"idle", "handle", "hb_store", "hb_active", "hb_reset", "reg_take", "reg_active",
           "reg_reset", "name_write", "reboot", "restart", "reply"}

(* Every variable has its type.                                            *)
TypeOK ==
  /\ master_ip \in IPs \cup {NoIP}
  /\ last_seen_ms \in 0..MaxTime
  /\ heartbeat_active \in BOOLEAN
  /\ heartbeat_timed_out \in BOOLEAN
  /\ bot_name \in Names \cup {DefaultName}
  /\ now \in 0..MaxTime
  /\ outputs \in {"stopped", "driven"}
  /\ pc \in [Tasks -> Labels]
  /\ req \in [Tasks -> Requests]
  /\ reply \in [Tasks -> Responses]
  /\ wd_pc \in {"idle", "active", "millis", "elapsed", "decide", "latch", "unlatch", "fire"}
  /\ wd_millis \in 0..MaxTime
  /\ wd_late \in BOOLEAN
  /\ tokenShown \subseteq IPs
  /\ heardAt \in {Never} \cup 0..MaxTime
  /\ met \in BOOLEAN
  /\ stale \in BOOLEAN
  /\ rechecked \in BOOLEAN
  /\ beat_ms \in [Tasks -> 0..MaxTime]

(* Past the isMaster() test of a master-only command.                      *)
Privileged == {"name_write", "reboot", "restart"}

(* Whoever is master, and whoever is past the master test of SET_NAME or   *)
(* REBOOT, is an address that presented the server token since the boot:   *)
(* token test, registration and privileged command are separate steps, and *)
(* a command without an address (HTTP) never gets that far.                *)
MasterKnowsToken ==
  /\ master_ip # NoIP => master_ip \in tokenShown
  /\ \A t \in Tasks : pc[t] \in Privileged => SenderIP(t) \in tokenShown

(* The master never passes from one address to another directly: it is set *)
(* from empty, by the handler of the address it names, and cleared by the  *)
(* handler of the master's own UNREGISTER or by a restart.  The time-out   *)
(* of its heartbeat does not clear it.                                     *)
MasterHandover ==
  [][master_ip' # master_ip =>
       \/ /\ master_ip = NoIP
          /\ \E t \in Tasks : pc[t] = "reg_take" /\ SenderIP(t) = master_ip'
       \/ /\ master_ip' = NoIP
          /\ \E t \in Tasks : \/ pc[t] = "restart"
                             \/ /\ At(t, "handle", "CMD_UNREGISTER")
                                /\ SenderIP(t) = master_ip]_vars

(* The operation on the registry that t is handling, if any.               *)
Outcome(t) ==
  CASE reply[t] = "none"    -> "none"
    [] reply[t] = "resp_ok" -> "ok"
    [] OTHER                -> "refused"

CallOf(t) ==
  CASE req[t].cmd = "CMD_REGISTER" ->
         [op |-> IF req[t].payload = "good" THEN "register" ELSE "malformed",
          ip |-> SenderIP(t), answer |-> Outcome(t)]
    [] req[t].cmd = "CMD_UNREGISTER" ->
         [op |-> "unregister", ip |-> SenderIP(t), answer |-> Outcome(t)]
    [] OTHER -> [op |-> "none", ip |-> NoIP, answer |-> "none"]

Registry == INSTANCE MasterRegistry
              WITH master <- master_ip, call <- [t \in Tasks |-> CallOf(t)]

(* Registration and unregistration are linearizable: each takes effect     *)
(* once, between its arrival and its reply, and the reply says so.         *)
RegistryPromise == Registry!Spec

(* A master was heard and has been silent for longer than the timeout.     *)
Silent ==
  /\ master_ip # NoIP
  /\ heartbeat_active
  /\ now - last_seen_ms > HeartbeatTimeout

(* The alarm is false in two cases only: a heartbeat was handled while the *)
(* check was under way (whose subtraction may then wrap), or a heartbeat   *)
(* stored a time older than the one another had stored.  Otherwise the     *)
(* last heartbeat arrived longer ago than the timeout.                     *)
AlarmMeansSilence ==
  wd_pc = "fire" /\ ~met /\ ~stale => heardAt # Never /\ now - heardAt > HeartbeatTimeout

(* When a whole check has run since the last heartbeat was handled,        *)
(* outputs driven before a silence that lasts are stopped: that check took *)
(* back a time-out another one had latched while it raced with the         *)
(* heartbeat, and nothing two tasks do can latch it again unseen.          *)
SilenceStopsOutputs ==
  <>[]Silent => ((outputs = "driven" /\ ~Silent /\ rechecked) ~> (outputs = "stopped"))

-----------------------------------------------------------------------------
(* What a document says of this code; the run of this property ends in a   *)
(* counterexample.                                                         *)

(* docs: "If the connection drops while master is registered, the          *)
(* heartbeat watchdog fires within 50 ms and calls the emergency-stop      *)
(* callback": driven outputs of a silent master are stopped.               *)
DropStopsOutputs == (Silent /\ outputs = "driven") ~> (outputs = "stopped" \/ ~Silent)
=============================================================================
