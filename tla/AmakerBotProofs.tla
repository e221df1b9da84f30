-------------------------- MODULE AmakerBotProofs --------------------------
(***************************************************************************)
(* What AmakerBot guarantees for every set of clients, names, commands and *)
(* transports, every clock bound and with or without the watchdog.         *)
(***************************************************************************)
EXTENDS AmakerBot, TLAPS

USE DEF Tasks, Never, Labels

-----------------------------------------------------------------------------
(* The type invariant holds of every reachable state.                      *)
THEOREM TypeCorrect == Spec => []TypeOK
<1> USE DEF TypeOK
<1>0. 0 \in 0..MaxTime
  BY ClockAssumption
<1>1. Init => TypeOK
  <2>1. NoRequest \in Requests
    BY DEF NoRequest, Requests
  <2>2. QED
    BY <1>0, <2>1 DEF Init, Responses
<1>2. TypeOK /\ [Next]_vars => TypeOK'
  <2> SUFFICES ASSUME TypeOK, [Next]_vars PROVE TypeOK'
    OBVIOUS
  <2> USE DEF registryVars, beatVars, taskVars, wdVars, silenceVars, CheckGoto, CheckEnd
  <2>1. ASSUME NEW via \in Transports, NEW peer \in IPs, NEW c \in Commands,
               NEW p \in Payloads(c), Receive(c, p, via, peer)
        PROVE  TypeOK'
    <3>1. [cmd |-> c, payload |-> p, via |-> via, peer |-> peer] \in Requests
      BY <2>1, CommandsAssumption, TransportsAssumption DEF Requests, Payloads, Malformed
    <3>2. QED
      BY <2>1, <3>1 DEF Receive, TaskOf
  <2>2. ASSUME NEW t \in Tasks, Handler(t)
        PROVE  TypeOK'
    <3> USE DEF Goto, Answer, Finish, Responses, At
    <3>0. NoRequest \in Requests /\ SenderIP(t) \in IPs \cup {NoIP}
      BY DEF NoRequest, Requests, SenderIP
    <3>1. CASE Reply(t)            BY <3>0, <3>1 DEF Reply
    <3>2. CASE HeartbeatRead(t)    BY <3>2 DEF HeartbeatRead
    <3>18. CASE HeartbeatStore(t)  BY <1>0, <3>18 DEF HeartbeatStore
    <3>3. CASE HeartbeatActive(t)  BY <3>3 DEF HeartbeatActive
    <3>4. CASE HeartbeatReset(t)
      <4>1. heartbeat_timed_out' \in BOOLEAN
        BY <3>4 DEF HeartbeatReset
      <4>2. pc' \in [Tasks -> Labels] /\ req' \in [Tasks -> Requests]
            /\ reply' \in [Tasks -> Responses]
        BY <3>0, <3>4 DEF HeartbeatReset
      <4>3. QED
        BY <3>4, <4>1, <4>2 DEF HeartbeatReset
    <3>5. CASE RegisterCheck(t)    BY <3>0, <3>5 DEF RegisterCheck
    <3>6. CASE RegisterTake(t)     BY <3>0, <3>6 DEF RegisterTake
    <3>7. CASE RegisterActive(t)
      <4>1. heartbeat_active' \in BOOLEAN
        BY <3>7 DEF RegisterActive
      <4>2. pc' \in [Tasks -> Labels] /\ req' \in [Tasks -> Requests]
            /\ reply' \in [Tasks -> Responses]
        BY <3>7 DEF RegisterActive
      <4>3. QED
        BY <3>7, <4>1, <4>2 DEF RegisterActive
    <3>8. CASE RegisterReset(t)
      <4>1. heartbeat_timed_out' \in BOOLEAN
        BY <3>8 DEF RegisterReset
      <4>2. pc' \in [Tasks -> Labels] /\ req' \in [Tasks -> Requests]
            /\ reply' \in [Tasks -> Responses]
        BY <3>8 DEF RegisterReset
      <4>3. QED
        BY <3>8, <4>1, <4>2 DEF RegisterReset
    <3>9. CASE Unregister(t)       BY <3>9 DEF Unregister
    <3>10. CASE ReadOnly(t)        BY <3>10 DEF ReadOnly
    <3>11. CASE SetNameCheck(t)    BY <3>11 DEF SetNameCheck
    <3>12. CASE SetNameWrite(t)    BY <3>12 DEF SetNameWrite
    <3>13. CASE RebootCheck(t)     BY <3>13 DEF RebootCheck
    <3>14. CASE RebootStop(t)      BY <3>14 DEF RebootStop
    <3>15. CASE Restart(t)         BY <1>0, <3>0, <3>15 DEF Restart
    <3>16. CASE Motors(t)          BY <3>16 DEF Motors
    <3>17. QED
      BY <2>2, <3>1, <3>2, <3>3, <3>4, <3>5, <3>6, <3>7, <3>8, <3>9, <3>10, <3>11,
         <3>12, <3>13, <3>14, <3>15, <3>16, <3>18 DEF Handler
  <2>3. CASE CheckHeartbeatTimeout
    <3>1. CASE WatchdogMaster   BY <3>1 DEF WatchdogMaster
    <3>2. CASE WatchdogActive   BY <3>2 DEF WatchdogActive
    <3>3. CASE WatchdogMillis   BY <3>3 DEF WatchdogMillis
    <3>4. CASE WatchdogElapsed  BY <3>4 DEF WatchdogElapsed
    <3>5. CASE WatchdogDecide   BY <1>0, <3>5 DEF WatchdogDecide
    <3>6. CASE WatchdogLatch    BY <3>6 DEF WatchdogLatch
    <3>7. CASE WatchdogUnlatch  BY <3>7 DEF WatchdogUnlatch
    <3>8. CASE WatchdogFire     BY <3>8 DEF WatchdogFire
    <3>9. QED
      BY <2>3, <3>1, <3>2, <3>3, <3>4, <3>5, <3>6, <3>7, <3>8 DEF CheckHeartbeatTimeout
  <2>4. CASE Tick \/ UNCHANGED vars
    BY <2>4, ClockAssumption DEF Tick, vars
  <2>5. QED
    BY <2>1, <2>2, <2>3, <2>4 DEF Next
<1>3. QED
  BY <1>1, <1>2, PTL DEF Spec
-----------------------------------------------------------------------------
(* MasterKnowsToken is not inductive: a registration past its token test   *)
(* must carry an address that presented the token (or none, over HTTP).    *)
TokenInv ==
  /\ MasterKnowsToken
  /\ \A t \in Tasks : pc[t] = "reg_take" => SenderIP(t) \in tokenShown \cup {NoIP}

(* A step that leaves the master and the history alone and takes no task   *)
(* to a label of TokenInv keeps TokenInv.                                  *)
LEMMA QuietStep ==
  ASSUME TokenInv,
         UNCHANGED <<master_ip, tokenShown>>,
         \A u \in Tasks : \/ pc'[u] = pc[u] /\ req'[u] = req[u]
                          \/ pc'[u] \notin Privileged \cup {"reg_take"}
  PROVE  TokenInv'
BY DEF TokenInv, MasterKnowsToken, SenderIP

(* The master and the senders of privileged commands presented the token.  *)
THEOREM MasterKnowsTokenHolds == Spec => []MasterKnowsToken
<1>1. Init => TokenInv
  BY DEF Init, TokenInv, MasterKnowsToken, Privileged
<1>2. TypeOK /\ TokenInv /\ [Next]_vars => TokenInv'
  <2> SUFFICES ASSUME TypeOK, TokenInv, [Next]_vars PROVE TokenInv'
    OBVIOUS
  <2> USE DEF registryVars, beatVars, taskVars, wdVars, silenceVars, CheckGoto, CheckEnd
  <2>1. ASSUME NEW via \in Transports, NEW peer \in IPs, NEW c \in Commands,
               NEW p \in Payloads(c), Receive(c, p, via, peer)
        PROVE  TokenInv'
    BY <2>1, QuietStep DEF Receive, TaskOf, TypeOK, Privileged
  <2>2. ASSUME NEW t \in Tasks, Handler(t)
        PROVE  TokenInv'
    <3> DEFINE Quiet == /\ UNCHANGED <<master_ip, tokenShown>>
                        /\ \A u \in Tasks \ {t} : pc'[u] = pc[u] /\ req'[u] = req[u]
                        /\ pc'[t] \notin Privileged \cup {"reg_take"}
    <3>0. ASSUME Quiet PROVE TokenInv'
      BY <3>0, QuietStep
    <3> USE DEF Goto, Answer, Finish, At, TypeOK, Privileged
    <3>1. CASE Reply(t)            BY <3>0, <3>1 DEF Reply
    <3>2. CASE HeartbeatRead(t)    BY <3>0, <3>2 DEF HeartbeatRead
    <3>18. CASE HeartbeatStore(t)  BY <3>0, <3>18 DEF HeartbeatStore
    <3>3. CASE HeartbeatActive(t)  BY <3>0, <3>3 DEF HeartbeatActive
    <3>4. CASE HeartbeatReset(t)   BY <3>0, <3>4 DEF HeartbeatReset
    <3>5. CASE RegisterCheck(t)
      <4>1. /\ req' = req /\ master_ip' = master_ip
            /\ tokenShown \subseteq tokenShown'
            /\ \A u \in Tasks \ {t} : pc'[u] = pc[u]
            /\ \/ pc'[t] = "reply"
               \/ pc'[t] = "reg_take" /\ req[t].payload = "good"
        BY <3>5 DEF RegisterCheck
      <4>2. SenderIP(t) \in IPs \cup {NoIP}
        BY DEF SenderIP, Requests
      <4>3. pc'[t] = "reg_take" => SenderIP(t) \in tokenShown' \cup {NoIP}
        BY <3>5, <4>1, <4>2 DEF RegisterCheck
      <4>4. QED
        BY <4>1, <4>3 DEF TokenInv, MasterKnowsToken, SenderIP
    <3>6. CASE RegisterTake(t)
      <4>1. /\ req' = req /\ tokenShown' = tokenShown
            /\ \A u \in Tasks \ {t} : pc'[u] = pc[u]
            /\ pc'[t] \in {"reg_active", "reply"}
            /\ master_ip' = master_ip \/ master_ip' = SenderIP(t)
            /\ pc[t] = "reg_take"
        BY <3>6 DEF RegisterTake
      <4>2. QED
        BY <4>1 DEF TokenInv, MasterKnowsToken, SenderIP
    <3>7. CASE RegisterActive(t)   BY <3>0, <3>7 DEF RegisterActive
    <3>8. CASE RegisterReset(t)    BY <3>0, <3>8 DEF RegisterReset
    <3>9. CASE Unregister(t)
      <4>1. /\ req' = req /\ tokenShown' = tokenShown
            /\ \A u \in Tasks \ {t} : pc'[u] = pc[u]
            /\ pc'[t] = "reply"
            /\ master_ip' = master_ip \/ master_ip' = NoIP
        BY <3>9 DEF Unregister
      <4>2. QED
        BY <4>1 DEF TokenInv, MasterKnowsToken, SenderIP
    <3>10. CASE ReadOnly(t)        BY <3>0, <3>10 DEF ReadOnly
    <3>11. CASE SetNameCheck(t)
      <4>1. /\ UNCHANGED <<req, master_ip, tokenShown>>
            /\ \A u \in Tasks \ {t} : pc'[u] = pc[u]
            /\ \/ pc'[t] = "reply"
               \/ pc'[t] = "name_write" /\ IsMaster(t)
        BY <3>11 DEF SetNameCheck
      <4>2. QED
        BY <4>1 DEF TokenInv, MasterKnowsToken, SenderIP, IsMaster
    <3>12. CASE SetNameWrite(t)    BY <3>0, <3>12 DEF SetNameWrite
    <3>13. CASE RebootCheck(t)
      <4>1. /\ UNCHANGED <<req, master_ip, tokenShown>>
            /\ \A u \in Tasks \ {t} : pc'[u] = pc[u]
            /\ \/ pc'[t] = "reply"
               \/ pc'[t] = "reboot" /\ IsMaster(t)
        BY <3>13 DEF RebootCheck
      <4>2. QED
        BY <4>1 DEF TokenInv, MasterKnowsToken, SenderIP, IsMaster
    <3>14. CASE RebootStop(t)
      <4>1. /\ UNCHANGED <<req, master_ip, tokenShown>>
            /\ \A u \in Tasks \ {t} : pc'[u] = pc[u]
            /\ pc[t] = "reboot" /\ pc'[t] = "restart"
        BY <3>14 DEF RebootStop
      <4>2. QED
        BY <4>1 DEF TokenInv, MasterKnowsToken, SenderIP
    <3>15. CASE Restart(t)
      BY <3>15 DEF Restart, TokenInv, MasterKnowsToken
    <3>16. CASE Motors(t)          BY <3>0, <3>16 DEF Motors
    <3>17. QED
      BY <2>2, <3>1, <3>2, <3>3, <3>4, <3>5, <3>6, <3>7, <3>8, <3>9, <3>10, <3>11,
         <3>12, <3>13, <3>14, <3>15, <3>16, <3>18 DEF Handler
  <2>3. CASE CheckHeartbeatTimeout
    BY <2>3, QuietStep
       DEF CheckHeartbeatTimeout, WatchdogMaster, WatchdogActive, WatchdogMillis,
           WatchdogElapsed, WatchdogDecide, WatchdogLatch, WatchdogUnlatch, WatchdogFire
  <2>4. CASE Tick \/ UNCHANGED vars
    BY <2>4, QuietStep DEF Tick, vars
  <2>5. QED
    BY <2>1, <2>2, <2>3, <2>4 DEF Next
<1>3. TokenInv => MasterKnowsToken
  BY DEF TokenInv
<1>4. QED
  BY <1>1, <1>2, <1>3, TypeCorrect, PTL DEF Spec

-----------------------------------------------------------------------------
(* The master is set from empty and cleared to empty, by the handlers that *)
(* may.                                                                    *)
THEOREM MasterHandoverHolds == Spec => MasterHandover
<1> DEFINE Handover ==
      [master_ip' # master_ip =>
         \/ /\ master_ip = NoIP
            /\ \E t \in Tasks : pc[t] = "reg_take" /\ SenderIP(t) = master_ip'
         \/ /\ master_ip' = NoIP
            /\ \E t \in Tasks : \/ pc[t] = "restart"
                               \/ /\ At(t, "handle", "CMD_UNREGISTER")
                                  /\ SenderIP(t) = master_ip]_vars
<1>1. [Next]_vars => Handover
  <2> SUFFICES ASSUME [Next]_vars PROVE Handover
    OBVIOUS
  <2>1. ASSUME NEW t \in Tasks, Handler(t) PROVE Handover
    <3>1. CASE RegisterTake(t)  BY <3>1 DEF RegisterTake
    <3>2. CASE Unregister(t)    BY <3>2 DEF Unregister
    <3>3. CASE Restart(t)       BY <3>3 DEF Restart
    <3>4. CASE ~(RegisterTake(t) \/ Unregister(t) \/ Restart(t))
      <4>1. UNCHANGED master_ip
        BY <2>1, <3>4 DEF Handler, Reply, HeartbeatRead, HeartbeatStore, HeartbeatActive, HeartbeatReset,
           RegisterCheck, RegisterActive, RegisterReset, ReadOnly, SetNameCheck,
           SetNameWrite, RebootCheck, RebootStop, Motors, registryVars
      <4>2. QED
        BY <4>1
    <3>5. QED
      BY <3>1, <3>2, <3>3, <3>4
  <2>2. CASE ~\E t \in Tasks : Handler(t)
    BY <2>2 DEF Next, Receive, CheckHeartbeatTimeout, WatchdogMaster, WatchdogActive,
       WatchdogMillis, WatchdogElapsed, WatchdogDecide, WatchdogLatch, WatchdogUnlatch, WatchdogFire, Tick, vars,
       registryVars
  <2>3. QED
    BY <2>1, <2>2
<1>2. QED
  BY <1>1, PTL DEF Spec, MasterHandover
-----------------------------------------------------------------------------
(* The watchdog.                                                           *)

Beating(t) == req[t].cmd = "CMD_HEARTBEAT"

(* A heartbeat of t that arrived and is not stored yet.                    *)
Unstored(t) == pc[t] = "hb_store" \/ (pc[t] = "handle" /\ Beating(t))

(* It will store a time that is not before the last arrival.               *)
Fresh(t) == Unstored(t) /\ (pc[t] = "hb_store" => heardAt <= beat_ms[t])

(* The last heartbeat that arrived is stored or about to be, except after  *)
(* a store that went back in time; of two tasks about to store, one is     *)
(* fresh; nothing lies ahead of the clock; no heartbeat is ever forgotten. *)
HeardInv ==
  /\ \/ \E t \in Tasks : Fresh(t)
     \/ heardAt <= last_seen_ms
     \/ stale /\ \A t \in Tasks : ~Unstored(t)
  /\ (\A t \in Tasks : Unstored(t)) => \E t \in Tasks : Fresh(t)
  /\ heardAt <= now /\ last_seen_ms <= now /\ wd_millis <= now
  /\ \A t \in Tasks : beat_ms[t] <= now
  /\ \A t \in Tasks : pc[t] \in {"hb_store", "hb_active", "hb_reset"} => Beating(t)
  /\ (\E t \in Tasks : Beating(t)) \/ heartbeat_active => heardAt # Never

(* A check that no heartbeat met reads a time that is not before the one   *)
(* stored, and decides by it.                                              *)
CheckInv ==
  /\ wd_pc \in {"millis", "elapsed", "decide", "latch", "fire"} => heardAt # Never
  /\ wd_pc # "idle" /\ ~met => \A t \in Tasks : ~Beating(t)
  /\ wd_pc = "elapsed" /\ ~met => last_seen_ms <= wd_millis
  /\ wd_pc = "decide" /\ wd_late /\ ~met /\ ~stale => now - heardAt > HeartbeatTimeout
  /\ wd_pc = "latch" /\ ~met /\ ~stale => now - heardAt > HeartbeatTimeout

SilenceInv == HeardInv /\ CheckInv /\ AlarmMeansSilence

(* A store of a heartbeat that is not fresh, when no other is about to be  *)
(* stored, goes back in time.                                              *)
LEMMA StoreKeepsSilence ==
  ASSUME TypeOK, SilenceInv, NEW t \in Tasks, HeartbeatStore(t)
  PROVE  SilenceInv'
<1> USE DEF TypeOK, registryVars, SilenceInv, HeardInv, CheckInv, AlarmMeansSilence
<1>1. /\ pc[t] = "hb_store" /\ pc' = [pc EXCEPT ![t] = "hb_active"]
      /\ last_seen_ms' = beat_ms[t] /\ stale' = (beat_ms[t] < last_seen_ms)
      /\ beat_ms' = [beat_ms EXCEPT ![t] = 0]
      /\ UNCHANGED <<req, heartbeat_active, wd_pc, wd_millis, wd_late, heardAt, met, now>>
  BY DEF HeartbeatStore
<1>2. Beating(t) /\ \A u \in Tasks : Beating(u)' = Beating(u)
  BY <1>1 DEF Beating
<1>3. \A u \in Tasks \ {t} : Unstored(u)' = Unstored(u) /\ Fresh(u)' = Fresh(u)
  BY <1>1 DEF Unstored, Fresh, Beating
<1>4. Unstored(t) /\ ~Unstored(t)'
  BY <1>1 DEF Unstored
<1>5. \/ \E u \in Tasks : Fresh(u)'
      \/ heardAt' <= last_seen_ms'
      \/ stale' /\ \A u \in Tasks : ~Unstored(u)'
  <2>1. CASE Fresh(t)
    BY <1>1, <2>1 DEF Fresh
  <2>2. CASE ~Fresh(t) /\ \E u \in Tasks \ {t} : Unstored(u)
    BY <1>3, <1>4, <2>2 DEF Tasks
  <2>3. CASE ~Fresh(t) /\ \A u \in Tasks \ {t} : ~Unstored(u)
    <3>1. heardAt <= last_seen_ms /\ beat_ms[t] < heardAt
      BY <1>1, <1>4, <2>3, ClockAssumption DEF Fresh
    <3>2. stale'
      <4>1. beat_ms[t] < last_seen_ms
        BY <1>1, <3>1, ClockAssumption
      <4>2. QED
        BY <1>1, <4>1
    <3>3. \A u \in Tasks : ~Unstored(u)'
      BY <1>3, <1>4, <2>3
    <3>4. QED
      BY <3>2, <3>3
  <2>4. QED
    BY <2>1, <2>2, <2>3
<1>6. HeardInv'
  BY <1>1, <1>2, <1>4, <1>5, ClockAssumption
<1>7. CheckInv' /\ AlarmMeansSilence'
  BY <1>1, <1>2
<1>8. QED
  BY <1>6, <1>7

(* Each handler keeps it: they store and announce heartbeats.              *)
LEMMA HandlersKeepSilence ==
  ASSUME TypeOK, SilenceInv, NEW t \in Tasks, Handler(t)
  PROVE  SilenceInv'
<1> USE DEF TypeOK, registryVars, beatVars, taskVars, wdVars, silenceVars, Goto, Answer, Finish, At
<1> USE DEF SilenceInv, HeardInv, CheckInv, AlarmMeansSilence, Beating, Unstored, Fresh
<1>0. NoRequest.cmd # "CMD_HEARTBEAT"
  BY DEF NoRequest
<1>1. CASE Reply(t)            BY <1>0, <1>1 DEF Reply
<1>2. CASE HeartbeatRead(t)    BY <1>2 DEF HeartbeatRead
<1>18. CASE HeartbeatStore(t)  BY <1>18, StoreKeepsSilence
<1>3. CASE HeartbeatActive(t)  BY <1>3 DEF HeartbeatActive
<1>4. CASE HeartbeatReset(t)   BY <1>0, <1>4 DEF HeartbeatReset
<1>5. CASE RegisterCheck(t)    BY <1>5 DEF RegisterCheck
<1>6. CASE RegisterTake(t)     BY <1>6 DEF RegisterTake
<1>7. CASE RegisterActive(t)   BY <1>7 DEF RegisterActive
<1>8. CASE RegisterReset(t)    BY <1>8 DEF RegisterReset
<1>9. CASE Unregister(t)       BY <1>9 DEF Unregister
<1>10. CASE ReadOnly(t)        BY <1>10 DEF ReadOnly
<1>11. CASE SetNameCheck(t)    BY <1>11 DEF SetNameCheck
<1>12. CASE SetNameWrite(t)    BY <1>12 DEF SetNameWrite
<1>13. CASE RebootCheck(t)     BY <1>13 DEF RebootCheck
<1>14. CASE RebootStop(t)      BY <1>14 DEF RebootStop
<1>15. CASE Restart(t)         BY <1>0, <1>15 DEF Restart
<1>16. CASE Motors(t)          BY <1>16 DEF Motors
<1>17. QED
  BY <1>1, <1>2, <1>3, <1>4, <1>5, <1>6, <1>7, <1>8, <1>9, <1>10, <1>11,
     <1>12, <1>13, <1>14, <1>15, <1>16, <1>18 DEF Handler

(* So does each step of the check; its subtraction does not wrap when no   *)
(* heartbeat met it.                                                       *)
LEMMA CheckKeepsSilence ==
  ASSUME TypeOK, SilenceInv, CheckHeartbeatTimeout
  PROVE  SilenceInv'
<1> USE DEF TypeOK, registryVars, beatVars, taskVars, wdVars, silenceVars, CheckGoto, CheckEnd
<1> USE DEF SilenceInv, HeardInv, CheckInv, AlarmMeansSilence, Beating, Unstored, Fresh
<1>1. CASE WatchdogMaster      BY <1>1 DEF WatchdogMaster
<1>2. CASE WatchdogActive      BY <1>2 DEF WatchdogActive
<1>3. CASE WatchdogMillis      BY <1>3 DEF WatchdogMillis
<1>4. CASE WatchdogElapsed
  <2>1. ASSUME ~met, ~stale, wd_late' PROVE now - heardAt > HeartbeatTimeout
    <3>1. heardAt <= last_seen_ms /\ last_seen_ms <= wd_millis /\ wd_millis <= now
      BY <1>4, <2>1 DEF WatchdogElapsed
    <3>2. wd_millis - last_seen_ms \in 0..(ClockModulus - 1)
      BY <3>1, ClockAssumption
    <3>3. (wd_millis - last_seen_ms) % ClockModulus = wd_millis - last_seen_ms
      BY <3>2, ClockAssumption
    <3>4. wd_millis - last_seen_ms > HeartbeatTimeout
      BY <1>4, <2>1, <3>3 DEF WatchdogElapsed
    <3>5. QED
      BY <3>1, <3>4, ClockAssumption
  <2>2. QED
    BY <1>4, <2>1 DEF WatchdogElapsed
<1>5. CASE WatchdogDecide      BY <1>5 DEF WatchdogDecide
<1>6. CASE WatchdogLatch       BY <1>6 DEF WatchdogLatch
<1>7. CASE WatchdogUnlatch     BY <1>7 DEF WatchdogUnlatch
<1>8. CASE WatchdogFire        BY <1>8 DEF WatchdogFire
<1>9. QED
  BY <1>1, <1>2, <1>3, <1>4, <1>5, <1>6, <1>7, <1>8 DEF CheckHeartbeatTimeout

(* An alarm that no heartbeat met, and no store that went back in time     *)
(* brought about, is never false.                                          *)
THEOREM AlarmMeansSilenceHolds == Spec => []AlarmMeansSilence
<1>1. Init => SilenceInv
  BY DEF Init, NoRequest, SilenceInv, HeardInv, CheckInv, AlarmMeansSilence, Beating, Unstored,
         Fresh
<1>2. TypeOK /\ SilenceInv /\ [Next]_vars => SilenceInv'
  <2> SUFFICES ASSUME TypeOK, SilenceInv, [Next]_vars PROVE SilenceInv'
    OBVIOUS
  <2> USE DEF registryVars, beatVars, taskVars, wdVars, silenceVars
  <2>1. ASSUME NEW via \in Transports, NEW peer \in IPs, NEW c \in Commands,
               NEW p \in Payloads(c), Receive(c, p, via, peer)
        PROVE  SilenceInv'
    <3> DEFINE u == TaskOf(via)
    <3>1. /\ u \in Tasks /\ pc[u] = "idle" /\ pc' = [pc EXCEPT ![u] = "handle"]
          /\ req'[u].cmd = c /\ \A v \in Tasks \ {u} : req'[v] = req[v]
          /\ UNCHANGED <<beatVars, wd_pc, wd_millis, wd_late, stale, beat_ms, now>>
      BY <2>1 DEF Receive, TaskOf, TypeOK
    <3>2. heardAt' = (IF c = "CMD_HEARTBEAT" THEN now ELSE heardAt)
          /\ met' = (met \/ (c = "CMD_HEARTBEAT" /\ wd_pc # "idle"))
      BY <2>1 DEF Receive
    <3> HIDE DEF u
    <3>3. pc'[u] = "handle" /\ \A v \in Tasks \ {u} : pc'[v] = pc[v]
      BY <3>1 DEF TypeOK
    <3>4. ~Unstored(u) /\ \A v \in Tasks \ {u} : Unstored(v)' = Unstored(v)
      BY <3>1, <3>3 DEF Unstored, Beating
    <3>5. CASE c = "CMD_HEARTBEAT"
      <4>1. heardAt' = now /\ now \in Nat /\ Beating(u)'
        BY <3>1, <3>2, <3>5, ClockAssumption DEF TypeOK, Beating
      <4>2. Fresh(u)'
        BY <3>3, <4>1 DEF Fresh, Unstored
      <4>3. HeardInv'
        BY <3>1, <3>3, <4>1, <4>2 DEF TypeOK, SilenceInv, HeardInv, Beating
      <4>4. wd_pc' # "idle" => met'
        <5>1. met' = (met \/ (c = "CMD_HEARTBEAT" /\ wd_pc # "idle")) /\ wd_pc' = wd_pc
          BY <3>1, <3>2
        <5>2. QED
          BY <3>5, <5>1
      <4>5. CheckInv' /\ AlarmMeansSilence'
        BY <4>1, <4>4 DEF CheckInv, AlarmMeansSilence
      <4>6. QED
        BY <4>3, <4>5 DEF SilenceInv
    <3>6. CASE c # "CMD_HEARTBEAT"
      <4>1. heardAt' = heardAt /\ met' = met /\ ~Beating(u)'
        BY <3>1, <3>2, <3>6 DEF TypeOK, Beating
      <4>2. ~Unstored(u)' /\ \A v \in Tasks : Fresh(v)' = Fresh(v)
        BY <3>1, <3>3, <3>4, <4>1 DEF Unstored, Fresh
      <4>3. \A v \in Tasks : Beating(v)' => Beating(v)
        BY <3>1, <4>1 DEF Beating
      <4>4. HeardInv'
        BY <3>1, <3>3, <3>4, <4>1, <4>2, <4>3 DEF SilenceInv, HeardInv, Beating
      <4>5. CheckInv' /\ AlarmMeansSilence'
        BY <3>1, <4>1, <4>3 DEF SilenceInv, CheckInv, AlarmMeansSilence
      <4>6. QED
        BY <4>4, <4>5 DEF SilenceInv
    <3>7. QED
      BY <3>5, <3>6
  <2>2. CASE Tick \/ UNCHANGED vars
    BY <2>2, ClockAssumption
       DEF Tick, TypeOK, vars, SilenceInv, HeardInv, CheckInv, AlarmMeansSilence, Beating,
           Unstored, Fresh
  <2>3. QED
    BY <2>1, <2>2, HandlersKeepSilence, CheckKeepsSilence DEF Next
<1>3. SilenceInv => AlarmMeansSilence
  BY DEF SilenceInv
<1>4. QED
  BY <1>1, <1>2, <1>3, TypeCorrect, PTL DEF Spec

-----------------------------------------------------------------------------
(* The bookkeeping of a handler: which command is at which label, and when *)
(* its reply is known.                                                     *)
ReplyInv ==
  \A t \in Tasks :
    /\ pc[t] \in {"idle", "handle", "reg_take", "hb_store", "hb_active", "hb_reset", "name_write",
                   "reboot", "restart"} => reply[t] = "none"
    /\ pc[t] = "idle" => req[t].cmd = "none"
    /\ pc[t] = "reg_take" => req[t].cmd = "CMD_REGISTER" /\ req[t].payload = "good"
    /\ pc[t] \in {"hb_store", "hb_active", "hb_reset"} => req[t].cmd = "CMD_HEARTBEAT"
    /\ pc[t] = "name_write" => req[t].cmd = "CMD_SET_NAME"
    /\ pc[t] \in {"reg_active", "reg_reset"} => reply[t] = "resp_ok"
    /\ pc[t] = "reply" => reply[t] # "none"

(* The replies a handler gives are known exactly where ReplyInv says.      *)
LEMMA ReplyInvHolds == Spec => []ReplyInv
<1>1. Init => ReplyInv
  BY DEF Init, ReplyInv, NoRequest
<1>2. TypeOK /\ ReplyInv /\ [Next]_vars => ReplyInv'
  <2> SUFFICES ASSUME TypeOK, ReplyInv, [Next]_vars PROVE ReplyInv'
    OBVIOUS
  <2> USE DEF registryVars, beatVars, taskVars, wdVars, silenceVars, CheckGoto, CheckEnd, ReplyInv, TypeOK
  <2>1. ASSUME NEW via \in Transports, NEW peer \in IPs, NEW c \in Commands,
               NEW p \in Payloads(c), Receive(c, p, via, peer)
        PROVE  ReplyInv'
    BY <2>1 DEF Receive, TaskOf
  <2>2. ASSUME NEW t \in Tasks, Handler(t)
        PROVE  ReplyInv'
    <3> USE DEF Goto, Answer, Finish, At
    <3>1. CASE Reply(t)            BY <3>1 DEF Reply, NoRequest
    <3>2. CASE HeartbeatRead(t)    BY <3>2 DEF HeartbeatRead
    <3>18. CASE HeartbeatStore(t)  BY <3>18 DEF HeartbeatStore
    <3>3. CASE HeartbeatActive(t)  BY <3>3 DEF HeartbeatActive
    <3>4. CASE HeartbeatReset(t)   BY <3>4 DEF HeartbeatReset, NoRequest
    <3>5. CASE RegisterCheck(t)    BY <3>5 DEF RegisterCheck
    <3>6. CASE RegisterTake(t)     BY <3>6 DEF RegisterTake
    <3>7. CASE RegisterActive(t)   BY <3>7 DEF RegisterActive
    <3>8. CASE RegisterReset(t)    BY <3>8 DEF RegisterReset
    <3>9. CASE Unregister(t)       BY <3>9 DEF Unregister
    <3>10. CASE ReadOnly(t)        BY <3>10 DEF ReadOnly
    <3>11. CASE SetNameCheck(t)    BY <3>11 DEF SetNameCheck
    <3>12. CASE SetNameWrite(t)    BY <3>12 DEF SetNameWrite
    <3>13. CASE RebootCheck(t)     BY <3>13 DEF RebootCheck
    <3>14. CASE RebootStop(t)      BY <3>14 DEF RebootStop
    <3>15. CASE Restart(t)         BY <3>15 DEF Restart, NoRequest
    <3>16. CASE Motors(t)          BY <3>16 DEF Motors
    <3>17. QED
      BY <2>2, <3>1, <3>2, <3>3, <3>4, <3>5, <3>6, <3>7, <3>8, <3>9, <3>10, <3>11,
         <3>12, <3>13, <3>14, <3>15, <3>16, <3>18 DEF Handler
  <2>3. CASE CheckHeartbeatTimeout
    BY <2>3 DEF CheckHeartbeatTimeout, WatchdogMaster, WatchdogActive, WatchdogMillis,
       WatchdogElapsed, WatchdogDecide, WatchdogLatch, WatchdogUnlatch, WatchdogFire
  <2>4. CASE Tick \/ UNCHANGED vars
    BY <2>4 DEF Tick, vars
  <2>5. QED
    BY <2>1, <2>2, <2>3, <2>4 DEF Next
<1>3. QED
  BY <1>1, <1>2, TypeCorrect, PTL DEF Spec

(* The abstract calls after a step that changes the call of one task.      *)
LEMMA OneCall ==
  ASSUME NEW t \in Tasks, NEW c,
         \A u \in Tasks \ {t} : CallOf(u)' = CallOf(u),
         CallOf(t)' = c
  PROVE  [u \in Tasks |-> CallOf(u)]' = [[u \in Tasks |-> CallOf(u)] EXCEPT ![t] = c]
OBVIOUS

(* A step that keeps the master and every call is a stuttering step of the *)
(* registry.                                                               *)
LEMMA SameCalls ==
  ASSUME master_ip' = master_ip,
         \A u \in Tasks : CallOf(u)' = CallOf(u)
  PROVE  UNCHANGED Registry!vars
BY DEF Registry!vars

(* A step of t that keeps its request and settles its reply answers the    *)
(* abstract call of t.                                                     *)
LEMMA Answering ==
  ASSUME TypeOK, NEW t \in Tasks,
         req' = req, \A u \in Tasks \ {t} : reply'[u] = reply[u],
         reply[t] = "none", reply'[t] \in Responses, reply'[t] # "none",
         req[t].cmd \in {"CMD_REGISTER", "CMD_UNREGISTER"}
  PROVE  Registry!Answered(t, IF reply'[t] = "resp_ok" THEN "ok" ELSE "refused")
<1> DEFINE a == IF reply'[t] = "resp_ok" THEN "ok" ELSE "refused"
<1>1. \A u \in Tasks \ {t} : CallOf(u)' = CallOf(u)
  BY DEF CallOf, Outcome, SenderIP
<1>2. CallOf(t)' = [CallOf(t) EXCEPT !.answer = a]
  BY DEF CallOf, Outcome, SenderIP
<1>3. QED
  BY <1>1, <1>2, OneCall DEF Registry!Answered

(* What the abstract call of a registration or unregistration is, as long  *)
(* as it has no reply.                                                     *)
LEMMA PendingCall ==
  ASSUME NEW t \in Tasks, reply[t] = "none",
         req[t].cmd \in {"CMD_REGISTER", "CMD_UNREGISTER"}
  PROVE  /\ [u \in Tasks |-> CallOf(u)][t].ip = SenderIP(t)
         /\ Registry!Pending(t, IF req[t].cmd = "CMD_UNREGISTER" THEN "unregister"
                                ELSE IF req[t].payload = "good" THEN "register"
                                     ELSE "malformed")
BY DEF CallOf, Outcome, Registry!Pending

(* The handlers implement the registry in which each registration and      *)
(* unregistration takes effect at one instant.                             *)
THEOREM RegistryRefinement == Spec => RegistryPromise
<1>1. Init => Registry!Init
  BY DEF Init, Registry!Init, Registry!Idle, NoRequest, CallOf
<1>2. TypeOK /\ ReplyInv /\ [Next]_vars => [Registry!Next]_(Registry!vars)
  <2> SUFFICES ASSUME TypeOK, ReplyInv, [Next]_vars
               PROVE  [Registry!Next]_(Registry!vars)
    OBVIOUS
  <2> USE DEF registryVars, beatVars, taskVars, wdVars, silenceVars, CheckGoto, CheckEnd
  <2>1. ASSUME NEW via \in Transports, NEW peer \in IPs, NEW c \in Commands,
               NEW p \in Payloads(c), Receive(c, p, via, peer)
        PROVE  [Registry!Next]_(Registry!vars)
    <3> DEFINE t == TaskOf(via)
    <3>1. t \in Tasks
      BY DEF TaskOf, Tasks
    <3>2. /\ master_ip' = master_ip
          /\ \A u \in Tasks \ {t} : CallOf(u)' = CallOf(u)
      BY <2>1, <3>1 DEF Receive, TypeOK, CallOf, Outcome, SenderIP
    <3>3. CallOf(t) = Registry!Idle
      BY <2>1, <3>1 DEF Receive, ReplyInv, CallOf, Registry!Idle
    <3>4. /\ req'[t] = [cmd |-> c, payload |-> p, via |-> via, peer |-> peer]
          /\ reply'[t] = "none"
      BY <2>1, <3>1 DEF Receive, TypeOK, ReplyInv
    <3>5. CASE c \in {"CMD_REGISTER", "CMD_UNREGISTER"}
      <4>1. CallOf(t)' \in Registry!Calls
        BY <3>4, <3>5 DEF CallOf, Outcome, SenderIP, Registry!Calls
      <4>2. Registry!Call(t)
        BY <3>1, <3>2, <3>3, <4>1, OneCall DEF Registry!Call
      <4>3. QED
        BY <3>1, <4>2 DEF Registry!Next
    <3>6. CASE c \notin {"CMD_REGISTER", "CMD_UNREGISTER"}
      <4>1. CallOf(t)' = Registry!Idle
        BY <3>4, <3>6 DEF CallOf, Registry!Idle
      <4>2. QED
        BY <3>2, <3>3, <4>1, SameCalls DEF Registry!Idle
    <3>7. QED
      BY <3>5, <3>6
  <2>2. ASSUME NEW t \in Tasks, Handler(t)
        PROVE  [Registry!Next]_(Registry!vars)
    <3> USE DEF Goto, Answer, Finish, At, TypeOK
    <3>1. CASE Reply(t)
      <4>1. /\ master_ip' = master_ip
            /\ \A u \in Tasks \ {t} : CallOf(u)' = CallOf(u)
            /\ CallOf(t)' = Registry!Idle
            /\ reply[t] # "none"
        BY <3>1 DEF Reply, ReplyInv, NoRequest, CallOf, Outcome, SenderIP, Registry!Idle
      <4>2. CASE req[t].cmd \in {"CMD_REGISTER", "CMD_UNREGISTER"}
        <5>1. CallOf(t).answer # "none"
          BY <4>1, <4>2 DEF CallOf, Outcome
        <5>2. Registry!Return(t)
          BY <4>1, <5>1, OneCall DEF Registry!Return
        <5>3. QED
          BY <5>2 DEF Registry!Next
      <4>3. CASE req[t].cmd \notin {"CMD_REGISTER", "CMD_UNREGISTER"}
        <5>1. CallOf(t) = Registry!Idle
          BY <4>3 DEF CallOf, Registry!Idle
        <5>2. QED
          BY <4>1, <5>1, SameCalls
      <4>4. QED
        BY <4>2, <4>3
    <3>2. CASE HeartbeatRead(t)
      BY <3>2, SameCalls DEF HeartbeatRead, CallOf, Outcome, SenderIP
    <3>18. CASE HeartbeatStore(t)
      BY <3>18, SameCalls DEF HeartbeatStore, CallOf, Outcome, SenderIP
    <3>3. CASE HeartbeatActive(t)
      BY <3>3, SameCalls DEF HeartbeatActive, CallOf, Outcome, SenderIP
    <3>4. CASE HeartbeatReset(t)
      BY <3>4, SameCalls DEF HeartbeatReset, ReplyInv, NoRequest, CallOf, Outcome, SenderIP
    <3>5. CASE RegisterCheck(t)
      <4>1. /\ req' = req /\ master_ip' = master_ip
            /\ \A u \in Tasks \ {t} : reply'[u] = reply[u]
            /\ reply[t] = "none"
            /\ req[t].cmd = "CMD_REGISTER"
        BY <3>5 DEF RegisterCheck, ReplyInv
      <4>2. CASE req[t].payload # "good"
        <5>1. reply'[t] \in {"resp_invalid_params", "resp_not_master"}
          BY <3>5, <4>2 DEF RegisterCheck
        <5>2. Registry!Answered(t, "refused") /\ Registry!Pending(t, "malformed")
          BY <4>1, <4>2, <5>1, Answering, PendingCall DEF Responses
        <5>3. QED
          BY <4>1, <5>2 DEF Registry!Refuse, Registry!Next
      <4>3. CASE req[t].payload = "good" /\ IsMaster(t)
        <5>1. reply'[t] = "resp_ok"
          BY <3>5, <4>3 DEF RegisterCheck
        <5>2. Registry!Answered(t, "ok") /\ Registry!Pending(t, "register")
          BY <4>1, <4>3, <5>1, Answering, PendingCall DEF Responses
        <5>3. Registry!Register(t)
          BY <4>1, <4>3, <5>2, PendingCall DEF Registry!Register, IsMaster
        <5>4. QED
          BY <5>3 DEF Registry!Next
      <4>4. CASE req[t].payload = "good" /\ ~IsMaster(t)
        <5>1. reply' = reply
          BY <3>5, <4>4 DEF RegisterCheck
        <5>2. QED
          BY <4>1, <5>1, SameCalls DEF CallOf, Outcome, SenderIP
      <4>5. QED
        BY <4>2, <4>3, <4>4
    <3>6. CASE RegisterTake(t)
      <4>1. /\ req' = req
            /\ \A u \in Tasks \ {t} : reply'[u] = reply[u]
            /\ reply[t] = "none"
            /\ req[t].cmd = "CMD_REGISTER" /\ req[t].payload = "good"
        BY <3>6 DEF RegisterTake, ReplyInv
      <4>2. Registry!Pending(t, "register")
        BY <4>1, PendingCall
      <4>3. CASE master_ip = NoIP
        <5>1. master_ip' = SenderIP(t) /\ reply'[t] = "resp_ok"
          BY <3>6, <4>3 DEF RegisterTake
        <5>2. Registry!Answered(t, "ok")
          BY <4>1, <5>1, Answering DEF Responses
        <5>3. Registry!Register(t)
          BY <4>1, <4>2, <4>3, <5>1, <5>2, PendingCall DEF Registry!Register
        <5>4. QED
          BY <5>3 DEF Registry!Next
      <4>4. CASE master_ip # NoIP
        <5>1. master_ip' = master_ip /\ reply'[t] = "resp_operation_failed"
          BY <3>6, <4>4 DEF RegisterTake
        <5>2. Registry!Answered(t, "refused")
          BY <4>1, <5>1, Answering DEF Responses
        <5>3. QED
          BY <4>2, <4>4, <5>1, <5>2 DEF Registry!Register, Registry!Next
      <4>5. QED
        BY <4>3, <4>4
    <3>7. CASE RegisterActive(t)
      BY <3>7, SameCalls DEF RegisterActive, CallOf, Outcome, SenderIP
    <3>8. CASE RegisterReset(t)
      BY <3>8, SameCalls DEF RegisterReset, CallOf, Outcome, SenderIP
    <3>9. CASE Unregister(t)
      <4>1. /\ req' = req
            /\ \A u \in Tasks \ {t} : reply'[u] = reply[u]
            /\ reply[t] = "none"
            /\ req[t].cmd = "CMD_UNREGISTER"
        BY <3>9 DEF Unregister, ReplyInv
      <4>2. Registry!Pending(t, "unregister")
        BY <4>1, PendingCall
      <4>3. CASE master_ip = SenderIP(t)
        <5>1. master_ip' = NoIP /\ reply'[t] = "resp_ok"
          BY <3>9, <4>3 DEF Unregister
        <5>2. Registry!Answered(t, "ok")
          BY <4>1, <5>1, Answering DEF Responses
        <5>3. QED
          BY <4>1, <4>2, <4>3, <5>1, <5>2, PendingCall DEF Registry!Unregister, Registry!Next
      <4>4. CASE master_ip # SenderIP(t)
        <5>1. master_ip' = master_ip /\ reply'[t] = "resp_not_master"
          BY <3>9, <4>4 DEF Unregister
        <5>2. Registry!Answered(t, "refused")
          BY <4>1, <5>1, Answering DEF Responses
        <5>3. QED
          BY <4>1, <4>2, <4>4, <5>1, <5>2, PendingCall DEF Registry!Unregister, Registry!Next
      <4>5. QED
        BY <4>3, <4>4
    <3>10. CASE ReadOnly(t)
      BY <3>10, SameCalls DEF ReadOnly, CallOf, SenderIP, Outcome
    <3>11. CASE SetNameCheck(t)
      BY <3>11, SameCalls DEF SetNameCheck, CallOf, SenderIP, Outcome
    <3>12. CASE SetNameWrite(t)
      BY <3>12, SameCalls DEF SetNameWrite, ReplyInv, CallOf, SenderIP, Outcome
    <3>13. CASE RebootCheck(t)
      BY <3>13, SameCalls DEF RebootCheck, CallOf, SenderIP, Outcome
    <3>14. CASE RebootStop(t)
      BY <3>14, SameCalls DEF RebootStop, CallOf, SenderIP, Outcome
    <3>15. CASE Restart(t)
      <4>1. Registry!Restart
        BY <3>15 DEF Restart, Registry!Restart, Registry!Idle, NoRequest, CallOf
      <4>2. QED
        BY <4>1 DEF Registry!Next
    <3>16. CASE Motors(t)
      BY <3>16, SameCalls DEF Motors, CallOf, SenderIP, Outcome
    <3>17. QED
      BY <2>2, <3>1, <3>2, <3>3, <3>4, <3>5, <3>6, <3>7, <3>8, <3>9, <3>10, <3>11,
         <3>12, <3>13, <3>14, <3>15, <3>16, <3>18 DEF Handler
  <2>3. CASE CheckHeartbeatTimeout
    BY <2>3, SameCalls
       DEF CheckHeartbeatTimeout, WatchdogMaster, WatchdogActive, WatchdogMillis,
           WatchdogElapsed, WatchdogDecide, WatchdogLatch, WatchdogUnlatch, WatchdogFire, CallOf, Outcome, SenderIP
  <2>4. CASE Tick \/ UNCHANGED vars
    BY <2>4, SameCalls DEF Tick, vars, CallOf, Outcome, SenderIP
  <2>5. QED
    BY <2>1, <2>2, <2>3, <2>4 DEF Next
<1>3. QED
  BY <1>1, <1>2, TypeCorrect, ReplyInvHolds, PTL DEF Spec, RegistryPromise, Registry!Spec
=============================================================================
