----------------------------- MODULE Transports -----------------------------
(***************************************************************************)
(* UDP, WebSocket and HTTP bring bot messages to the dispatcher.  UDP has  *)
(* a task of its own, the two TCP servers share one; the callbacks of one  *)
(* task do not overlap, those of the two tasks do, in the dispatcher too.  *)
(* What the services do with a message is modelled elsewhere: here it is   *)
(* answered or not.                                                        *)
(***************************************************************************)
EXTENDS Naturals

CONSTANTS
  Actions,     \* action bytes
  Known,       \* those of a registered service
  MaxArrivals  \* bound: what is received or dropped in all

ASSUME ActionsAssumption == Actions # {} /\ Known \subseteq Actions
ASSUME BoundAssumption == MaxArrivals \in Nat

VARIABLES
  started,        \* the transports that listen
  tried,          \* those whose start() has returned
  rx_count_, tx_count_, dropped_count_,
  stage, message, \* per task: where it is, and the message at hand
  loaded,         \* per task: dispatch_count_ as ++ has read it
  dispatch_count_,
  dispatched,     \* history, per action: messages counted
  contended       \* history: actions that both tasks were counting at once

counters == <<rx_count_, tx_count_, dropped_count_>>
dispatcher == <<loaded, dispatch_count_, dispatched, contended>>
tvars == <<started, tried, counters, stage, message, dispatcher>>

Transport == {"udp", "ws", "web"}
Task == {"AsyncUDP", "AsyncTCP"}
TaskOf(t) == IF t = "udp" THEN "AsyncUDP" ELSE "AsyncTCP"

NoMessage == [transport |-> "udp", action |-> CHOOSE a \in Actions : TRUE]
Message == [transport : Transport, action : Actions]

TransportsInit ==
  /\ started = {} /\ tried = {}
  /\ rx_count_ = [t \in Transport |-> 0]
  /\ tx_count_ = rx_count_ /\ dropped_count_ = rx_count_
  /\ stage = [k \in Task |-> "idle"] /\ message = [k \in Task |-> NoMessage]
  /\ loaded = [k \in Task |-> 0]
  /\ dispatch_count_ = [a \in Actions |-> 0]
  /\ dispatched = [a \in Actions |-> 0] /\ contended = {}

-----------------------------------------------------------------------------

(* start(): UDP before WebSocket, the web server beside them; one that     *)
(* cannot listen is left out, and nothing else depends on it.              *)
start(t, ok) ==
  /\ t \notin tried /\ (t = "ws" => "udp" \in tried)
  /\ tried' = tried \cup {t}
  /\ started' = IF ok THEN started \cup {t} ELSE started
  /\ UNCHANGED <<counters, stage, message, dispatcher>>

Arrived(t) == rx_count_[t] + dropped_count_[t]

Arrives(t) ==
  /\ t \in started
  /\ Arrived("udp") + Arrived("ws") + Arrived("web") < MaxArrivals
  /\ stage[TaskOf(t)] = "idle"

(* An empty message, a request without a well-formed hex cmd or of a path  *)
(* that is not there; and each fragment of a WebSocket message but the     *)
(* last, which passes for a message of its own: the number of drops is not *)
(* one of messages.                                                        *)
Drop(t) ==
  /\ Arrives(t)
  /\ dropped_count_' = [dropped_count_ EXCEPT ![t] = @ + 1]
  /\ UNCHANGED <<started, tried, rx_count_, tx_count_, stage, message, dispatcher>>

Receive(t, a) ==
  /\ Arrives(t)
  /\ rx_count_' = [rx_count_ EXCEPT ![t] = @ + 1]
  /\ stage' = [stage EXCEPT ![TaskOf(t)] = "load"]
  /\ message' = [message EXCEPT ![TaskOf(t)] = [transport |-> t, action |-> a]]
  /\ UNCHANGED <<started, tried, tx_count_, dropped_count_, dispatcher>>

-----------------------------------------------------------------------------
(* dispatch().                                                             *)

Counting(a) == {k \in Task : stage[k] = "store" /\ message[k].action = a}

(* ++dispatch_count_[data[0]] reads ...                                    *)
LoadCount(k) ==
  /\ stage[k] = "load"
  /\ stage' = [stage EXCEPT ![k] = "store"]
  /\ LET a == message[k].action
     IN  /\ loaded' = [loaded EXCEPT ![k] = dispatch_count_[a]]
         /\ contended' = IF Counting(a) # {} THEN contended \cup {a} ELSE contended
  /\ UNCHANGED <<started, tried, counters, message, dispatch_count_, dispatched>>

(* Mutant of Incremented: the counter is set, as by its first message.     *)
Once(k) == 1

Incremented(k) == loaded[k] + 1

(* ... and writes.                                                         *)
StoreCount(k) ==
  /\ stage[k] = "store"
  /\ stage' = [stage EXCEPT ![k] = "handle"]
  /\ LET a == message[k].action
     IN  /\ dispatch_count_' = [dispatch_count_ EXCEPT ![a] = Incremented(k)]
         /\ dispatched' = [dispatched EXCEPT ![a] = @ + 1]
  /\ loaded' = [loaded EXCEPT ![k] = 0]
  /\ UNCHANGED <<started, tried, counters, message, contended>>

Finished(k) == stage' = [stage EXCEPT ![k] = "idle"] /\ message' = [message EXCEPT ![k] = NoMessage]

(* The service of the action has nothing to say; an action of no service   *)
(* is always answered.                                                     *)
Silent(k) ==
  /\ stage[k] = "handle" /\ message[k].action \in Known
  /\ Finished(k)
  /\ UNCHANGED <<started, tried, counters, dispatcher>>

(* UDP counts what was written whole, WebSocket what it has queued for a   *)
(* client that is still there, the web server every answer.                *)
Counted(t, sent) ==
  tx_count_' = IF sent \/ t = "web" THEN [tx_count_ EXCEPT ![t] = @ + 1] ELSE tx_count_

sendReply(k, sent) ==
  /\ stage[k] = "handle"
  /\ Counted(message[k].transport, sent)
  /\ Finished(k)
  /\ UNCHANGED <<started, tried, rx_count_, dropped_count_, dispatcher>>

-----------------------------------------------------------------------------

TaskStep(k) ==
  LoadCount(k) \/ StoreCount(k) \/ Silent(k) \/ \E sent \in BOOLEAN : sendReply(k, sent)

TransportsNext ==
  \/ \E t \in Transport :
       \/ \E ok \in BOOLEAN : start(t, ok)
       \/ Drop(t) \/ \E a \in Actions : Receive(t, a)
  \/ \E k \in Task : TaskStep(k)

-----------------------------------------------------------------------------
(* Properties.                                                             *)

(* Every variable of the transports has its type.                          *)
TransportsTypeOK ==
  /\ started \subseteq tried /\ tried \subseteq Transport
  /\ rx_count_ \in [Transport -> Nat] /\ tx_count_ \in [Transport -> Nat]
  /\ dropped_count_ \in [Transport -> Nat]
  /\ stage \in [Task -> {"idle", "load", "store", "handle"}]
  /\ message \in [Task -> Message]
  /\ \A k \in Task : stage[k] # "idle" => TaskOf(message[k].transport) = k
  /\ loaded \in [Task -> Nat]
  /\ dispatch_count_ \in [Actions -> Nat] /\ dispatched \in [Actions -> Nat]
  /\ contended \subseteq Actions

(* A dispatch counter is right unless both tasks have counted the action   *)
(* at the same time, which the code does not prevent.                      *)
CountedUnlessRaced == \A a \in Actions \ contended : dispatch_count_[a] = dispatched[a]
=============================================================================
