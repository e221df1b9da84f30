-------------------------------- MODULE LEDs --------------------------------
(***************************************************************************)
(* The LEDs.  LEDService (service id 0x05) drives the pixels of the K10    *)
(* and the two of the expansion board from its cache states_; the board's  *)
(* own handler (service id 0x03) drives the same two from a second cache,  *)
(* led_states_, which neither service shows the other.  Handlers of        *)
(* several tasks run at once and take no lock: caches are filled field by  *)
(* field, the K10 strip has one brightness for all, and a frame for the    *)
(* board is put together before it is sent.                                *)
(***************************************************************************)
EXTENDS Integers, FiniteSets

CONSTANTS
  K10,         \* the LEDs of LEDService on the K10: 0..K10_LED_COUNT - 1
  DFR,         \* its two on the board: the next DFR_LED_COUNT
  Colors,      \* colours; 0 is black
  Levels,      \* brightness values; 0 is dark
  Paints,      \* the colours with a brightness that clients ask for
  Masks,       \* the masks they ask it for
  Asked,       \* the LEDs they ask the board's service for
  Tasks,       \* the tasks that run handlers
  Lossy        \* writes to the board may be lost

LEDsOf == K10 \cup DFR
First == CHOOSE l \in DFR : \A k \in DFR : l <= k

(* The board numbers its LEDs from 0 and caches a third it does not have.  *)
BoardLEDs == 0..2
Wired == 0..1

ASSUME LEDsAssumption == LEDsOf \subseteq Nat /\ K10 \cap DFR = {} /\ DFR = {First, First + 1}
ASSUME PaintAssumption ==
  /\ 0 \in Colors /\ 0 \in Levels /\ Levels \subseteq Nat
  /\ Paints \subseteq [c : Colors, b : Levels]
ASSUME MasksAssumption == Masks \subseteq SUBSET LEDsOf /\ Asked \subseteq BoardLEDs
ASSUME LossyAssumption == Lossy \in BOOLEAN

VARIABLES
  states,        \* per LED: states_, colour and brightness
  led_states,    \* per LED of the board: led_states_, its colour
  brightness,    \* the brightness of the K10 strip
  pixel,         \* per LED of the K10: colour and brightness shown
  strip,         \* the board's LEDs: a colour each, one brightness
  started,       \* the board service is STARTED
  pc,            \* per task: where its handler is
  cmd,           \* per task: the command it handles
  todo,          \* per task: the LEDs its loop has left
  frame,         \* per task: the frame it is about to send
  alone,         \* history, per task: no other handler ran meanwhile
  sent           \* history, per task: no frame of its was lost

taskVars == <<pc, cmd, todo, frame>>
vars == <<states, led_states, brightness, pixel, strip, started, taskVars, alone, sent>>

Black == [c |-> 0, b |-> 0]
Dark == [colors |-> [i \in Wired |-> 0], b |-> 0]
NoCmd == [op |-> "none", leds |-> {}, paint |-> Black]

(* initializeService() has zeroed cache and strip; the board is up or not. *)
Init ==
  /\ states = [l \in LEDsOf |-> Black]
  /\ led_states = [i \in BoardLEDs |-> 0]
  /\ brightness = 0
  /\ pixel = [l \in K10 |-> Black]
  /\ strip = Dark
  /\ started \in BOOLEAN
  /\ pc = [t \in Tasks |-> "idle"]
  /\ cmd = [t \in Tasks |-> NoCmd]
  /\ todo = [t \in Tasks |-> {}]
  /\ frame = [t \in Tasks |-> Dark]
  /\ alone = [t \in Tasks |-> TRUE]
  /\ sent = [t \in Tasks |-> TRUE]

-----------------------------------------------------------------------------
(* Handlers.                                                               *)

(* The loops over a mask go up.                                            *)
Current(t, l) == l \in todo[t] /\ \A k \in todo[t] : l <= k

(* A handler passes its checks and goes to its first step.                 *)
Enter(t, c, step, leds) ==
  /\ pc[t] = "idle"
  /\ pc' = [pc EXCEPT ![t] = step]
  /\ cmd' = [cmd EXCEPT ![t] = c]
  /\ todo' = [todo EXCEPT ![t] = leds]
  /\ alone' = [u \in Tasks |-> IF u = t THEN \A v \in Tasks : pc[v] = "idle"
                                        ELSE alone[u] /\ pc[u] = "idle"]
  /\ sent' = [sent EXCEPT ![t] = TRUE]
  /\ UNCHANGED <<states, led_states, brightness, pixel, strip, started, frame>>

(* To the next LED of the loop, or past it.                                *)
Loop(t, l, again, past) ==
  /\ todo' = [todo EXCEPT ![t] = todo[t] \ {l}]
  /\ pc' = [pc EXCEPT ![t] = IF todo[t] = {l} THEN past ELSE again]

Goto(t, here, there) == pc[t] = here /\ pc' = [pc EXCEPT ![t] = there]

(* SET_COLOR and TURN_OFF: setColor(), turnOff(), which paints black.  A   *)
(* mask without an LED is refused.                                         *)
SetColor(t, mask, paint) ==
  /\ mask # {}
  /\ Enter(t, [op |-> "set", leds |-> mask, paint |-> paint], "cache", mask)

(* TURN_OFF_ALL: turnOffAll().                                             *)
TurnOffAll(t) ==
  Enter(t, [op |-> "off", leds |-> LEDsOf, paint |-> Black], "cache", LEDsOf)

(* The cache entry of an LED: its colour, then its brightness.             *)
CacheColor(t, l) ==
  /\ Goto(t, "cache", "level")
  /\ Current(t, l)
  /\ states' = [states EXCEPT ![l].c = cmd[t].paint.c]
  /\ UNCHANGED <<led_states, brightness, pixel, strip, started, cmd, todo, frame, alone, sent>>

(* After the last one the LEDs of the K10 are flushed, if the mask has any.*)
CacheLevel(t, l) ==
  /\ pc[t] = "level"
  /\ Current(t, l)
  /\ states' = [states EXCEPT ![l].b = cmd[t].paint.b]
  /\ LET k10 == cmd[t].leds \cap K10
     IN  IF todo[t] # {l} THEN Loop(t, l, "cache", "cache")
         ELSE /\ todo' = [todo EXCEPT ![t] = k10]
              /\ pc' = [pc EXCEPT ![t] = IF k10 = {} THEN "build" ELSE "dim"]
  /\ UNCHANGED <<led_states, brightness, pixel, strip, started, cmd, frame, alone, sent>>

(* turnOffAll() writes zeros whatever the cache says by then.              *)
Wanted(t, l) == IF cmd[t].op = "off" THEN Black ELSE states[l]

(* Mutant of FlushBrightness: the brightness of the strip is left alone.   *)
FlushBrightnessKept(t, l) ==
  /\ Goto(t, "dim", "write")
  /\ Current(t, l)
  /\ UNCHANGED <<states, led_states, brightness, pixel, strip, started, cmd, todo, frame, alone, sent>>

(* flushK10Led(): the brightness of the whole strip, then the pixel.       *)
FlushBrightness(t, l) ==
  /\ Goto(t, "dim", "write")
  /\ Current(t, l)
  /\ brightness' = Wanted(t, l).b
  /\ UNCHANGED <<states, led_states, pixel, strip, started, cmd, todo, frame, alone, sent>>

FlushPixel(t, l) ==
  /\ pc[t] = "write"
  /\ Current(t, l)
  /\ pixel' = [pixel EXCEPT ![l] = [c |-> Wanted(t, l).c, b |-> brightness]]
  /\ Loop(t, l, IF cmd[t].op = "off" THEN "write" ELSE "dim", "build")
  /\ UNCHANGED <<states, led_states, brightness, strip, started, cmd, frame, alone, sent>>

MaxOf(x, y) == IF x >= y THEN x ELSE y

(* The frame made of the cache: the higher brightness is for both.         *)
CachedFrame ==
  [colors |-> [i \in Wired |-> states[First + i].c],
   b |-> MaxOf(states[First].b, states[First + 1].b)]

(* flushDFRLeds(): only if the mask has an LED of the board and its        *)
(* service runs, the frame is put together.                                *)
BuildFrame(t) ==
  /\ LET skipped == cmd[t].leds \cap DFR = {} \/ ~started
     IN  /\ Goto(t, "build", IF skipped THEN "done" ELSE "send")
         /\ frame' = [frame EXCEPT ![t] = IF skipped THEN Dark ELSE CachedFrame]
  /\ UNCHANGED <<states, led_states, brightness, pixel, strip, started, cmd, todo, alone, sent>>

(* setWS2812(): the board takes the frame, or every attempt fails; either  *)
(* way the handler goes on.                                                *)
Send(t, there, ok) ==
  /\ Goto(t, "send", there)
  /\ ok \/ Lossy
  /\ strip' = IF ok THEN frame[t] ELSE strip
  /\ sent' = [sent EXCEPT ![t] = sent[t] /\ ok]
  /\ frame' = [frame EXCEPT ![t] = Dark]
  /\ UNCHANGED <<states, led_states, brightness, pixel, started, cmd, todo, alone>>

SendFrame(t, ok) ==
  Send(t, IF cmd[t].op \in {"set", "off"} THEN "done" ELSE "record", ok)

-----------------------------------------------------------------------------
(* The board's handler.                                                    *)

(* SET_LED_COLOR, TURN_OFF_LED: refused unless the service is started and  *)
(* the LED is one of the three.                                            *)
BoardSetLED(t, i, paint) ==
  /\ started
  /\ Enter(t, [op |-> "board", leds |-> {i}, paint |-> paint], "compose", {i})

(* TURN_OFF_ALL_LEDS: one LED after the other.                             *)
BoardTurnOffAll(t) ==
  /\ started
  /\ Enter(t, [op |-> "board", leds |-> Wired, paint |-> Black], "compose", Wired)

(* Mutant of Compose: a frame of the new colour alone.                     *)
ComposeAlone(t, i) ==
  /\ Goto(t, "compose", "send")
  /\ Current(t, i)
  /\ frame' = [frame EXCEPT ![t] =
                 [colors |-> [j \in Wired |-> IF j = i THEN cmd[t].paint.c ELSE 0],
                  b |-> cmd[t].paint.b]]
  /\ UNCHANGED <<states, led_states, brightness, pixel, strip, started, cmd, todo, alone, sent>>

(* setLEDColor(): a frame of the cached colours and the new one, with the  *)
(* new brightness; the third LED is not part of it.                        *)
Compose(t, i) ==
  /\ Goto(t, "compose", "send")
  /\ Current(t, i)
  /\ frame' = [frame EXCEPT ![t] =
                 [colors |-> [j \in Wired |-> IF j = i THEN cmd[t].paint.c ELSE led_states[j]],
                  b |-> cmd[t].paint.b]]
  /\ UNCHANGED <<states, led_states, brightness, pixel, strip, started, cmd, todo, alone, sent>>

(* It ends with the cache, without the brightness.                         *)
Record(t, i) ==
  /\ pc[t] = "record"
  /\ Current(t, i)
  /\ led_states' = [led_states EXCEPT ![i] = cmd[t].paint.c]
  /\ Loop(t, i, "compose", "done")
  /\ UNCHANGED <<states, brightness, pixel, strip, started, cmd, frame, alone, sent>>

(* The reply leaves.                                                       *)
Reply(t) ==
  /\ Goto(t, "done", "idle")
  /\ cmd' = [cmd EXCEPT ![t] = NoCmd]
  /\ alone' = [alone EXCEPT ![t] = TRUE]
  /\ sent' = [sent EXCEPT ![t] = TRUE]
  /\ UNCHANGED <<states, led_states, brightness, pixel, strip, started, todo, frame>>

-----------------------------------------------------------------------------

Handler(t) ==
  \/ \E l \in LEDsOf : CacheColor(t, l) \/ CacheLevel(t, l)
  \/ \E l \in K10 : FlushBrightness(t, l) \/ FlushPixel(t, l)
  \/ BuildFrame(t)
  \/ \E ok \in BOOLEAN : SendFrame(t, ok)
  \/ \E i \in BoardLEDs : Compose(t, i) \/ Record(t, i)
  \/ Reply(t)

Next ==
  \E t \in Tasks :
    \/ \E mask \in Masks, paint \in Paints \cup {Black} : SetColor(t, mask, paint)
    \/ TurnOffAll(t)
    \/ \E i \in Asked, paint \in Paints \cup {Black} : BoardSetLED(t, i, paint)
    \/ BoardTurnOffAll(t)
    \/ Handler(t)

Spec == Init /\ [][Next]_vars

-----------------------------------------------------------------------------
(* Properties.                                                             *)

Painted == [c : Colors, b : Levels]

(* Every variable has its type.                                            *)
TypeOK ==
  /\ states \in [LEDsOf -> Painted]
  /\ led_states \in [BoardLEDs -> Colors]
  /\ brightness \in Levels
  /\ pixel \in [K10 -> Painted]
  /\ strip \in [colors : [Wired -> Colors], b : Levels]
  /\ started \in BOOLEAN
  /\ pc \in [Tasks -> {"idle", "cache", "level", "dim", "write", "build", "send",
                       "compose", "record", "done"}]
  /\ cmd \in [Tasks -> [op : {"none", "set", "off", "board"},
                        leds : SUBSET (LEDsOf \cup BoardLEDs), paint : Painted]]
  /\ todo \in [Tasks -> SUBSET (LEDsOf \cup BoardLEDs)]
  /\ frame \in [Tasks -> [colors : [Wired -> Colors], b : Levels]]
  /\ alone \in [Tasks -> BOOLEAN]
  /\ sent \in [Tasks -> BOOLEAN]

(* What GET_COLOR and GET_LED_STATUS answer.                               *)
getColor(l) == states[l]
getLedStatus(i) == led_states[i]

Undisturbed(t) == pc[t] = "done" /\ alone[t] /\ sent[t]

(* A command of the LED service that met no other handler and lost no      *)
(* frame leaves its LEDs as GET_COLOR tells, the K10's with their own      *)
(* brightness, and if it had one of the board's then both of those, with   *)
(* the higher brightness of the two: whatever races, lost frames and       *)
(* commands of the other service left behind.                              *)
ShownAsCached ==
  \A t \in Tasks :
    Undisturbed(t) /\ cmd[t].op # "board" =>
      /\ \A l \in cmd[t].leds \cap K10 : pixel[l] = getColor(l)
      /\ started /\ cmd[t].leds \cap DFR # {} =>
           /\ \A i \in Wired : strip.colors[i] = getColor(First + i).c
           /\ \A l \in DFR : getColor(l).b <= strip.b
           /\ \E l \in DFR : getColor(l).b = strip.b

(* A command of the board's service that met no other handler and lost no  *)
(* frame leaves the LEDs in the colours GET_LED_STATUS tells, the LED it   *)
(* was not about included, whatever the LED service had made of them.      *)
ShownAsBoardCached ==
  \A t \in Tasks :
    Undisturbed(t) /\ cmd[t].op = "board" =>
      \A i \in Wired : strip.colors[i] = getLedStatus(i)
=============================================================================
