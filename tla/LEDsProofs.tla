------------------------------ MODULE LEDsProofs ------------------------------
(***************************************************************************)
(* Theorems about LEDs: for any LEDs, colours, brightness values, masks    *)
(* and tasks.                                                              *)
(***************************************************************************)
EXTENDS LEDs, TLAPS

PCs == {"idle", "cache", "level", "dim", "write", "build", "send", "compose", "record", "done"}
Frames == [colors : [Wired -> Colors], b : Levels]
Commands == [op : {"none", "set", "off", "board"}, leds : SUBSET (LEDsOf \cup BoardLEDs),
             paint : Painted]

(* Where a handler may be with which command.                              *)
Shape(t) ==
  /\ pc[t] \in {"cache", "level", "dim", "write", "build"} =>
       cmd[t].op \in {"set", "off"} /\ cmd[t].leds \subseteq LEDsOf
  /\ pc[t] \in {"compose", "record"} => cmd[t].op = "board"
  /\ pc[t] # "idle" => cmd[t].op # "none"
  /\ cmd[t].op = "off" => cmd[t].leds = LEDsOf /\ cmd[t].paint = Black
  /\ pc[t] \in {"dim", "write"} => todo[t] \subseteq cmd[t].leds \cap K10

(* What a handler has done so far, if it runs alone.  One that turns off   *)
(* writes what it has cached.                                              *)
OffCached(t) ==
  /\ pc[t] \in {"cache", "level"} => \A l \in LEDsOf \ todo[t] : states[l] = Black
  /\ pc[t] = "level" => \A l \in LEDsOf : Current(t, l) => states[l].c = 0
  /\ pc[t] \notin {"cache", "level"} => \A l \in LEDsOf : states[l] = Black

Lit(t) ==
  /\ cmd[t].op = "off" => OffCached(t)
  /\ pc[t] \in {"dim", "write"} =>
       \A l \in (cmd[t].leds \cap K10) \ todo[t] : pixel[l] = states[l]
  /\ pc[t] = "write" /\ cmd[t].op = "off" => brightness = 0
  /\ pc[t] = "write" /\ cmd[t].op = "set" =>
       \A l \in K10 : Current(t, l) => brightness = states[l].b
  /\ pc[t] \in {"build", "send", "done"} => \A l \in cmd[t].leds \cap K10 : pixel[l] = states[l]
  /\ pc[t] = "send" => frame[t] = CachedFrame
  /\ pc[t] = "done" /\ sent[t] /\ started /\ cmd[t].leds \cap DFR # {} => strip = CachedFrame

(* The board's handler: the cached colours but for the LED it is about.    *)
With(t, i) == [j \in Wired |-> IF j = i THEN cmd[t].paint.c ELSE led_states[j]]

BoardLit(t) ==
  /\ pc[t] = "send" => \A i \in BoardLEDs : Current(t, i) => frame[t].colors = With(t, i)
  /\ pc[t] = "record" /\ sent[t] =>
       \A i \in BoardLEDs : Current(t, i) => strip.colors = With(t, i)
  /\ pc[t] = "done" /\ sent[t] => \A j \in Wired : strip.colors[j] = led_states[j]

OthersIdle(t) == \A u \in Tasks \ {t} : pc[u] = "idle"
Progress(t) == IF cmd[t].op = "board" THEN BoardLit(t) ELSE Lit(t)

Undisturbing(t) == alone[t] /\ pc[t] # "idle" => OthersIdle(t) /\ Progress(t)

LEDsInv == TypeOK /\ \A t \in Tasks : Shape(t) /\ Undisturbing(t)

-----------------------------------------------------------------------------

LEMMA LEDsTyped ==
  /\ Black \in Painted /\ Dark \in Frames
  /\ NoCmd \in Commands
  /\ First \in LEDsOf /\ First + 1 \in LEDsOf /\ DFR = {First, First + 1}
  /\ LEDsOf \subseteq Nat /\ BoardLEDs \subseteq Nat /\ Wired \subseteq BoardLEDs
  /\ Wired = {0, 1}
<1>1. Black \in Painted
  BY PaintAssumption DEF Black, Painted
<1>2. Dark \in Frames
  BY PaintAssumption DEF Dark, Frames
<1>3. QED
  BY <1>1, <1>2, LEDsAssumption DEF NoCmd, Commands, LEDsOf, BoardLEDs, Wired

(* The loop is at one LED.                                                 *)
LEMMA OneCurrent ==
  ASSUME TypeOK, NEW t \in Tasks, NEW l, NEW k, Current(t, l), Current(t, k)
  PROVE  l = k
<1>1. l \in Nat /\ k \in Nat /\ l <= k /\ k <= l
  BY LEDsTyped DEF TypeOK, Current
<1>2. QED
  BY <1>1

LEMMA CachedFrameTyped ==
  ASSUME TypeOK
  PROVE  CachedFrame \in Frames
<1>1. states[First] \in Painted /\ states[First + 1] \in Painted
  BY LEDsTyped DEF TypeOK
<1>2. \A i \in Wired : First + i \in LEDsOf /\ states[First + i].c \in Colors
  <2>1. \A i \in Wired : First + i = First \/ First + i = First + 1
    BY LEDsTyped
  <2>2. QED
    BY <2>1, LEDsTyped DEF TypeOK, Painted
<1>3. MaxOf(states[First].b, states[First + 1].b) \in Levels
  BY <1>1 DEF MaxOf, Painted
<1>4. QED
  BY <1>2, <1>3 DEF CachedFrame, Frames

LEMMA LEDsInit == Init => LEDsInv
<1> SUFFICES ASSUME Init PROVE LEDsInv
  OBVIOUS
<1>1. TypeOK
  <2>1. /\ states \in [LEDsOf -> Painted] /\ pixel \in [K10 -> Painted]
        /\ cmd \in [Tasks -> Commands] /\ frame \in [Tasks -> Frames]
        /\ strip \in Frames
    BY LEDsTyped DEF Init
  <2>2. led_states \in [BoardLEDs -> Colors] /\ brightness \in Levels
    BY PaintAssumption DEF Init
  <2>3. QED
    BY <2>1, <2>2 DEF Init, TypeOK, Frames, Commands
<1>2. QED
  BY <1>1 DEF Init, LEDsInv, Shape, Undisturbing, NoCmd

(* A step of a handler that is right by itself.                            *)
LEMMA HandlerFrame ==
  ASSUME LEDsInv, NEW t \in Tasks, pc[t] # "idle", TypeOK', alone' = alone,
         \A u \in Tasks \ {t} : pc'[u] = pc[u] /\ cmd'[u] = cmd[u] /\ todo'[u] = todo[u],
         Shape(t)', OthersIdle(t) /\ Progress(t) => Progress(t)'
  PROVE  LEDsInv'
<1>1. \A u \in Tasks \ {t} : Shape(u)'
  BY DEF LEDsInv, Shape
<1>2. \A u \in Tasks \ {t} : Undisturbing(u)'
  BY DEF LEDsInv, Undisturbing, OthersIdle
<1>3. Undisturbing(t)'
  BY DEF LEDsInv, Undisturbing, OthersIdle
<1>4. QED
  BY <1>1, <1>2, <1>3 DEF LEDsInv

(* What the steps of a loop do to the program counter.                     *)
LEMMA Counters ==
  ASSUME TypeOK, NEW t \in Tasks, NEW s \in PCs, pc' = [pc EXCEPT ![t] = s]
  PROVE  pc' \in [Tasks -> PCs] /\ pc'[t] = s /\ \A u \in Tasks \ {t} : pc'[u] = pc[u]
BY DEF TypeOK, PCs

LEMMA CacheSteps ==
  ASSUME LEDsInv, NEW t \in Tasks, NEW l \in LEDsOf, CacheColor(t, l) \/ CacheLevel(t, l)
  PROVE  LEDsInv'
<1> USE DEF LEDsInv
<1>1. /\ UNCHANGED <<led_states, brightness, pixel, strip, started, cmd, frame, alone, sent>>
      /\ pc[t] \in {"cache", "level"} /\ Current(t, l) /\ l \in todo[t]
      /\ cmd[t].paint \in Painted /\ cmd[t].op \in {"set", "off"} /\ Shape(t)
      /\ states[l] \in Painted
  BY DEF CacheColor, CacheLevel, Goto, Current, TypeOK, Shape
<1>2. CASE CacheColor(t, l)
  <2>1. /\ pc[t] = "cache" /\ pc' = [pc EXCEPT ![t] = "level"] /\ todo' = todo
        /\ states' = [states EXCEPT ![l].c = cmd[t].paint.c]
    BY <1>2 DEF CacheColor, Goto
  <2>2. pc' \in [Tasks -> PCs] /\ pc'[t] = "level" /\ \A u \in Tasks \ {t} : pc'[u] = pc[u]
    BY <2>1, Counters DEF PCs
  <2>3. states' \in [LEDsOf -> Painted]
    BY <1>1, <2>1 DEF TypeOK, Painted
  <2>4. TypeOK'
    BY <1>1, <2>1, <2>2, <2>3 DEF TypeOK, PCs
  <2>5. Shape(t)'
    BY <1>1, <2>1, <2>2 DEF Shape
  <2>6. states'[l].c = cmd[t].paint.c /\ \A k \in LEDsOf \ {l} : states'[k] = states[k]
    BY <1>1, <2>1 DEF TypeOK, Painted
  <2>7. Progress(t) => Progress(t)'
    <3> SUFFICES ASSUME Lit(t) PROVE Lit(t)'
      BY <1>1 DEF Progress
    <3>1. cmd[t].op = "off" => OffCached(t)'
      <4> SUFFICES ASSUME cmd[t].op = "off" PROVE OffCached(t)'
        OBVIOUS
      <4>1. \A k \in LEDsOf \ todo[t] : k # l /\ states'[k] = Black
        BY <1>1, <2>1, <2>6 DEF Lit, OffCached
      <4>2. \A k \in LEDsOf : Current(t, k) => states'[k].c = 0
        BY <1>1, <2>6, OneCurrent DEF Shape, Black
      <4>3. QED
        BY <2>1, <2>2, <4>1, <4>2 DEF OffCached, Current
    <3>2. QED
      BY <1>1, <2>2, <3>1 DEF Lit
  <2>8. QED
    BY <1>1, <2>1, <2>2, <2>4, <2>5, <2>7, HandlerFrame
<1>3. CASE CacheLevel(t, l)
  <2> DEFINE k10 == cmd[t].leds \cap K10
  <2>1. /\ pc[t] = "level" /\ states' = [states EXCEPT ![l].b = cmd[t].paint.b]
        /\ \/ /\ todo[t] # {l} /\ todo' = [todo EXCEPT ![t] = todo[t] \ {l}]
              /\ pc' = [pc EXCEPT ![t] = "cache"]
           \/ /\ todo[t] = {l} /\ todo' = [todo EXCEPT ![t] = k10]
              /\ pc' = [pc EXCEPT ![t] = IF k10 = {} THEN "build" ELSE "dim"]
    BY <1>3 DEF CacheLevel, Loop
  <2>2. /\ todo' \in [Tasks -> SUBSET (LEDsOf \cup BoardLEDs)]
        /\ \A u \in Tasks \ {t} : todo'[u] = todo[u]
        /\ \/ todo[t] # {l} /\ todo'[t] = todo[t] \ {l} /\ pc'[t] = "cache"
           \/ todo[t] = {l} /\ todo'[t] = k10 /\ pc'[t] \in {"build", "dim"}
                /\ (pc'[t] = "build" => k10 = {})
    <3>1. k10 \in SUBSET (LEDsOf \cup BoardLEDs) /\ todo[t] \ {l} \in SUBSET (LEDsOf \cup BoardLEDs)
      BY DEF TypeOK
    <3>2. /\ todo \in [Tasks -> SUBSET (LEDsOf \cup BoardLEDs)]
          /\ pc \in [Tasks -> PCs]
      BY DEF TypeOK, PCs
    <3> HIDE DEF k10
    <3>3. QED
      BY <2>1, <3>1, <3>2
  <2>3. pc' \in [Tasks -> PCs] /\ \A u \in Tasks \ {t} : pc'[u] = pc[u]
    BY <2>1 DEF TypeOK, PCs
  <2>4. states' \in [LEDsOf -> Painted]
    BY <1>1, <2>1 DEF TypeOK, Painted
  <2>5. TypeOK'
    BY <1>1, <2>2, <2>3, <2>4 DEF TypeOK, PCs
  <2>6. Shape(t)'
    BY <1>1, <2>1, <2>2 DEF Shape
  <2>7. /\ states'[l] = [c |-> states[l].c, b |-> cmd[t].paint.b]
        /\ \A k \in LEDsOf \ {l} : states'[k] = states[k]
    BY <1>1, <2>1 DEF TypeOK, Painted
  <2>8. Progress(t) => Progress(t)'
    <3> SUFFICES ASSUME Lit(t) PROVE Lit(t)'
      BY <1>1 DEF Progress
    <3>1. cmd[t].op = "off" => OffCached(t)'
      <4> SUFFICES ASSUME cmd[t].op = "off" PROVE OffCached(t)'
        OBVIOUS
      <4>1. states'[l] = Black
        BY <1>1, <2>1, <2>7 DEF Lit, OffCached, Shape, Black
      <4>2. \A k \in LEDsOf \ (todo[t] \ {l}) : states'[k] = Black
        BY <2>1, <2>7, <4>1 DEF Lit, OffCached
      <4>3. QED
        BY <2>2, <4>2 DEF OffCached
    <3>2. QED
      BY <1>1, <2>2, <3>1 DEF Lit
  <2>9. QED
    BY <1>1, <2>2, <2>3, <2>5, <2>6, <2>8, HandlerFrame
<1>4. QED
  BY <1>2, <1>3

LEMMA FlushSteps ==
  ASSUME LEDsInv, NEW t \in Tasks, NEW l \in K10, FlushBrightness(t, l) \/ FlushPixel(t, l)
  PROVE  LEDsInv'
<1> USE DEF LEDsInv
<1>1. /\ UNCHANGED <<states, led_states, strip, started, cmd, frame, alone, sent>>
      /\ pc[t] \in {"dim", "write"} /\ Current(t, l) /\ l \in todo[t]
      /\ cmd[t].op \in {"set", "off"} /\ Shape(t)
      /\ l \in LEDsOf /\ states[l] \in Painted
      /\ Wanted(t, l) \in Painted
      /\ todo[t] \subseteq cmd[t].leds \cap K10
  BY LEDsTyped DEF FlushBrightness, FlushPixel, Goto, Current, TypeOK, Shape, LEDsOf, Wanted
<1>2. Lit(t) => Wanted(t, l) = states[l]
  BY <1>1 DEF Lit, OffCached, Wanted
<1>3. CASE FlushBrightness(t, l)
  <2>1. /\ pc[t] = "dim" /\ pc' = [pc EXCEPT ![t] = "write"] /\ UNCHANGED <<todo, pixel>>
        /\ brightness' = Wanted(t, l).b
    BY <1>3 DEF FlushBrightness, Goto
  <2>2. pc' \in [Tasks -> PCs] /\ pc'[t] = "write" /\ \A u \in Tasks \ {t} : pc'[u] = pc[u]
    BY <2>1, Counters DEF PCs
  <2>3. TypeOK'
    BY <1>1, <2>1, <2>2 DEF TypeOK, PCs, Painted
  <2>4. Shape(t)'
    BY <1>1, <2>1, <2>2 DEF Shape
  <2>5. Progress(t) => Progress(t)'
    <3> SUFFICES ASSUME Lit(t) PROVE Lit(t)'
      BY <1>1 DEF Progress
    <3>1. cmd[t].op = "off" => brightness' = 0
      BY <2>1 DEF Wanted, Black
    <3>2. \A k \in K10 : Current(t, k) => brightness' = states[k].b
      BY <1>1, <1>2, <2>1, OneCurrent
    <3>3. cmd[t].op = "off" => OffCached(t)'
      BY <1>1, <2>1, <2>2 DEF Lit, OffCached
    <3>4. QED
      BY <1>1, <2>1, <2>2, <3>1, <3>2, <3>3 DEF Lit, Current
  <2>6. QED
    BY <1>1, <2>1, <2>2, <2>3, <2>4, <2>5, HandlerFrame
<1>4. CASE FlushPixel(t, l)
  <2>1. /\ pc[t] = "write" /\ brightness' = brightness
        /\ pixel' = [pixel EXCEPT ![l] = [c |-> Wanted(t, l).c, b |-> brightness]]
        /\ todo' = [todo EXCEPT ![t] = todo[t] \ {l}]
        /\ pc' = [pc EXCEPT ![t] = IF todo[t] = {l} THEN "build"
                                   ELSE IF cmd[t].op = "off" THEN "write" ELSE "dim"]
    BY <1>4 DEF FlushPixel, Loop
  <2>2. /\ pc' \in [Tasks -> PCs] /\ \A u \in Tasks \ {t} : pc'[u] = pc[u]
        /\ \/ todo[t] = {l} /\ pc'[t] = "build"
           \/ cmd[t].op = "off" /\ pc'[t] = "write"
           \/ pc'[t] = "dim"
    BY <1>1, <2>1 DEF TypeOK, PCs
  <2>3. /\ todo' \in [Tasks -> SUBSET (LEDsOf \cup BoardLEDs)] /\ todo'[t] = todo[t] \ {l}
        /\ \A u \in Tasks \ {t} : todo'[u] = todo[u]
    BY <2>1 DEF TypeOK
  <2>4. pixel' \in [K10 -> Painted]
    BY <1>1, <2>1 DEF TypeOK, Painted
  <2>5. TypeOK'
    BY <1>1, <2>1, <2>2, <2>3, <2>4 DEF TypeOK, PCs
  <2>6. Shape(t)'
    BY <1>1, <2>2, <2>3 DEF Shape
  <2>7. Progress(t) => Progress(t)'
    <3> SUFFICES ASSUME Lit(t) PROVE Lit(t)'
      BY <1>1 DEF Progress
    <3>1. brightness = states[l].b
      BY <1>1, <1>2, <2>1 DEF Lit, OffCached, Black
    <3>2. pixel'[l] = states[l] /\ \A k \in K10 \ {l} : pixel'[k] = pixel[k]
      BY <1>1, <1>2, <2>1, <3>1 DEF TypeOK, Painted
    <3>3. \A k \in (cmd[t].leds \cap K10) \ (todo[t] \ {l}) : pixel'[k] = states[k]
      BY <2>1, <3>2 DEF Lit
    <3>4. cmd[t].op = "off" => OffCached(t)'
      BY <1>1, <2>1, <2>2 DEF Lit, OffCached
    <3>5. QED
      BY <1>1, <2>1, <2>2, <2>3, <3>3, <3>4 DEF Lit
  <2>8. QED
    BY <1>1, <2>2, <2>3, <2>5, <2>6, <2>7, HandlerFrame
<1>5. QED
  BY <1>3, <1>4

(* The frame for the board, put together and sent.                         *)
LEMMA FrameSteps ==
  ASSUME LEDsInv, NEW t \in Tasks, BuildFrame(t) \/ \E ok \in BOOLEAN : SendFrame(t, ok)
  PROVE  LEDsInv'
<1> USE DEF LEDsInv
<1>1. UNCHANGED <<states, led_states, brightness, pixel, started, cmd, todo, alone>>
  BY DEF BuildFrame, SendFrame, Send
<1>2. CASE BuildFrame(t)
  <2> DEFINE skipped == cmd[t].leds \cap DFR = {} \/ ~started
  <2>1. /\ pc[t] = "build" /\ pc' = [pc EXCEPT ![t] = IF skipped THEN "done" ELSE "send"]
        /\ frame' = [frame EXCEPT ![t] = IF skipped THEN Dark ELSE CachedFrame]
        /\ UNCHANGED <<strip, sent>>
    BY <1>2 DEF BuildFrame, Goto
  <2>2. /\ pc' \in [Tasks -> PCs] /\ \A u \in Tasks \ {t} : pc'[u] = pc[u]
        /\ \/ skipped /\ pc'[t] = "done"
           \/ ~skipped /\ pc'[t] = "send"
    BY <2>1 DEF TypeOK, PCs
  <2>3. frame' \in [Tasks -> Frames] /\ (~skipped => frame'[t] = CachedFrame)
    <3>1. frame \in [Tasks -> Frames] /\ Dark \in Frames /\ CachedFrame \in Frames
      BY LEDsTyped, CachedFrameTyped DEF TypeOK, Frames
    <3>2. QED
      BY <2>1, <3>1
  <2>4. TypeOK'
    BY <1>1, <2>1, <2>2, <2>3 DEF TypeOK, PCs, Frames
  <2>5. Shape(t)' /\ cmd[t].op \in {"set", "off"}
    BY <1>1, <2>1, <2>2 DEF Shape
  <2>6. Progress(t) => Progress(t)'
    <3> SUFFICES ASSUME Lit(t) PROVE Lit(t)'
      BY <1>1, <2>5 DEF Progress
    <3>1. CachedFrame' = CachedFrame
      BY <1>1 DEF CachedFrame
    <3>2. cmd[t].op = "off" => OffCached(t)'
      BY <1>1, <2>1, <2>2 DEF Lit, OffCached
    <3>3. QED
      BY <1>1, <2>1, <2>2, <2>3, <3>1, <3>2 DEF Lit
  <2>7. QED
    BY <1>1, <2>1, <2>2, <2>4, <2>5, <2>6, HandlerFrame
<1>3. ASSUME NEW ok \in BOOLEAN, SendFrame(t, ok) PROVE LEDsInv'
  <2>1. /\ pc[t] = "send"
        /\ pc' = [pc EXCEPT ![t] = IF cmd[t].op \in {"set", "off"} THEN "done" ELSE "record"]
        /\ strip' = IF ok THEN frame[t] ELSE strip
        /\ frame' = [frame EXCEPT ![t] = Dark]
    BY <1>3 DEF SendFrame, Send, Goto
  <2>2. sent' \in [Tasks -> BOOLEAN] /\ (sent'[t] => ok)
    <3>1. sent' = [sent EXCEPT ![t] = sent[t] /\ ok]
      BY <1>3 DEF SendFrame, Send
    <3>2. sent \in [Tasks -> BOOLEAN]
      BY DEF TypeOK
    <3>3. QED
      BY <3>1, <3>2, Zenon
  <2>3. /\ pc' \in [Tasks -> PCs] /\ \A u \in Tasks \ {t} : pc'[u] = pc[u]
        /\ \/ cmd[t].op \in {"set", "off"} /\ pc'[t] = "done"
           \/ cmd[t].op = "board" /\ pc'[t] = "record"
    BY <2>1 DEF TypeOK, PCs, Shape
  <2>4. frame' \in [Tasks -> Frames] /\ strip' \in Frames
    <3>1. frame \in [Tasks -> Frames] /\ strip \in Frames /\ Dark \in Frames
      BY LEDsTyped DEF TypeOK, Frames
    <3>2. QED
      BY <2>1, <3>1
  <2>5. TypeOK'
    BY <1>1, <2>2, <2>3, <2>4 DEF TypeOK, PCs, Frames
  <2>6. Shape(t)'
    BY <1>1, <2>1, <2>3 DEF Shape
  <2>7. Progress(t) => Progress(t)'
    <3>1. ASSUME cmd[t].op \in {"set", "off"}, Lit(t) PROVE Lit(t)'
      <4>1. CachedFrame' = CachedFrame /\ pc'[t] = "done"
        BY <1>1, <2>3, <3>1 DEF CachedFrame
      <4>2. cmd[t].op = "off" => OffCached(t)'
        BY <1>1, <2>1, <3>1, <4>1 DEF Lit, OffCached
      <4>3. QED
        BY <1>1, <2>1, <2>2, <3>1, <4>1, <4>2 DEF Lit
    <3>2. ASSUME cmd[t].op = "board", BoardLit(t) PROVE BoardLit(t)'
      BY <1>1, <2>1, <2>2, <2>3, <3>2 DEF BoardLit, With, Current
    <3>3. QED
      BY <1>1, <2>3, <3>1, <3>2 DEF Progress
  <2>8. QED
    BY <1>1, <2>1, <2>3, <2>5, <2>6, <2>7, HandlerFrame
<1>4. QED
  BY <1>2, <1>3

(* The board's handler composes a frame and records what it has sent.      *)
LEMMA BoardSteps ==
  ASSUME LEDsInv, NEW t \in Tasks, NEW i \in BoardLEDs, Compose(t, i) \/ Record(t, i)
  PROVE  LEDsInv'
<1> USE DEF LEDsInv
<1>1. /\ UNCHANGED <<states, brightness, pixel, strip, started, cmd, alone, sent>>
      /\ pc[t] \in {"compose", "record"} /\ Current(t, i) /\ i \in todo[t]
      /\ cmd[t].op = "board" /\ cmd[t].paint \in Painted
  BY DEF Compose, Record, Goto, Current, TypeOK, Shape
<1>2. CASE Compose(t, i)
  <2> DEFINE composed == [colors |-> With(t, i), b |-> cmd[t].paint.b]
  <2>1. /\ pc[t] = "compose" /\ pc' = [pc EXCEPT ![t] = "send"] /\ UNCHANGED <<led_states, todo>>
        /\ frame' = [frame EXCEPT ![t] = composed]
    BY <1>2 DEF Compose, Goto, With
  <2>2. composed \in Frames /\ composed.colors = With(t, i)
    BY <1>1, LEDsTyped DEF With, TypeOK, Painted, Frames
  <2> HIDE DEF composed
  <2>3. pc' \in [Tasks -> PCs] /\ pc'[t] = "send" /\ \A u \in Tasks \ {t} : pc'[u] = pc[u]
    BY <2>1, Counters DEF PCs
  <2>4. frame' \in [Tasks -> Frames] /\ frame'[t] = composed
    BY <2>1, <2>2 DEF TypeOK, Frames
  <2>5. TypeOK'
    BY <1>1, <2>1, <2>3, <2>4 DEF TypeOK, PCs, Frames
  <2>6. Shape(t)'
    BY <1>1, <2>1, <2>3 DEF Shape
  <2>7. BoardLit(t)'
    <3>1. \A j \in BoardLEDs : Current(t, j)' => j = i
      BY <1>1, <2>1, OneCurrent DEF Current
    <3>2. With(t, i)' = With(t, i)
      BY <1>1, <2>1 DEF With
    <3>3. QED
      BY <2>2, <2>3, <2>4, <3>1, <3>2 DEF BoardLit
  <2>8. QED
    BY <1>1, <2>1, <2>3, <2>5, <2>6, <2>7, HandlerFrame DEF Progress
<1>3. CASE Record(t, i)
  <2>1. /\ pc[t] = "record" /\ UNCHANGED frame
        /\ led_states' = [led_states EXCEPT ![i] = cmd[t].paint.c]
        /\ todo' = [todo EXCEPT ![t] = todo[t] \ {i}]
        /\ pc' = [pc EXCEPT ![t] = IF todo[t] = {i} THEN "done" ELSE "compose"]
    BY <1>3 DEF Record, Loop
  <2>2. /\ pc' \in [Tasks -> PCs] /\ pc'[t] \in {"done", "compose"}
        /\ \A u \in Tasks \ {t} : pc'[u] = pc[u]
    BY <2>1 DEF TypeOK, PCs
  <2>3. /\ todo' \in [Tasks -> SUBSET (LEDsOf \cup BoardLEDs)]
        /\ \A u \in Tasks \ {t} : todo'[u] = todo[u]
    BY <2>1 DEF TypeOK
  <2>4. led_states' \in [BoardLEDs -> Colors]
    BY <1>1, <2>1 DEF TypeOK, Painted
  <2>5. TypeOK'
    BY <1>1, <2>1, <2>2, <2>3, <2>4 DEF TypeOK, PCs
  <2>6. Shape(t)'
    BY <1>1, <2>2 DEF Shape
  <2>7. BoardLit(t) => BoardLit(t)'
    <3> SUFFICES ASSUME BoardLit(t), sent[t], NEW j \in Wired
                 PROVE  strip.colors[j] = led_states'[j]
      BY <1>1, <2>2 DEF BoardLit
    <3>1. strip.colors = With(t, i)
      BY <1>1, <2>1 DEF BoardLit
    <3>2. led_states'[j] = With(t, i)[j]
      BY <2>1, LEDsTyped DEF With, TypeOK
    <3>3. QED
      BY <3>1, <3>2
  <2>8. QED
    BY <1>1, <2>2, <2>3, <2>5, <2>6, <2>7, HandlerFrame DEF Progress
<1>4. QED
  BY <1>2, <1>3

(* A handler begins: another that runs is no longer alone.                 *)
LEMMA EnterStep ==
  ASSUME LEDsInv, NEW t \in Tasks, NEW c \in Commands, NEW s \in PCs,
         NEW leds \in SUBSET (LEDsOf \cup BoardLEDs), Enter(t, c, s, leds),
         c.op = "off" => leds = LEDsOf /\ c.leds = LEDsOf /\ c.paint = Black,
         \/ c.op \in {"set", "off"} /\ s = "cache" /\ c.leds \subseteq LEDsOf
         \/ c.op = "board" /\ s = "compose"
  PROVE  LEDsInv'
<1> USE DEF LEDsInv
<1>1. /\ pc[t] = "idle" /\ pc' = [pc EXCEPT ![t] = s] /\ cmd' = [cmd EXCEPT ![t] = c]
      /\ todo' = [todo EXCEPT ![t] = leds]
      /\ UNCHANGED <<states, led_states, brightness, pixel, strip, started, frame>>
  BY DEF Enter
<1>2. /\ alone' \in [Tasks -> BOOLEAN] /\ sent' \in [Tasks -> BOOLEAN]
      /\ alone'[t] => \A v \in Tasks : pc[v] = "idle"
      /\ \A u \in Tasks \ {t} : alone'[u] => pc[u] = "idle"
  <2>1. alone' = [u \in Tasks |-> IF u = t THEN \A v \in Tasks : pc[v] = "idle"
                                           ELSE alone[u] /\ pc[u] = "idle"]
    BY DEF Enter
  <2>2. alone' \in [Tasks -> BOOLEAN]
    BY <2>1 DEF TypeOK
  <2>3. alone'[t] => \A v \in Tasks : pc[v] = "idle"
    BY <2>1, Zenon
  <2>4. \A u \in Tasks \ {t} : alone'[u] => pc[u] = "idle"
    BY <2>1, Zenon
  <2>5. sent' \in [Tasks -> BOOLEAN]
    BY Zenon DEF Enter, TypeOK
  <2>6. QED
    BY <2>2, <2>3, <2>4, <2>5
<1>3. /\ pc' \in [Tasks -> PCs] /\ cmd' \in [Tasks -> Commands]
      /\ todo' \in [Tasks -> SUBSET (LEDsOf \cup BoardLEDs)]
      /\ pc'[t] = s /\ cmd'[t] = c /\ todo'[t] = leds
      /\ \A u \in Tasks \ {t} : pc'[u] = pc[u] /\ cmd'[u] = cmd[u] /\ todo'[u] = todo[u]
  BY <1>1 DEF TypeOK, PCs, Commands
<1>4. TypeOK'
  BY <1>1, <1>2, <1>3 DEF TypeOK, PCs, Commands
<1>5. \A u \in Tasks : Shape(u)'
  BY <1>3 DEF Shape
<1>6. Undisturbing(t)'
  <2>1. Progress(t)'
    BY <1>3 DEF Progress, BoardLit, Lit, OffCached
  <2>2. QED
    BY <1>2, <1>3, <2>1 DEF Undisturbing, OthersIdle
<1>7. \A u \in Tasks \ {t} : Undisturbing(u)'
  BY <1>2, <1>3 DEF Undisturbing
<1>8. QED
  BY <1>4, <1>5, <1>6, <1>7

LEMMA Beginnings ==
  ASSUME LEDsInv, NEW t \in Tasks,
         \/ \E mask \in Masks, paint \in Paints \cup {Black} : SetColor(t, mask, paint)
         \/ TurnOffAll(t)
         \/ \E i \in Asked, paint \in Paints \cup {Black} : BoardSetLED(t, i, paint)
         \/ BoardTurnOffAll(t)
  PROVE  LEDsInv'
<1>1. /\ "cache" \in PCs /\ "compose" \in PCs
      /\ Paints \cup {Black} \subseteq Painted /\ Masks \subseteq SUBSET LEDsOf
      /\ Asked \subseteq BoardLEDs
  BY LEDsTyped, PaintAssumption, MasksAssumption DEF PCs, Painted
<1>2. ASSUME NEW mask \in Masks, NEW paint \in Paints \cup {Black}, SetColor(t, mask, paint)
      PROVE  LEDsInv'
  <2> DEFINE c == [op |-> "set", leds |-> mask, paint |-> paint]
  <2>1. c \in Commands /\ c.op = "set" /\ c.leds \subseteq LEDsOf /\ Enter(t, c, "cache", mask)
    BY <1>1, <1>2 DEF SetColor, Commands
  <2> HIDE DEF c
  <2>2. QED
    BY <1>1, <2>1, EnterStep
<1>3. CASE TurnOffAll(t)
  <2> DEFINE c == [op |-> "off", leds |-> LEDsOf, paint |-> Black]
  <2>1. /\ c \in Commands /\ c.op = "off" /\ c.leds = LEDsOf /\ c.paint = Black
        /\ Enter(t, c, "cache", LEDsOf)
    BY <1>1, <1>3 DEF TurnOffAll, Commands
  <2> HIDE DEF c
  <2>2. QED
    BY <1>1, <2>1, EnterStep
<1>4. ASSUME NEW i \in Asked, NEW paint \in Paints \cup {Black}, BoardSetLED(t, i, paint)
      PROVE  LEDsInv'
  <2> DEFINE c == [op |-> "board", leds |-> {i}, paint |-> paint]
  <2>1. c \in Commands /\ c.op = "board" /\ Enter(t, c, "compose", {i})
    BY <1>1, <1>4 DEF BoardSetLED, Commands
  <2> HIDE DEF c
  <2>2. QED
    BY <1>1, <2>1, EnterStep
<1>5. CASE BoardTurnOffAll(t)
  <2> DEFINE c == [op |-> "board", leds |-> Wired, paint |-> Black]
  <2>1. c \in Commands /\ c.op = "board" /\ Enter(t, c, "compose", Wired)
    BY <1>1, <1>5, LEDsTyped DEF BoardTurnOffAll, Commands
  <2> HIDE DEF c
  <2>2. QED
    BY <1>1, <2>1, LEDsTyped, EnterStep
<1>6. QED
  BY <1>2, <1>3, <1>4, <1>5

LEMMA ReplyStep ==
  ASSUME LEDsInv, NEW t \in Tasks, Reply(t)
  PROVE  LEDsInv'
<1> USE DEF LEDsInv
<1>1. /\ pc[t] = "done" /\ pc' = [pc EXCEPT ![t] = "idle"] /\ cmd' = [cmd EXCEPT ![t] = NoCmd]
      /\ UNCHANGED <<states, led_states, brightness, pixel, strip, started, todo, frame>>
  BY DEF Reply, Goto
<1>2. /\ alone' \in [Tasks -> BOOLEAN] /\ sent' \in [Tasks -> BOOLEAN]
      /\ \A u \in Tasks \ {t} : alone'[u] => alone[u]
  BY Zenon DEF Reply, TypeOK
<1>3. /\ pc' \in [Tasks -> PCs] /\ cmd' \in [Tasks -> Commands]
      /\ pc'[t] = "idle" /\ cmd'[t] = NoCmd
      /\ \A u \in Tasks \ {t} : pc'[u] = pc[u] /\ cmd'[u] = cmd[u]
  BY <1>1, LEDsTyped DEF TypeOK, PCs, Commands
<1>4. TypeOK'
  BY <1>1, <1>2, <1>3 DEF TypeOK, PCs, Commands
<1>5. \A u \in Tasks : Shape(u)'
  BY <1>1, <1>3 DEF Shape, NoCmd
<1>6. \A u \in Tasks : Undisturbing(u)'
  BY <1>1, <1>2, <1>3 DEF Undisturbing, OthersIdle
<1>7. QED
  BY <1>4, <1>5, <1>6

-----------------------------------------------------------------------------

LEMMA LEDsInvHolds == Spec => []LEDsInv
<1>1. ASSUME LEDsInv, UNCHANGED vars PROVE LEDsInv'
  <2>1. UNCHANGED <<states, led_states, brightness, pixel, strip, started, pc, cmd, todo, frame,
                    alone, sent>>
    BY <1>1 DEF vars, taskVars
  <2>2. TypeOK'
    BY <1>1, <2>1 DEF LEDsInv, TypeOK
  <2>3. \A t \in Tasks : Lit(t)' = Lit(t) /\ BoardLit(t)' = BoardLit(t)
    BY <2>1 DEF Lit, BoardLit, OffCached, With, Current, CachedFrame
  <2>4. \A t \in Tasks : Shape(t)' /\ Undisturbing(t)'
    BY <1>1, <2>1, <2>3 DEF LEDsInv, Shape, Undisturbing, OthersIdle, Progress
  <2>5. QED
    BY <2>2, <2>4 DEF LEDsInv
<1>2. LEDsInv /\ [Next]_vars => LEDsInv'
  BY <1>1, CacheSteps, FlushSteps, FrameSteps, BoardSteps, ReplyStep, Beginnings DEF Next, Handler
<1>3. QED
  BY LEDsInit, <1>2, PTL DEF Spec

(* Every variable has its type.                                            *)
THEOREM TypeCorrect == Spec => []TypeOK
BY LEDsInvHolds, PTL DEF LEDsInv

(* A handler of LEDService that ran alone and lost no frame leaves what    *)
(* its cache says, whatever was there before.                              *)
THEOREM ShownAsCachedHolds == Spec => []ShownAsCached
<1>1. LEDsInv => ShownAsCached
  <2> SUFFICES ASSUME LEDsInv, NEW t \in Tasks, Undisturbed(t), cmd[t].op # "board"
               PROVE  /\ \A l \in cmd[t].leds \cap K10 : pixel[l] = getColor(l)
                      /\ started /\ cmd[t].leds \cap DFR # {} =>
                           /\ \A i \in Wired : strip.colors[i] = getColor(First + i).c
                           /\ \A l \in DFR : getColor(l).b <= strip.b
                           /\ \E l \in DFR : getColor(l).b = strip.b
    BY DEF ShownAsCached
  <2>1. Lit(t) /\ pc[t] = "done" /\ sent[t]
    BY DEF LEDsInv, Undisturbing, Undisturbed, Progress
  <2>2. \A l \in cmd[t].leds \cap K10 : pixel[l] = getColor(l)
    BY <2>1 DEF Lit, getColor
  <2>3. ASSUME started, cmd[t].leds \cap DFR # {}
        PROVE  /\ \A i \in Wired : strip.colors[i] = getColor(First + i).c
               /\ \A l \in DFR : getColor(l).b <= strip.b
               /\ \E l \in DFR : getColor(l).b = strip.b
    <3>1. strip = CachedFrame
      BY <2>1, <2>3 DEF Lit
    <3>2. /\ strip.b = MaxOf(states[First].b, states[First + 1].b)
          /\ \A i \in Wired : strip.colors[i] = states[First + i].c
      BY <3>1 DEF CachedFrame
    <3>3. states[First].b \in Nat /\ states[First + 1].b \in Nat
      BY LEDsTyped, PaintAssumption DEF LEDsInv, TypeOK, Painted
    <3>4. QED
      BY <3>2, <3>3, LEDsTyped DEF MaxOf, getColor
  <2>4. QED
    BY <2>2, <2>3
<1>2. QED
  BY LEDsInvHolds, <1>1, PTL

(* A handler of the board that ran alone and lost no frame leaves what     *)
(* led_states_ says.                                                       *)
THEOREM ShownAsBoardCachedHolds == Spec => []ShownAsBoardCached
<1>1. LEDsInv => ShownAsBoardCached
  BY DEF LEDsInv, Undisturbing, Undisturbed, Progress, BoardLit, ShownAsBoardCached, getLedStatus
<1>2. QED
  BY LEDsInvHolds, <1>1, PTL
=============================================================================
