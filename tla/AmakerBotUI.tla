---------------------------- MODULE AmakerBotUI ----------------------------
(***************************************************************************)
(* AmakerBotUIService and its screens: the display task calls tick() every *)
(* 500 ms on core 1 while, on core 0, screen commands change the current   *)
(* screen and every task logs.  Neither current_screen_ nor the draw is    *)
(* under a lock; a logger's rows and its version are two locked reads.     *)
(***************************************************************************)
EXTENDS Integers, RollingLogger

CONSTANTS
  SCREEN_COUNT,       \* splash, dashboard and the log screens
  Tasks,              \* the tasks that run command handlers
  SPLASH_MAX_MS,      \* in ticks of millis()
  BTN_A_DEBOUNCE_MS,
  max_rows,           \* what a logger holds
  current_log_level,  \* per log screen: what its logger lets through
  MaxTime,            \* bound: the last tick of the clock
  MaxLog              \* bound: entries a logger receives

ASSUME ScreensAssumption == SCREEN_COUNT \in Nat /\ SCREEN_COUNT >= 3 /\ SCREEN_COUNT < 254
ASSUME TasksAssumption == "ui" \notin Tasks
ASSUME LoggersAssumption == max_rows \in Nat \ {0} /\ current_log_level \in [2..(SCREEN_COUNT - 1) -> LogLevel]
ASSUME TimesAssumption ==
  {SPLASH_MAX_MS, BTN_A_DEBOUNCE_MS, MaxTime, MaxLog} \subseteq Nat

Screens == 0..(SCREEN_COUNT - 1)
SCREEN_SPLASH == 0
SCREEN_APP_INFO == 1
LogScreens == 2..(SCREEN_COUNT - 1)

Black == 255    \* nothing drawn; also previous_screen_ before the first tick
Partial == 254  \* live cells of the dashboard without its borders and labels

Procs == Tasks \cup {"ui"}

VARIABLES
  current_screen, previous_screen, splash_start_ms, btn_a_prev, btn_a_last_ms,
  log_rows,        \* per log screen: log_rows of its logger, by version
  log_version,     \* per log screen: log_version_ of its logger
  cached_version,  \* per log screen: cached_version_, -1 before the first draw
  now,             \* millis()
  tft,             \* whose content the display shows
  drawn,           \* per log screen: the version whose rows were drawn last
  pc,              \* per process: where it is
  target,          \* per process: the screen it is about to write
  back,            \* where tick() goes on after nextScreen()
  scr,             \* the screen whose updateScreen() runs
  raced,           \* history: the screen changed while tick() was drawing
  tick_ms,         \* the millis() of the splash test, 0 outside it
  stamp_ms,        \* per process: the millis() it read for splash_start_ms_, 0 once stored
  navigated,       \* history: the screen was changed since the boot
  shownSince,      \* history: when the splash was put up, 0 for another screen
  stale,           \* history: the last stamp is older than the splash it was stored for
  hurried          \* history: a handler was at work on the screen during the splash test

navVars == <<current_screen, splash_start_ms, target, raced>>
btnVars == <<btn_a_prev, btn_a_last_ms>>
drawVars == <<previous_screen, tft, drawn, cached_version, scr>>
logVars == <<log_rows, log_version>>
shownVars == <<navigated, shownSince, stale>>
splashVars == <<tick_ms, stamp_ms, shownVars, hurried>>
vars == <<navVars, btnVars, drawVars, logVars, splashVars, now, pc, back>>

(* The first splash is up when setup() comes to the display service, at    *)
(* whatever time that is, and is never stamped.                            *)
Init ==
  /\ current_screen = SCREEN_SPLASH
  /\ previous_screen = Black
  /\ splash_start_ms = 0
  /\ btn_a_prev = FALSE
  /\ btn_a_last_ms = 0
  /\ log_rows = [s \in LogScreens |-> <<>>]
  /\ log_version = [s \in LogScreens |-> 0]
  /\ cached_version = [s \in LogScreens |-> -1]
  /\ now \in 0..MaxTime
  /\ tft = Black
  /\ drawn = [s \in LogScreens |-> 0]
  /\ pc = [p \in Procs |-> "idle"]
  /\ target = [p \in Procs |-> SCREEN_SPLASH]
  /\ back = "timeout"
  /\ scr = SCREEN_SPLASH
  /\ raced = FALSE
  /\ tick_ms = 0
  /\ stamp_ms = [p \in Procs |-> 0]
  /\ navigated = FALSE
  /\ shownSince = now
  /\ stale = FALSE
  /\ hurried = FALSE

Goto(p, l) == pc' = [pc EXCEPT ![p] = l]

-----------------------------------------------------------------------------
(* Navigation: nextScreen() and the handlers read the screen, write the    *)
(* next one, read the screen again and, if it is now the splash, read      *)
(* millis() and store it: four accesses, with the other tasks in between.  *)

After(s) == (s + 1) % SCREEN_COUNT
Before(s) == (s + SCREEN_COUNT - 1) % SCREEN_COUNT

(* NEXT_SCREEN, PREV_SCREEN and SET_SCREEN up to the write; a SET_SCREEN   *)
(* out of range changes nothing.                                           *)
Command(t) ==
  /\ pc[t] = "idle"
  /\ \E s \in {After(current_screen), Before(current_screen)} \cup Screens :
       target' = [target EXCEPT ![t] = s]
  /\ Goto(t, "write")
  /\ UNCHANGED <<current_screen, splash_start_ms, raced, btnVars, drawVars, logVars, splashVars,
                 now, back>>

(* The draw of a tick begins when the screens were compared.               *)
Drawing == pc["ui"] \in {"init", "redraw", "update"}

(* The splash test has seen the splash, and its outcome is not yet used.   *)
Deciding == pc["ui"] \in {"millis", "elapsed", "auto"}

(* A process between its write and its last step.                          *)
Stamping(p) == pc[p] \in {"stamp", "stamp_ms", "stamp_store"}

WriteScreen(p) ==
  /\ pc[p] = "write"
  /\ current_screen' = target[p]
  /\ target' = [target EXCEPT ![p] = SCREEN_SPLASH]
  /\ raced' = (raced \/ (Drawing /\ target[p] # current_screen))
  /\ navigated' = TRUE
  /\ shownSince' = IF target[p] = SCREEN_SPLASH THEN now ELSE 0
  /\ hurried' = (hurried \/ Deciding)
  /\ Goto(p, "stamp")
  /\ UNCHANGED <<splash_start_ms, btnVars, drawVars, logVars, tick_ms, stamp_ms, stale, now, back>>

(* The end of a navigation; that of tick() goes on with the tick.          *)
EndNavigation(p) ==
  /\ Goto(p, IF p = "ui" THEN back ELSE "idle")
  /\ back' = IF p = "ui" THEN "timeout" ELSE back

(* Mutant of StampSplash: the splash keeps the time of its first showing.  *)
StampSplashNever(p) ==
  /\ pc[p] = "stamp"
  /\ EndNavigation(p)
  /\ UNCHANGED <<navVars, btnVars, drawVars, logVars, splashVars, now>>

StampSplash(p) ==
  /\ pc[p] = "stamp"
  /\ IF current_screen = SCREEN_SPLASH
       THEN Goto(p, "stamp_ms") /\ UNCHANGED back
       ELSE EndNavigation(p)
  /\ UNCHANGED <<navVars, btnVars, drawVars, logVars, splashVars, now>>

StampMillis(p) ==
  /\ pc[p] = "stamp_ms"
  /\ stamp_ms' = [stamp_ms EXCEPT ![p] = now]
  /\ Goto(p, "stamp_store")
  /\ UNCHANGED <<navVars, btnVars, drawVars, logVars, tick_ms, shownVars, hurried, now, back>>

StampStore(p) ==
  /\ pc[p] = "stamp_store"
  /\ splash_start_ms' = stamp_ms[p]
  /\ stale' = (stamp_ms[p] < shownSince)
  /\ stamp_ms' = [stamp_ms EXCEPT ![p] = 0]
  /\ EndNavigation(p)
  /\ UNCHANGED <<current_screen, target, raced, btnVars, drawVars, logVars, tick_ms, navigated,
                 shownSince, hurried, now>>

-----------------------------------------------------------------------------
(* tick().                                                                 *)

(* pollButtonA(): a rising edge past the debounce time goes to the next    *)
(* screen.                                                                 *)
PollButtonA(pressed) ==
  /\ pc["ui"] = "idle"
  /\ btn_a_prev' = pressed
  /\ IF pressed /\ ~btn_a_prev /\ now - btn_a_last_ms >= BTN_A_DEBOUNCE_MS
       THEN /\ btn_a_last_ms' = now
            /\ target' = [target EXCEPT !["ui"] = After(current_screen)]
            /\ Goto("ui", "write")
       ELSE /\ Goto("ui", "timeout")
            /\ UNCHANGED <<btn_a_last_ms, target>>
  /\ UNCHANGED <<current_screen, splash_start_ms, raced, drawVars, logVars, splashVars, now, back>>

(* The splash test: current_screen_, then millis(), then splash_start_ms_, *)
(* which a handler may set in between.                                     *)
SplashTest ==
  /\ pc["ui"] = "timeout"
  /\ Goto("ui", IF current_screen = SCREEN_SPLASH THEN "millis" ELSE "compare")
  /\ hurried' = (current_screen = SCREEN_SPLASH /\ \E t \in Tasks : Stamping(t))
  /\ UNCHANGED <<navVars, btnVars, drawVars, logVars, tick_ms, stamp_ms, shownVars, now, back>>

ReadMillis ==
  /\ pc["ui"] = "millis"
  /\ tick_ms' = now
  /\ Goto("ui", "elapsed")
  /\ UNCHANGED <<navVars, btnVars, drawVars, logVars, stamp_ms, shownVars, hurried, now, back>>

(* A start after the tick wraps to a huge difference.                      *)
SplashOver == tick_ms < splash_start_ms \/ tick_ms - splash_start_ms >= SPLASH_MAX_MS

SplashTimeout ==
  /\ pc["ui"] = "elapsed"
  /\ Goto("ui", IF SplashOver THEN "auto" ELSE "compare")
  /\ tick_ms' = 0
  /\ hurried' = (hurried /\ SplashOver)
  /\ UNCHANGED <<navVars, btnVars, drawVars, logVars, stamp_ms, shownVars, now, back>>

AutoNext ==
  /\ pc["ui"] = "auto"
  /\ target' = [target EXCEPT !["ui"] = After(current_screen)]
  /\ back' = "compare"
  /\ hurried' = FALSE
  /\ Goto("ui", "write")
  /\ UNCHANGED <<current_screen, splash_start_ms, raced, btnVars, drawVars, logVars, tick_ms,
                 stamp_ms, shownVars, now>>

Compare ==
  /\ pc["ui"] = "compare"
  /\ Goto("ui", IF current_screen # previous_screen THEN "clear" ELSE "redraw")
  /\ UNCHANGED <<navVars, btnVars, drawVars, logVars, splashVars, now, back>>

Clear ==
  /\ pc["ui"] = "clear"
  /\ tft' = Black
  /\ previous_screen' = current_screen
  /\ raced' = FALSE
  /\ Goto("ui", "init")
  /\ UNCHANGED <<current_screen, splash_start_ms, target, btnVars, drawn, cached_version, scr,
                 logVars, splashVars, now, back>>

(* Mutant of InitScreen: it is not called when the screen changed.         *)
InitScreenSkipped ==
  /\ pc["ui"] = "init"
  /\ Goto("ui", "update")
  /\ UNCHANGED <<navVars, btnVars, drawVars, logVars, splashVars, now, back>>

(* initScreen() of the active screen: a log screen draws nothing yet.      *)
InitScreen ==
  /\ pc["ui"] = "init"
  /\ tft' = IF current_screen \in LogScreens THEN Black ELSE current_screen
  /\ Goto("ui", "update")
  /\ UNCHANGED <<navVars, btnVars, previous_screen, drawn, cached_version, scr, logVars,
                 splashVars, now, back>>

(* Mutant of NeedsRedraw: a log screen is redrawn only if it never was.    *)
NeedsRedrawOnce ==
  \/ current_screen = SCREEN_APP_INFO
  \/ /\ current_screen \in LogScreens
     /\ cached_version[current_screen] = -1

(* needsRedraw(): the dashboard always, a log screen when its logger has   *)
(* another version than the one cached.                                    *)
NeedsRedraw ==
  \/ current_screen = SCREEN_APP_INFO
  \/ /\ current_screen \in LogScreens
     /\ log_version[current_screen] # cached_version[current_screen]

Redraw ==
  /\ pc["ui"] = "redraw"
  /\ Goto("ui", IF NeedsRedraw THEN "update" ELSE "idle")
  /\ UNCHANGED <<navVars, btnVars, drawVars, logVars, splashVars, now, back>>

(* The last row of a log screen; the title alone is no entry.              *)
Newest(rows) == IF rows = <<>> THEN 0 ELSE rows[Len(rows)]

(* updateScreen() of the active screen: nothing for the splash, the live   *)
(* cells of the dashboard, the rows of a logger over the whole display.    *)
UpdateScreen ==
  /\ pc["ui"] = "update"
  /\ \/ /\ current_screen = SCREEN_SPLASH
        /\ Goto("ui", "idle")
        /\ UNCHANGED <<tft, drawn, scr>>
     \/ /\ current_screen = SCREEN_APP_INFO
        /\ tft' = IF tft = SCREEN_APP_INFO THEN tft ELSE Partial
        /\ Goto("ui", "idle")
        /\ UNCHANGED <<drawn, scr>>
     \/ /\ current_screen \in LogScreens
        /\ tft' = current_screen
        /\ drawn' = [drawn EXCEPT ![current_screen] = Newest(log_rows[current_screen])]
        /\ scr' = current_screen
        /\ Goto("ui", "cache")
  /\ UNCHANGED <<navVars, btnVars, previous_screen, cached_version, logVars, splashVars,
                 now, back>>

(* The end of LogScreen::updateScreen() reads the version anew.            *)
CacheVersion ==
  /\ pc["ui"] = "cache"
  /\ cached_version' = [cached_version EXCEPT ![scr] = log_version[scr]]
  /\ scr' = SCREEN_SPLASH
  /\ Goto("ui", "idle")
  /\ UNCHANGED <<navVars, btnVars, previous_screen, tft, drawn, logVars, splashVars,
                 now, back>>

-----------------------------------------------------------------------------

(* A task logs a message that passes the filter.                           *)
Log(s, level) ==
  /\ level <= current_log_level[s]
  /\ log_version[s] < MaxLog
  /\ log_version' = [log_version EXCEPT ![s] = log_version[s] + 1]
  /\ log_rows' = [log_rows EXCEPT ![s] = Logged(log_rows[s], log_version[s] + 1, max_rows)]
  /\ UNCHANGED <<navVars, btnVars, drawVars, splashVars, now, pc, back>>

(* The ESP-IDF writes a line: the last logger gets it.                     *)
esp_log_vprintf_handler(c) == Log(SCREEN_COUNT - 1, map_level_char(c))

Tick ==
  /\ now < MaxTime
  /\ now' = now + 1
  /\ UNCHANGED <<navVars, btnVars, drawVars, logVars, splashVars, pc, back>>

Navigation(p) == WriteScreen(p) \/ StampSplash(p) \/ StampMillis(p) \/ StampStore(p)

DisplayTask ==
  \/ \E pressed \in BOOLEAN : PollButtonA(pressed)
  \/ SplashTest \/ ReadMillis \/ SplashTimeout \/ AutoNext
  \/ Navigation("ui")
  \/ Compare \/ Clear \/ InitScreen \/ Redraw \/ UpdateScreen \/ CacheVersion

Next ==
  \/ DisplayTask
  \/ \E t \in Tasks : Command(t) \/ Navigation(t)
  \/ \E s \in LogScreens, level \in LogLevel : Log(s, level)
  \/ \E c \in LevelChars : esp_log_vprintf_handler(c)
  \/ Tick

Spec == Init /\ [][Next]_vars

(* The display task calls tick() for ever; nobody owes a command, a log    *)
(* entry or a button press.                                                *)
FairSpec == Spec /\ WF_vars(DisplayTask)

-----------------------------------------------------------------------------
(* Properties.                                                             *)

(* Every variable has its type.                                            *)
TypeOK ==
  /\ current_screen \in Screens
  /\ previous_screen \in Screens \cup {Black}
  /\ splash_start_ms \in 0..MaxTime
  /\ btn_a_prev \in BOOLEAN
  /\ btn_a_last_ms \in 0..MaxTime
  /\ log_version \in [LogScreens -> 0..MaxLog]
  /\ log_rows \in [LogScreens -> Seq(1..MaxLog)]
  /\ cached_version \in [LogScreens -> -1..MaxLog]
  /\ now \in 0..MaxTime
  /\ tft \in Screens \cup {Black, Partial}
  /\ drawn \in [LogScreens -> 0..MaxLog]
  /\ pc \in [Procs -> {"idle", "write", "stamp", "stamp_ms", "stamp_store", "timeout", "millis",
                       "elapsed", "auto", "compare", "clear", "init", "redraw", "update",
                       "cache"}]
  /\ target \in [Procs -> Screens]
  /\ back \in {"timeout", "compare"}
  /\ scr \in Screens
  /\ raced \in BOOLEAN
  /\ {tick_ms, shownSince} \subseteq 0..MaxTime
  /\ {navigated, stale, hurried} \subseteq BOOLEAN
  /\ stamp_ms \in [Procs -> 0..MaxTime]

(* A logger holds the newest entries it let through, as many as it may, in *)
(* their order, and the version counts all there were.                     *)
RowsAreNewest ==
  \A s \in LogScreens :
    LET held == IF log_version[s] < max_rows THEN log_version[s] ELSE max_rows
    IN  log_rows[s] = [i \in 1..held |-> log_version[s] - held + i]

(* A finished draw of the current screen.                                  *)
Settled == pc["ui"] = "idle" /\ current_screen = previous_screen

(* Between ticks the display shows the screen that was drawn for, unless a *)
(* command changed the screen during a draw and was itself undone before   *)
(* the next comparison; the next change of screen makes it right again.    *)
ShowsScreenUnlessRaced == Settled /\ ~raced => tft = current_screen

(* tick() leaves a splash that a navigation put up only when it was up for *)
(* SPLASH_MAX_MS, and the first one only that long after the boot, unless  *)
(* a handler wrote or stamped a screen while tick() decided (the unsigned  *)
(* difference may wrap, or the splash have been put up anew), or stored a  *)
(* time it had read before the splash was put up.                          *)
SplashStaysItsTime ==
  pc["ui"] = "auto" /\ ~hurried /\ ~stale =>
    /\ current_screen = SCREEN_SPLASH
    /\ now - (IF navigated THEN shownSince ELSE 0) >= SPLASH_MAX_MS

(* An entry that its logger received outside the end of a draw is drawn,   *)
(* as long as its screen stays the active one.                             *)
EntryIsDrawn ==
  \A s \in LogScreens, n \in 1..MaxLog :
    (log_version[s] = n /\ cached_version[s] # n /\ pc["ui"] # "cache")
       ~> (drawn[s] >= n \/ current_screen # s)
=============================================================================
