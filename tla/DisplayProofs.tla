---------------------------- MODULE DisplayProofs ---------------------------
(***************************************************************************)
(* Theorems about what the display task shows.  AmakerBotUI: for any       *)
(* number of screens, tasks, rows and log entries.  Dashboard: for any     *)
(* actions and however many messages arrive.                               *)
(***************************************************************************)
EXTENDS AmakerBotUI, Dashboard, FiniteSetTheorems, SequenceTheorems, TLAPS

PCs == {"idle", "write", "stamp", "stamp_ms", "stamp_store", "timeout", "millis", "elapsed",
        "auto", "compare", "clear", "init", "redraw", "update", "cache"}

(* TypeOK but for the rows of the loggers.                                 *)
Typed ==
  /\ current_screen \in Screens
  /\ previous_screen \in Screens \cup {Black}
  /\ splash_start_ms \in 0..MaxTime
  /\ btn_a_prev \in BOOLEAN
  /\ btn_a_last_ms \in 0..MaxTime
  /\ log_version \in [LogScreens -> 0..MaxLog]
  /\ cached_version \in [LogScreens -> -1..MaxLog]
  /\ now \in 0..MaxTime
  /\ tft \in Screens \cup {Black, Partial}
  /\ drawn \in [LogScreens -> 0..MaxLog]
  /\ pc \in [Procs -> PCs]
  /\ target \in [Procs -> Screens]
  /\ back \in {"timeout", "compare"}
  /\ scr \in Screens
  /\ raced \in BOOLEAN
  /\ {tick_ms, shownSince} \subseteq 0..MaxTime
  /\ {navigated, stale, hurried} \subseteq BOOLEAN
  /\ stamp_ms \in [Procs -> 0..MaxTime]

(* The rows of a logger that has let n entries through.                    *)
HeldOf(n) == IF n < max_rows THEN n ELSE max_rows
RowsOf(n) == [i \in 1..HeldOf(n) |-> n - HeldOf(n) + i]

Rows == log_rows = [s \in LogScreens |-> RowsOf(log_version[s])]

(* Unless a command came between, what is drawn is the screen that was     *)
(* compared, from initScreen() to the end.                                 *)
Shown ==
  /\ Drawing /\ ~raced => current_screen = previous_screen
  /\ pc["ui"] \notin {"init", "update"} /\ ~raced => tft = previous_screen
  /\ pc["ui"] = "update" /\ ~raced => tft = previous_screen \/ previous_screen \in LogScreens
  /\ pc["ui"] = "cache" => scr \in LogScreens

ScreensInv == Typed /\ Rows /\ Shown

-----------------------------------------------------------------------------
(* Facts about screens and rows.                                           *)

LEMMA ScreensTyped ==
  /\ SCREEN_SPLASH \in Screens /\ SCREEN_APP_INFO \in Screens
  /\ SCREEN_SPLASH \notin LogScreens /\ SCREEN_APP_INFO \notin LogScreens
  /\ LogScreens \subseteq Screens
  /\ Black \notin Screens /\ Partial \notin Screens
BY ScreensAssumption DEF Screens, LogScreens, SCREEN_SPLASH, SCREEN_APP_INFO, Black, Partial

LEMMA NeighboursTyped ==
  ASSUME NEW s \in Screens
  PROVE  After(s) \in Screens /\ Before(s) \in Screens
BY ScreensAssumption DEF Screens, After, Before

LEMMA RowsTyped ==
  ASSUME NEW n \in 0..MaxLog
  PROVE  /\ RowsOf(n) \in Seq(1..MaxLog) /\ Len(RowsOf(n)) = HeldOf(n)
         /\ Newest(RowsOf(n)) = n
<1>1. HeldOf(n) \in Nat /\ HeldOf(n) <= n /\ (n > 0 => HeldOf(n) > 0) /\ n \in Nat
  BY LoggersAssumption, TimesAssumption DEF HeldOf
<1>2. \A i \in 1..HeldOf(n) : n - HeldOf(n) + i \in 1..MaxLog
  BY <1>1, TimesAssumption
<1>3. RowsOf(n) \in Seq(1..MaxLog) /\ Len(RowsOf(n)) = HeldOf(n)
  <2>1. RowsOf(n) \in [1..HeldOf(n) -> 1..MaxLog]
    BY <1>2 DEF RowsOf
  <2>2. RowsOf(n) \in Seq(1..MaxLog)
    BY <1>1, <2>1, SeqDef
  <2>3. QED
    BY <1>1, <2>1, <2>2, LenProperties
<1>4. CASE n = 0
  <2>1. RowsOf(n) = <<>>
    BY <1>1, <1>3, <1>4
  <2>2. QED
    BY <1>3, <1>4, <2>1 DEF Newest
<1>5. CASE n > 0
  <2>1. RowsOf(n) # <<>> /\ RowsOf(n)[HeldOf(n)] = n
    BY <1>1, <1>3, <1>5 DEF RowsOf
  <2>2. QED
    BY <1>3, <2>1 DEF Newest
<1>6. QED
  BY <1>1, <1>3, <1>4, <1>5

(* Appending the next entry and evicting what is too much.                 *)
LEMMA LoggedRows ==
  ASSUME NEW n \in Nat
  PROVE  Logged(RowsOf(n), n + 1, max_rows) = RowsOf(n + 1)
<1> DEFINE q == RowsOf(n)
           a == Append(q, n + 1)
<1>1. max_rows \in Nat \ {0}
  BY LoggersAssumption
<1>2. HeldOf(n) \in Nat /\ HeldOf(n) <= n /\ HeldOf(n) <= max_rows
  BY <1>1 DEF HeldOf
<1>3. \A i \in 1..HeldOf(n) : n - HeldOf(n) + i \in Nat
  BY <1>2
<1>4. q \in [1..HeldOf(n) -> Nat]
  BY <1>3 DEF RowsOf
<1>5. q \in Seq(Nat) /\ Len(q) = HeldOf(n)
  BY <1>2, <1>4
<1>6. \A i \in 1..HeldOf(n) : q[i] = n - HeldOf(n) + i
  BY DEF RowsOf
<1> HIDE DEF q
<1>7. /\ a \in Seq(Nat) /\ Len(a) = HeldOf(n) + 1
      /\ \A i \in 1..Len(a) : a[i] = n - HeldOf(n) + i
  BY <1>2, <1>5, <1>6
<1>8. a = [i \in 1..(HeldOf(n) + 1) |-> n - HeldOf(n) + i]
  BY <1>7
<1>9. CASE n < max_rows
  <2>1. HeldOf(n) = n /\ HeldOf(n + 1) = n + 1
    BY <1>1, <1>9 DEF HeldOf
  <2>2. Evicted(a, max_rows) = a
    BY <1>1, <1>7, <1>9, <2>1 DEF Evicted
  <2>3. a = RowsOf(n + 1)
    <3>1. RowsOf(n + 1) = [i \in 1..(n + 1) |-> (n + 1) - (n + 1) + i]
      BY <2>1 DEF RowsOf
    <3>2. a = [i \in 1..(n + 1) |-> n - n + i]
      BY <1>8, <2>1
    <3>3. \A i \in 1..(n + 1) : n - n + i = (n + 1) - (n + 1) + i
      OBVIOUS
    <3>4. QED
      BY <3>1, <3>2, <3>3
  <2>4. QED
    BY <2>2, <2>3 DEF Logged, q
<1>10. CASE n >= max_rows
  <2>1. HeldOf(n) = max_rows /\ HeldOf(n + 1) = max_rows
    BY <1>1, <1>10 DEF HeldOf
  <2>2. Len(a) = max_rows + 1 /\ Len(a) - max_rows + 1 = 2
    BY <1>1, <1>7, <2>1
  <2>3. Evicted(a, max_rows) = SubSeq(a, 2, max_rows + 1)
    BY <1>1, <2>2 DEF Evicted
  <2>4. SubSeq(a, 2, max_rows + 1) = [i \in 1..max_rows |-> a[i + 1]]
    BY <1>1, <1>7, <2>2
  <2>5. \A i \in 1..max_rows : a[i + 1] = (n + 1) - max_rows + i
    <3>1. \A i \in 1..max_rows : i + 1 \in 1..Len(a)
      BY <1>1, <2>2
    <3>2. \A i \in 1..max_rows : a[i + 1] = n - max_rows + (i + 1)
      BY <1>7, <2>1, <3>1
    <3>3. \A i \in 1..max_rows : n - max_rows + (i + 1) = (n + 1) - max_rows + i
      BY <1>1
    <3>4. QED
      BY <3>2, <3>3
  <2>6. [i \in 1..max_rows |-> a[i + 1]] = RowsOf(n + 1)
    BY <2>1, <2>5 DEF RowsOf
  <2>7. QED
    BY <2>3, <2>4, <2>6 DEF Logged, q
<1>11. QED
  BY <1>1, <1>9, <1>10

-----------------------------------------------------------------------------

LEMMA ScreensInit == Init => ScreensInv
<1> SUFFICES ASSUME Init PROVE ScreensInv
  OBVIOUS
<1> USE DEF Init
<1>1. Typed
  <2>1. /\ pc \in [Procs -> PCs]
        /\ target \in [Procs -> Screens]
    BY ScreensTyped DEF PCs
  <2>2. /\ log_version \in [LogScreens -> 0..MaxLog]
        /\ cached_version \in [LogScreens -> -1..MaxLog]
        /\ drawn \in [LogScreens -> 0..MaxLog]
    BY TimesAssumption
  <2>3. 0 \in 0..MaxTime /\ stamp_ms \in [Procs -> 0..MaxTime]
    BY TimesAssumption
  <2>4. QED
    BY <2>1, <2>2, <2>3, ScreensTyped DEF Typed
<1>2. Rows
  <2>1. RowsOf(0) = <<>>
    BY LoggersAssumption DEF RowsOf, HeldOf
  <2>2. QED
    BY <2>1 DEF Rows
<1>3. Shown
  BY DEF Shown, Drawing, Procs
<1>4. QED
  BY <1>1, <1>2, <1>3 DEF ScreensInv

(* The clock, and the tasks that log: no screen changes.                   *)
LEMMA LogsAndTicks ==
  ASSUME ScreensInv,
         \/ \E s \in LogScreens, level \in LogLevel : Log(s, level)
         \/ \E c \in LevelChars : esp_log_vprintf_handler(c)
         \/ Tick \/ UNCHANGED vars
  PROVE  ScreensInv'
<1> USE DEF ScreensInv
<1>1. ASSUME NEW s \in LogScreens, NEW level, Log(s, level) PROVE ScreensInv'
  <2>1. log_version[s] \in 0..MaxLog /\ log_version[s] + 1 \in 0..MaxLog
    BY <1>1, TimesAssumption DEF Log, Typed
  <2>2. Rows'
    <3>1. Logged(log_rows[s], log_version[s] + 1, max_rows) = RowsOf(log_version[s] + 1)
      BY <2>1, LoggedRows DEF Rows
    <3>2. log_version' = [log_version EXCEPT ![s] = log_version[s] + 1]
      BY <1>1 DEF Log
    <3>3. log_rows' = [log_rows EXCEPT ![s] = RowsOf(log_version[s] + 1)]
      BY <1>1, <3>1 DEF Log
    <3>4. QED
      BY <3>2, <3>3 DEF Rows, Typed
  <2>3. Typed' /\ Shown'
    BY <1>1, <2>1 DEF Log, Typed, Shown, Drawing, navVars, btnVars, drawVars, splashVars, shownVars
  <2>4. QED
    BY <2>2, <2>3
<1>2. SCREEN_COUNT - 1 \in LogScreens
  BY ScreensAssumption DEF LogScreens
<1>3. CASE Tick
  <2>1. now' \in 0..MaxTime
    BY <1>3, TimesAssumption DEF Tick, Typed
  <2>2. QED
    BY <1>3, <2>1 DEF Tick, Typed, Rows, Shown, Drawing, navVars, btnVars, drawVars, logVars, splashVars, shownVars
<1>4. CASE UNCHANGED vars
  BY <1>4 DEF vars, Typed, Rows, Shown, Drawing, navVars, btnVars, drawVars, logVars, splashVars, shownVars
<1>5. QED
  BY <1>1, <1>2, <1>3, <1>4 DEF esp_log_vprintf_handler

(* Where a process stands after a step of its navigation.                  *)
LEMMA NavigationGoes ==
  ASSUME Typed, NEW p \in Procs, Navigation(p)
  PROVE  /\ pc' \in [Procs -> PCs]
         /\ \A q \in Procs \ {p} : pc'[q] = pc[q]
         /\ \/ pc[p] = "write" /\ pc'[p] = "stamp"
            \/ pc[p] = "stamp" /\ pc'[p] \in {"stamp_ms", "idle", "timeout", "compare"}
            \/ pc[p] = "stamp_ms" /\ pc'[p] = "stamp_store"
            \/ pc[p] = "stamp_store" /\ pc'[p] \in {"idle", "timeout", "compare"}
         /\ p = "ui" => pc'[p] # "idle"
         /\ back' \in {"timeout", "compare"}
<1> USE DEF Typed, Goto, EndNavigation, PCs
<1>1. CASE WriteScreen(p)  BY <1>1 DEF WriteScreen
<1>2. CASE StampSplash(p)  BY <1>2 DEF StampSplash
<1>3. CASE StampMillis(p)  BY <1>3 DEF StampMillis
<1>4. CASE StampStore(p)   BY <1>4 DEF StampStore
<1>5. QED
  BY <1>1, <1>2, <1>3, <1>4 DEF Navigation

LEMMA NavigationTyped ==
  ASSUME ScreensInv, NEW p \in Procs, (p \in Tasks /\ Command(p)) \/ Navigation(p)
  PROVE  ScreensInv'
<1> USE DEF ScreensInv
<1>1. Rows'
  BY DEF Rows, Command, Navigation, WriteScreen, StampSplash, StampMillis, StampStore, logVars
<1>2. CASE p \in Tasks /\ Command(p)
  <2>1. p # "ui" /\ pc'["ui"] = pc["ui"]
    BY <1>2, TasksAssumption DEF Command, Goto, Procs, Typed
  <2>2. target' \in [Procs -> Screens]
    BY <1>2, NeighboursTyped DEF Command, Typed
  <2>3. pc' \in [Procs -> PCs]
    BY <1>2 DEF Command, Goto, Typed, PCs
  <2>4. Typed'
    BY <1>2, <2>2, <2>3 DEF Command, Typed, btnVars, drawVars, logVars, splashVars, shownVars
  <2>5. Shown'
    BY <1>2, <2>1 DEF Command, Shown, Drawing, drawVars
  <2>6. QED
    BY <1>1, <2>4, <2>5
<1>3. CASE Navigation(p)
  <2>1. Typed'
    <3> USE <1>3, NavigationGoes DEF Typed, btnVars, drawVars, logVars
    <3>1. CASE WriteScreen(p)
      <4>1. /\ target[p] \in Screens /\ target' \in [Procs -> Screens]
            /\ raced' \in BOOLEAN /\ hurried' \in BOOLEAN /\ shownSince' \in 0..MaxTime
        BY <3>1, TimesAssumption, ScreensTyped DEF WriteScreen, Deciding
      <4>2. QED
        BY <3>1, <4>1 DEF WriteScreen
    <3>2. CASE StampSplash(p)
      BY <3>2 DEF StampSplash, navVars, splashVars, shownVars
    <3>3. CASE StampMillis(p)
      BY <3>3 DEF StampMillis, navVars, shownVars
    <3>4. CASE StampStore(p)
      <4>1. stamp_ms' \in [Procs -> 0..MaxTime] /\ stale' \in BOOLEAN
        BY <3>4, TimesAssumption DEF StampStore
      <4>2. QED
        BY <3>4, <4>1 DEF StampStore
    <3>5. QED
      BY <3>1, <3>2, <3>3, <3>4 DEF Navigation
  <2>2. UNCHANGED <<previous_screen, tft, scr>>
    BY <1>3 DEF Navigation, WriteScreen, StampSplash, StampMillis, StampStore, drawVars
  <2>3. raced' = (raced \/ (Drawing /\ current_screen' # current_screen))
    BY <1>3 DEF Navigation, WriteScreen, StampSplash, StampMillis, StampStore, navVars, Typed
  <2>4. Drawing' = Drawing
        /\ \A l \in {"init", "update", "cache"} : (pc'["ui"] = l) = (pc["ui"] = l)
    BY <1>3, NavigationGoes DEF Drawing, Procs
  <2>5. Shown'
    BY <2>2, <2>3, <2>4 DEF Shown
  <2>6. QED
    BY <1>1, <2>1, <2>5
<1>4. QED
  BY <1>2, <1>3

SplashStep == SplashTest \/ ReadMillis \/ SplashTimeout

(* tick() up to the comparison of the screens.                             *)
LEMMA BeforeDrawing ==
  ASSUME ScreensInv,
         (\E pressed \in BOOLEAN : PollButtonA(pressed)) \/ SplashStep \/ AutoNext \/ Compare
  PROVE  ScreensInv'
<1> USE DEF ScreensInv, SplashStep, SplashTest, ReadMillis, SplashTimeout
<1>1. Rows' /\ UNCHANGED <<current_screen, splash_start_ms, raced, drawVars, logVars, now>>
  BY DEF Rows, PollButtonA, AutoNext, Compare, navVars, logVars
<1>2. "ui" \in Procs
  BY DEF Procs
<1>3. pc' \in [Procs -> PCs]
      /\ pc["ui"] \in {"idle", "timeout", "millis", "elapsed", "auto", "compare"}
      /\ \/ pc'["ui"] \in {"timeout", "millis", "elapsed", "auto", "write", "compare", "clear"}
         \/ pc'["ui"] = "redraw" /\ current_screen = previous_screen
  BY <1>2 DEF PollButtonA, AutoNext, Compare, Goto, Typed, PCs
<1>4. target' \in [Procs -> Screens] /\ back' \in {"timeout", "compare"}
  BY NeighboursTyped DEF PollButtonA, AutoNext, Compare, Typed, navVars
<1>5. btn_a_prev' \in BOOLEAN /\ btn_a_last_ms' \in 0..MaxTime
  BY DEF PollButtonA, AutoNext, Compare, Typed, btnVars
<1>6. /\ {tick_ms', shownSince'} \subseteq 0..MaxTime /\ hurried' \in BOOLEAN
      /\ UNCHANGED <<stamp_ms, navigated, stale>>
  <2>1. tick_ms' \in {tick_ms, now, 0} /\ UNCHANGED <<stamp_ms, navigated, shownSince, stale>>
    BY DEF PollButtonA, AutoNext, Compare, splashVars, shownVars
  <2>2. hurried' \in BOOLEAN
    BY DEF PollButtonA, AutoNext, Compare, Typed, splashVars
  <2>3. QED
    BY <2>1, <2>2, TimesAssumption DEF Typed
<1>7. Typed'
  BY <1>1, <1>3, <1>4, <1>5, <1>6 DEF Typed, drawVars, logVars
<1>8. Shown'
  BY <1>1, <1>3 DEF Shown, Drawing, drawVars
<1>9. QED
  BY <1>1, <1>7, <1>8

(* The draw.                                                               *)
LEMMA DrawingSteps ==
  ASSUME ScreensInv, Clear \/ InitScreen \/ Redraw \/ UpdateScreen \/ CacheVersion
  PROVE  ScreensInv'
<1> USE DEF ScreensInv
<1>1. Rows' /\ UNCHANGED <<current_screen, splash_start_ms, target, btnVars, logVars, splashVars,
                       now, back>>
  BY DEF Rows, Clear, InitScreen, Redraw, UpdateScreen, CacheVersion, navVars, logVars
<1>2. "ui" \in Procs
  BY DEF Procs
<1>3. pc' \in [Procs -> PCs]
  BY DEF Clear, InitScreen, Redraw, UpdateScreen, CacheVersion, Goto, Typed, PCs
<1>4. CASE Clear
  <2>1. Typed'
    BY <1>1, <1>3, <1>4 DEF Typed, Clear, btnVars, logVars, splashVars, shownVars
  <2>2. Shown'
    BY <1>1, <1>2, <1>4 DEF Shown, Drawing, Clear, Goto, Typed
  <2>3. QED
    BY <1>1, <2>1, <2>2
<1>5. CASE InitScreen
  <2>1. Typed'
    BY <1>1, <1>3, <1>5 DEF Typed, InitScreen, btnVars, logVars, splashVars, shownVars, navVars
  <2>2. Shown'
    BY <1>1, <1>2, <1>5 DEF Shown, Drawing, InitScreen, Goto, Typed, navVars
  <2>3. QED
    BY <1>1, <2>1, <2>2
<1>6. CASE Redraw
  <2>1. pc["ui"] = "redraw" /\ pc'["ui"] \in {"update", "idle"} /\ UNCHANGED <<drawVars, navVars>>
    BY <1>2, <1>6 DEF Redraw, Goto, Typed
  <2>2. QED
    BY <1>1, <1>3, <2>1 DEF Typed, Shown, Drawing, btnVars, logVars, splashVars, shownVars, navVars, drawVars
<1>7. CASE UpdateScreen
  <2>1. Newest(log_rows[current_screen]) \in 0..MaxLog \/ current_screen \notin LogScreens
    BY RowsTyped DEF Rows, Typed
  <2>2. drawn' \in [LogScreens -> 0..MaxLog]
    BY <1>7, <2>1 DEF UpdateScreen, Typed
  <2>3. Typed'
    BY <1>1, <1>3, <1>7, <2>2, ScreensTyped DEF Typed, UpdateScreen, btnVars, logVars, splashVars, shownVars, navVars
  <2>4. pc["ui"] = "update" /\ pc'["ui"] \in {"idle", "cache"}
    BY <1>2, <1>7 DEF UpdateScreen, Goto, Typed
  <2>5. UNCHANGED <<raced, previous_screen>>
    BY <1>7 DEF UpdateScreen, navVars
  <2>6. ~raced => tft' = previous_screen
    BY <1>7, <2>4, ScreensTyped DEF UpdateScreen, Shown, Drawing
  <2>7. pc'["ui"] = "cache" => scr' \in LogScreens
    BY <1>2, <1>7 DEF UpdateScreen, Goto, Typed
  <2>8. Shown'
    BY <2>4, <2>5, <2>6, <2>7 DEF Shown, Drawing
  <2>9. QED
    BY <1>1, <2>3, <2>8
<1>8. CASE CacheVersion
  <2>1. cached_version' \in [LogScreens -> -1..MaxLog]
    BY <1>8, TimesAssumption DEF CacheVersion, Shown, Typed
  <2>2. Typed'
    BY <1>1, <1>3, <1>8, <2>1, ScreensTyped DEF Typed, CacheVersion, btnVars, logVars, splashVars, shownVars, navVars
  <2>3. Shown'
    BY <1>1, <1>2, <1>8 DEF Shown, Drawing, CacheVersion, Goto, Typed, navVars
  <2>4. QED
    BY <1>1, <2>2, <2>3
<1>9. QED
  BY <1>4, <1>5, <1>6, <1>7, <1>8

-----------------------------------------------------------------------------

(* A splash on show is stamped since it was put up, or a process is about  *)
(* to stamp it with such a time, or the last stamp is known to be stale; a *)
(* decision that no handler disturbed rests on that stamp, and its         *)
(* difference cannot wrap.                                                 *)
Since == IF navigated THEN shownSince ELSE 0

Stamped == splash_start_ms >= Since

Stamps(p) ==
  \/ pc[p] \in {"stamp", "stamp_ms"}
  \/ pc[p] = "stamp_store" /\ stamp_ms[p] >= shownSince

SplashInv ==
  /\ current_screen = SCREEN_SPLASH => Stamped \/ stale \/ \E p \in Procs : Stamps(p)
  /\ shownSince <= now /\ splash_start_ms <= now /\ \A p \in Procs : stamp_ms[p] <= now
  /\ Deciding /\ ~hurried =>
       /\ current_screen = SCREEN_SPLASH /\ (Stamped \/ stale)
       /\ \A t \in Tasks : ~Stamping(t)
  /\ pc["ui"] = "elapsed" => tick_ms <= now /\ (hurried \/ tick_ms >= splash_start_ms)
  /\ pc["ui"] = "auto" /\ ~hurried /\ ~stale => now - Since >= SPLASH_MAX_MS

LEMMA SplashInit == Init => SplashInv
BY TimesAssumption DEF Init, SplashInv, Stamped, Since, Stamps, Deciding, Procs

(* A step that touches neither the screen nor the decision.                *)
LEMMA SplashFrame ==
  ASSUME Typed, Typed', SplashInv,
         UNCHANGED <<current_screen, splash_start_ms, stamp_ms, shownVars>>,
         now' >= now,
         \A p \in Procs : Stamping(p) \/ Stamping(p)' => pc'[p] = pc[p],
         ~Deciding' \/ (pc'["ui"] = pc["ui"] /\ UNCHANGED <<tick_ms, hurried>>)
  PROVE  SplashInv'
<1>1. UNCHANGED <<navigated, shownSince, stale>>
  BY DEF shownVars
<1>2. \A p \in Procs : Stamps(p) => Stamps(p)'
  BY <1>1 DEF Stamps, Stamping
<1>3. \A t \in Tasks : ~Stamping(t) => ~Stamping(t)'
  BY DEF Stamping, Procs
<1>4. QED
  BY <1>1, <1>2, <1>3, TimesAssumption DEF Typed, SplashInv, Stamped, Since, Deciding

(* A task that navigates while tick() decides has hurried it.              *)
LEMMA NavigationHurries ==
  ASSUME Typed, SplashInv, NEW p \in Procs, Navigation(p)
  PROVE  /\ now' = now /\ tick_ms' = tick_ms
         /\ Deciding' => hurried'
         /\ pc'["ui"] = "elapsed" => pc["ui"] = "elapsed"
<1>1. now' = now /\ tick_ms' = tick_ms
  BY DEF Navigation, WriteScreen, StampSplash, StampMillis, StampStore, splashVars
<1>2. p = "ui" => pc'["ui"] \notin {"millis", "elapsed", "auto"}
  BY NavigationGoes
<1>3. p # "ui" => pc'["ui"] = pc["ui"] /\ p \in Tasks
  BY NavigationGoes DEF Procs
<1>4. Deciding' => hurried'
  <2> SUFFICES ASSUME Deciding' PROVE hurried'
    OBVIOUS
  <2>1. p \in Tasks /\ Deciding
    BY <1>2, <1>3 DEF Deciding
  <2>2. CASE WriteScreen(p)
    BY <2>1, <2>2 DEF WriteScreen
  <2>3. CASE ~WriteScreen(p)
    <3>1. Stamping(p) /\ hurried' = hurried
      BY <2>3 DEF Navigation, StampSplash, StampMillis, StampStore, splashVars, Stamping
    <3>2. QED
      BY <2>1, <3>1 DEF SplashInv
  <2>4. QED
    BY <2>2, <2>3
<1>5. QED
  BY <1>1, <1>2, <1>3, <1>4

LEMMA NavigationKeepsSplash ==
  ASSUME Typed, Typed', SplashInv, NEW p \in Procs, Navigation(p)
  PROVE  SplashInv'
<1>1. /\ now' = now /\ tick_ms' = tick_ms /\ (Deciding' => hurried')
      /\ pc'["ui"] = "elapsed" => pc["ui"] = "elapsed"
  BY NavigationHurries
<1>2. pc'["ui"] \in {"elapsed", "auto"} => hurried'
  BY <1>1 DEF Deciding
<1>3. \A q \in Procs \ {p} : pc'[q] = pc[q]
  BY NavigationGoes
<1>4. SUFFICES /\ current_screen' = SCREEN_SPLASH =>
                    Stamped' \/ stale' \/ \E q \in Procs : Stamps(q)'
               /\ shownSince' <= now' /\ splash_start_ms' <= now'
               /\ \A q \in Procs : stamp_ms'[q] <= now'
  BY <1>1, <1>2 DEF SplashInv
<1>5. CASE WriteScreen(p)
  <2>1. /\ pc'[p] = "stamp" /\ UNCHANGED <<splash_start_ms, stamp_ms>>
        /\ shownSince' = IF target[p] = SCREEN_SPLASH THEN now ELSE 0
    BY <1>5 DEF WriteScreen, Goto, Typed
  <2>2. Stamps(p)'
    BY <2>1 DEF Stamps
  <2>3. shownSince' <= now'
    BY <1>1, <2>1, TimesAssumption DEF Typed
  <2>4. QED
    BY <1>1, <2>1, <2>2, <2>3 DEF SplashInv
<1>6. CASE StampSplash(p)
  <2>1. /\ UNCHANGED <<current_screen, splash_start_ms, stamp_ms, navigated, shownSince, stale>>
        /\ current_screen = SCREEN_SPLASH => pc'[p] = "stamp_ms"
    BY <1>6 DEF StampSplash, navVars, splashVars, shownVars, Goto, Typed
  <2>2. current_screen = SCREEN_SPLASH => Stamps(p)'
    BY <2>1 DEF Stamps
  <2>3. QED
    BY <1>1, <2>1, <2>2 DEF SplashInv
<1>7. CASE StampMillis(p)
  <2>1. /\ UNCHANGED <<current_screen, splash_start_ms, navigated, shownSince, stale>>
        /\ pc'[p] = "stamp_store" /\ stamp_ms' = [stamp_ms EXCEPT ![p] = now]
    BY <1>7 DEF StampMillis, navVars, shownVars, Goto, Typed
  <2>2. Stamps(p)'
    BY <2>1, TimesAssumption DEF Stamps, SplashInv, Typed
  <2>3. QED
    BY <1>1, <2>1, <2>2, TimesAssumption DEF SplashInv, Typed
<1>8. CASE StampStore(p)
  <2>1. /\ UNCHANGED <<current_screen, navigated, shownSince>>
        /\ splash_start_ms' = stamp_ms[p] /\ stale' = (stamp_ms[p] < shownSince)
        /\ stamp_ms' = [stamp_ms EXCEPT ![p] = 0]
    BY <1>8 DEF StampStore
  <2>2. stamp_ms[p] \in 0..MaxTime /\ shownSince \in 0..MaxTime
    BY DEF Typed
  <2>3. Stamped' \/ stale'
    <3>1. CASE stamp_ms[p] < shownSince
      BY <2>1, <3>1
    <3>2. CASE ~(stamp_ms[p] < shownSince)
      BY <2>1, <2>2, <3>2, TimesAssumption DEF Stamped, Since
    <3>3. QED
      BY <3>1, <3>2
  <2>4. QED
    BY <1>1, <2>1, <2>2, <2>3, TimesAssumption DEF SplashInv, Typed
<1>9. QED
  BY <1>5, <1>6, <1>7, <1>8 DEF Navigation

LEMMA DecisionKeepsSplash ==
  ASSUME Typed, Typed', SplashInv, SplashStep
  PROVE  SplashInv'
<1> USE DEF Typed, SplashInv, Deciding
<1>1. /\ UNCHANGED <<current_screen, splash_start_ms, stamp_ms, navigated, shownSince, stale, now>>
      /\ pc' = [pc EXCEPT !["ui"] = pc'["ui"]]
      /\ pc["ui"] \in {"timeout", "millis", "elapsed"}
      /\ pc'["ui"] \in {"millis", "elapsed", "auto", "compare"}
  BY DEF SplashStep, SplashTest, ReadMillis, SplashTimeout, Goto, navVars, shownVars, Procs
<1>2. /\ Stamped' = Stamped /\ Since' = Since
      /\ \A p \in Procs : Stamps(p)' = Stamps(p) /\ Stamping(p)' = Stamping(p)
  BY <1>1 DEF Stamped, Since, Stamps, Stamping
<1>3. CASE SplashTest
  <2>1. pc'["ui"] \in {"millis", "compare"}
    BY <1>3 DEF SplashTest, Goto, Procs
  <2>2. ASSUME pc'["ui"] = "millis", ~hurried'
        PROVE  /\ current_screen = SCREEN_SPLASH /\ (Stamped \/ stale)
               /\ \A t \in Tasks : ~Stamping(t)
    <3>1. current_screen = SCREEN_SPLASH /\ \A t \in Tasks : ~Stamping(t)
      BY <1>3, <2>2 DEF SplashTest, Goto, Procs
    <3>2. \A p \in Procs : ~Stamps(p)
      BY <1>1, <3>1 DEF Stamps, Stamping, Procs
    <3>3. QED
      BY <3>1, <3>2
  <2>3. QED
    BY <1>1, <1>2, <2>1, <2>2 DEF Procs
<1>4. CASE ReadMillis
  <2>1. pc["ui"] = "millis" /\ pc'["ui"] = "elapsed" /\ tick_ms' = now /\ hurried' = hurried
    BY <1>4 DEF ReadMillis, Goto, Procs
  <2>2. QED
    BY <1>1, <1>2, <2>1 DEF Procs
<1>5. CASE SplashTimeout
  <2>1. /\ pc["ui"] = "elapsed" /\ pc'["ui"] = IF SplashOver THEN "auto" ELSE "compare"
        /\ hurried' = (hurried /\ SplashOver)
    BY <1>5 DEF SplashTimeout, Goto, Procs
  <2>2. SplashOver /\ ~hurried /\ ~stale => now - Since >= SPLASH_MAX_MS
    BY <2>1, TimesAssumption DEF SplashOver, Stamped, Since
  <2>3. QED
    BY <1>1, <1>2, <2>1, <2>2 DEF Procs
<1>6. QED
  BY <1>3, <1>4, <1>5 DEF SplashStep

(* Every other step.                                                       *)
LEMMA OthersKeepSplash ==
  ASSUME Typed, Typed', SplashInv,
         \/ \E t \in Tasks : Command(t)
         \/ \E pressed \in BOOLEAN : PollButtonA(pressed)
         \/ AutoNext \/ Compare \/ Clear \/ InitScreen \/ Redraw \/ UpdateScreen \/ CacheVersion
         \/ \E s \in LogScreens, level \in LogLevel : Log(s, level)
         \/ \E c \in LevelChars : esp_log_vprintf_handler(c)
         \/ Tick \/ UNCHANGED vars
  PROVE  SplashInv'
<1>1. UNCHANGED <<current_screen, splash_start_ms, stamp_ms, shownVars>> /\ now' >= now
  BY DEF Command, PollButtonA, AutoNext, Compare, Clear, InitScreen, Redraw, UpdateScreen,
         CacheVersion, Log, esp_log_vprintf_handler, Tick, vars, navVars, splashVars, shownVars, Typed
<1>2. CASE \E t \in Tasks : Command(t)
  <2>1. PICK t \in Tasks : Command(t)
    BY <1>2
  <2>2. t # "ui" /\ UNCHANGED <<tick_ms, hurried>> /\ pc[t] = "idle"
        /\ pc' = [pc EXCEPT ![t] = "write"]
    BY <2>1, TasksAssumption DEF Command, Goto, splashVars
  <2>3. /\ pc'["ui"] = pc["ui"]
        /\ \A p \in Procs : Stamping(p) \/ Stamping(p)' => pc'[p] = pc[p]
    BY <2>2 DEF Typed, Procs, Stamping
  <2>4. QED
    BY <1>1, <2>2, <2>3, SplashFrame
<1>3. CASE \/ \E pressed \in BOOLEAN : PollButtonA(pressed)
           \/ AutoNext \/ Compare \/ Clear \/ InitScreen \/ Redraw \/ UpdateScreen \/ CacheVersion
  <2>1. /\ pc' = [pc EXCEPT !["ui"] = pc'["ui"]]
        /\ {pc["ui"], pc'["ui"]} \cap {"stamp", "stamp_ms", "stamp_store"} = {}
        /\ pc'["ui"] \notin {"millis", "elapsed", "auto"}
    BY <1>3 DEF PollButtonA, AutoNext, Compare, Clear, InitScreen, Redraw, UpdateScreen,
                CacheVersion, Goto, Typed, Procs
  <2>2. \A p \in Procs : Stamping(p) \/ Stamping(p)' => pc'[p] = pc[p]
    BY <2>1 DEF Typed, Stamping
  <2>3. ~Deciding'
    BY <2>1 DEF Deciding
  <2>4. QED
    BY <1>1, <2>2, <2>3, SplashFrame
<1>4. CASE \/ \E s \in LogScreens, level \in LogLevel : Log(s, level)
           \/ \E c \in LevelChars : esp_log_vprintf_handler(c)
           \/ Tick \/ UNCHANGED vars
  <2>1. UNCHANGED <<pc, tick_ms, hurried>>
    BY <1>4 DEF Log, esp_log_vprintf_handler, Tick, vars, splashVars, shownVars
  <2>2. QED
    BY <1>1, <2>1, SplashFrame
<1>5. QED
  BY <1>2, <1>3, <1>4

LEMMA ScreensInvHolds == Spec => []ScreensInv
<1>1. ScreensInv /\ [Next]_vars => ScreensInv'
  BY LogsAndTicks, NavigationTyped, BeforeDrawing, DrawingSteps DEF Next, DisplayTask, SplashStep, Procs
<1>2. QED
  BY ScreensInit, <1>1, PTL DEF Spec

(* Every variable has its type.                                            *)
THEOREM TypeCorrect == Spec => []TypeOK
<1>1. ScreensInv => TypeOK
  <2> SUFFICES ASSUME ScreensInv PROVE TypeOK
    OBVIOUS
  <2>1. \A s \in LogScreens : log_rows[s] \in Seq(1..MaxLog)
    BY RowsTyped DEF ScreensInv, Rows, Typed
  <2>2. log_rows \in [LogScreens -> Seq(1..MaxLog)]
    BY <2>1 DEF ScreensInv, Rows
  <2>3. QED
    BY <2>2 DEF ScreensInv, Typed, TypeOK, PCs
<1>2. QED
  BY ScreensInvHolds, <1>1, PTL

(* RollingLogger::log() keeps the newest max_rows entries in their order.  *)
THEOREM RowsAreNewestHolds == Spec => []RowsAreNewest
<1>1. ScreensInv => RowsAreNewest
  BY DEF ScreensInv, Rows, RowsOf, HeldOf, RowsAreNewest
<1>2. QED
  BY ScreensInvHolds, <1>1, PTL

(* After a tick() without a screen command in between, the display shows   *)
(* the screen it was drawn for.                                            *)
THEOREM ShowsScreenUnlessRacedHolds == Spec => []ShowsScreenUnlessRaced
<1>1. ScreensInv => ShowsScreenUnlessRaced
  BY DEF ScreensInv, Shown, ShowsScreenUnlessRaced, Settled
<1>2. QED
  BY ScreensInvHolds, <1>1, PTL

(* tick() leaves a splash a navigation put up only after its time, unless  *)
(* a handler was at work on the screen while tick() decided, or the last   *)
(* stamp was read before the splash was put up.                            *)
THEOREM SplashStaysItsTimeHolds == Spec => []SplashStaysItsTime
<1>1. Typed /\ Typed' /\ SplashInv /\ [Next]_vars => SplashInv'
  BY NavigationKeepsSplash, DecisionKeepsSplash, OthersKeepSplash
     DEF Next, DisplayTask, SplashStep, Procs
<1>2. ScreensInv => Typed
  BY DEF ScreensInv
<1>3. SplashInv => SplashStaysItsTime
  BY DEF SplashInv, SplashStaysItsTime, Deciding, Since
<1>4. QED
  BY ScreensInvHolds, SplashInit, <1>1, <1>2, <1>3, PTL DEF Spec

-----------------------------------------------------------------------------
(* The dashboard and the transports that move its counters.                *)

(* A task that has read a counter finds it as it was read, unless the      *)
(* action is contended; two tasks that count one action have contended it. *)
CountingInv ==
  /\ \A k \in Task : stage[k] = "store" /\ message[k].action \notin contended =>
                       loaded[k] = dispatch_count_[message[k].action]
  /\ \A j, k \in Task : stage[j] = "store" /\ stage[k] = "store"
                          /\ message[j].action = message[k].action =>
                            j = k \/ message[j].action \in contended

(* Counters only grow, so what an update began with is not above them.     *)
AtMostNow == \A c \in Counter : atStart[c] <= Counts[c]

DashboardInv ==
  /\ DashboardTypeOK
  /\ CountingInv /\ CountedUnlessRaced
  /\ AtMostNow /\ ShownWasCounted

LEMMA CountsTyped ==
  ASSUME rx_count_ \in [Transport -> Nat], tx_count_ \in [Transport -> Nat],
         dropped_count_ \in [Transport -> Nat]
  PROVE  /\ Counts \in [Counter -> Nat]
         /\ \A t \in Transport : /\ Counts[<<"rx", t>>] = rx_count_[t]
                                 /\ Counts[<<"tx", t>>] = tx_count_[t]
                                 /\ Counts[<<"dropped", t>>] = dropped_count_[t]
BY DEF Counts, Counter, Transport

LEMMA OrderTyped ==
  /\ Len(Order) = 9
  /\ \A i \in 1..9 : Order[i] \in Counter
BY DEF Order, Counter, Transport

LEMMA DashboardInitInv == DashboardInit => DashboardInv
<1> SUFFICES ASSUME DashboardInit PROVE DashboardInv
  OBVIOUS
<1> USE DEF DashboardInit, TransportsInit
<1>1. NoMessage \in Message
  BY ActionsAssumption DEF NoMessage, Message, Transport
<1>2. Counts \in [Counter -> Nat]
  BY CountsTyped
<1>3. DashboardTypeOK
  BY <1>1, <1>2, OrderTyped, BoundAssumption DEF DashboardTypeOK, TransportsTypeOK
<1>4. CountingInv /\ CountedUnlessRaced
  BY DEF CountingInv, CountedUnlessRaced
<1>5. AtMostNow /\ ShownWasCounted
  BY <1>2 DEF AtMostNow, ShownWasCounted
<1>6. QED
  BY <1>3, <1>4, <1>5 DEF DashboardInv

(* What a step of the transports does to each part of the invariant.       *)
LEMMA TransportsFacts ==
  /\ \A t \in Transport : TaskOf(t) \in Task
  /\ NoMessage \in Message
  /\ \A m \in Message : m.transport \in Transport /\ m.action \in Actions
  /\ \A t \in Transport, a \in Actions :
       LET m == [transport |-> t, action |-> a]
       IN  m \in Message /\ m.transport = t /\ m.action = a
BY ActionsAssumption DEF Transport, Task, TaskOf, NoMessage, Message

LEMMA TransportsTypedStep ==
  ASSUME TransportsTypeOK, TransportsNext
  PROVE  TransportsTypeOK'
<1> USE DEF TransportsTypeOK
<1>1. ASSUME NEW t \in Transport, NEW ok \in BOOLEAN, start(t, ok)
      PROVE  TransportsTypeOK'
  BY <1>1, TransportsFacts DEF start, counters, dispatcher
<1>2. ASSUME NEW t \in Transport, Drop(t)
      PROVE  TransportsTypeOK'
  <2>1. dropped_count_' \in [Transport -> Nat]
    BY <1>2 DEF Drop
  <2>2. QED
    BY <1>2, <2>1 DEF Drop, dispatcher
<1>3. ASSUME NEW t \in Transport, NEW a \in Actions, Receive(t, a)
      PROVE  TransportsTypeOK'
  <2>1. rx_count_' \in [Transport -> Nat] /\ UNCHANGED <<started, tried, tx_count_, dropped_count_, dispatcher>>
    BY <1>3 DEF Receive
  <2>2. /\ message' \in [Task -> Message] /\ stage' \in [Task -> {"idle", "load", "store", "handle"}]
        /\ \A k \in Task : stage'[k] # "idle" => TaskOf(message'[k].transport) = k
    BY <1>3, TransportsFacts DEF Receive
  <2>3. QED
    BY <2>1, <2>2 DEF dispatcher
<1>4. ASSUME NEW k \in Task, LoadCount(k)
      PROVE  TransportsTypeOK'
  BY <1>4, TransportsFacts DEF LoadCount, counters
<1>5. ASSUME NEW k \in Task, StoreCount(k)
      PROVE  TransportsTypeOK'
  BY <1>5, TransportsFacts DEF StoreCount, Incremented, counters
<1>6. ASSUME NEW k \in Task, Silent(k)
      PROVE  TransportsTypeOK'
  BY <1>6, TransportsFacts DEF Silent, Finished, counters, dispatcher
<1>7. ASSUME NEW k \in Task, NEW sent \in BOOLEAN, sendReply(k, sent)
      PROVE  TransportsTypeOK'
  BY <1>7, TransportsFacts DEF sendReply, Finished, Counted, dispatcher
<1>8. QED
  BY <1>1, <1>2, <1>3, <1>4, <1>5, <1>6, <1>7 DEF TransportsNext, TaskStep

LEMMA CountingStep ==
  ASSUME TransportsTypeOK, CountingInv, CountedUnlessRaced, TransportsNext
  PROVE  CountingInv' /\ CountedUnlessRaced'
<1> USE DEF TransportsTypeOK, CountingInv, CountedUnlessRaced
<1>1. ASSUME NEW t \in Transport, NEW ok \in BOOLEAN, start(t, ok)
      PROVE  CountingInv' /\ CountedUnlessRaced'
  BY <1>1, TransportsFacts DEF start, counters, dispatcher
<1>2. ASSUME NEW t \in Transport, Drop(t)
      PROVE  CountingInv' /\ CountedUnlessRaced'
  BY <1>2, TransportsFacts DEF Drop, Arrives, dispatcher
<1>3. ASSUME NEW t \in Transport, NEW a \in Actions, Receive(t, a)
      PROVE  CountingInv' /\ CountedUnlessRaced'
  BY <1>3, TransportsFacts DEF Receive, Arrives, dispatcher
<1>4. ASSUME NEW k \in Task, LoadCount(k)
      PROVE  CountingInv' /\ CountedUnlessRaced'
  <2>1. /\ stage[k] = "load" /\ stage' = [stage EXCEPT ![k] = "store"]
        /\ message[k].action \in Actions
        /\ loaded' = [loaded EXCEPT ![k] = dispatch_count_[message[k].action]]
        /\ contended' = IF Counting(message[k].action) # {}
                        THEN contended \cup {message[k].action} ELSE contended
        /\ UNCHANGED <<message, dispatch_count_, dispatched>>
    BY <1>4, TransportsFacts DEF LoadCount
  <2>2. \A j \in Task : stage[j] = "store" /\ message[j].action = message[k].action =>
                         message[k].action \in contended'
    BY <2>1 DEF Counting
  <2>3. contended \subseteq contended' /\ contended' \subseteq Actions
    BY <2>1
  <2>4. CountingInv'
    BY <2>1, <2>2, <2>3
  <2>5. CountedUnlessRaced'
    BY <2>1, <2>3
  <2>6. QED
    BY <2>4, <2>5
<1>5. ASSUME NEW k \in Task, StoreCount(k)
      PROVE  CountingInv' /\ CountedUnlessRaced'
  BY <1>5, TransportsFacts DEF StoreCount, Incremented, counters
<1>6. ASSUME NEW k \in Task, Silent(k)
      PROVE  CountingInv' /\ CountedUnlessRaced'
  BY <1>6, TransportsFacts DEF Silent, Finished, counters, dispatcher
<1>7. ASSUME NEW k \in Task, NEW sent \in BOOLEAN, sendReply(k, sent)
      PROVE  CountingInv' /\ CountedUnlessRaced'
  BY <1>7, TransportsFacts DEF sendReply, Finished, Counted, dispatcher
<1>8. QED
  BY <1>1, <1>2, <1>3, <1>4, <1>5, <1>6, <1>7 DEF TransportsNext, TaskStep

LEMMA CountsGrow ==
  ASSUME TransportsTypeOK, TransportsNext
  PROVE  \A c \in Counter : Counts[c] <= Counts'[c]
<1> USE DEF TransportsTypeOK, Counts, Counter
<1>1. ASSUME NEW t \in Transport, NEW ok \in BOOLEAN, start(t, ok)
      PROVE  \A c \in Counter : Counts[c] <= Counts'[c]
  BY <1>1, TransportsFacts DEF start, counters, dispatcher
<1>2. ASSUME NEW t \in Transport, Drop(t)
      PROVE  \A c \in Counter : Counts[c] <= Counts'[c]
  BY <1>2, TransportsFacts DEF Drop, Arrives, dispatcher
<1>3. ASSUME NEW t \in Transport, NEW a \in Actions, Receive(t, a)
      PROVE  \A c \in Counter : Counts[c] <= Counts'[c]
  BY <1>3, TransportsFacts DEF Receive, Arrives, dispatcher
<1>4. ASSUME NEW k \in Task, LoadCount(k)
      PROVE  \A c \in Counter : Counts[c] <= Counts'[c]
  BY <1>4, TransportsFacts DEF LoadCount, counters
<1>5. ASSUME NEW k \in Task, StoreCount(k)
      PROVE  \A c \in Counter : Counts[c] <= Counts'[c]
  BY <1>5, TransportsFacts DEF StoreCount, Incremented, counters
<1>6. ASSUME NEW k \in Task, Silent(k)
      PROVE  \A c \in Counter : Counts[c] <= Counts'[c]
  BY <1>6, TransportsFacts DEF Silent, Finished, counters, dispatcher
<1>7. ASSUME NEW k \in Task, NEW sent \in BOOLEAN, sendReply(k, sent)
      PROVE  \A c \in Counter : Counts[c] <= Counts'[c]
  BY <1>7, TransportsFacts DEF sendReply, Finished, Counted, dispatcher
<1>8. QED
  BY <1>1, <1>2, <1>3, <1>4, <1>5, <1>6, <1>7 DEF TransportsNext, TaskStep

(* Each step of the dashboard and of the transports keeps the invariant.   *)
LEMMA DashboardStepInv == DashboardInv /\ [DashboardNext]_dashboardVars => DashboardInv'
<1> SUFFICES ASSUME DashboardInv, [DashboardNext]_dashboardVars PROVE DashboardInv'
  OBVIOUS
<1>1. TransportsTypeOK /\ DashboardTypeOK
  BY DEF DashboardInv, DashboardTypeOK
<1>2. Counts \in [Counter -> Nat]
  BY <1>1, CountsTyped DEF TransportsTypeOK
<1>3. position \in 0..8 /\ (\A i \in 1..9 : Order[i] \in Counter) /\ Len(Order) = 9
  BY <1>1, OrderTyped DEF DashboardTypeOK
<1>4. CASE PrintCounter
  <2> DEFINE c == Order[position + 1]
  <2>1. /\ c \in Counter /\ shown' = [shown EXCEPT ![c] = Counts[c]]
        /\ position' = (position + 1) % 9
        /\ atStart' = IF position' = 0 THEN Counts ELSE atStart
        /\ UNCHANGED tvars
    BY <1>3, <1>4 DEF PrintCounter, Printed, NextPosition
  <2>2. position' = (IF position = 8 THEN 0 ELSE position + 1) /\ position' \in 0..8
    BY <1>3, <2>1
  <2>3. TransportsTypeOK' /\ CountingInv' /\ CountedUnlessRaced' /\ Counts' = Counts
    BY <2>1 DEF tvars, counters, dispatcher, DashboardInv, DashboardTypeOK, TransportsTypeOK,
                CountingInv, CountedUnlessRaced, Counts
  <2>4. shown' \in [Counter -> Nat \cup {Blank}] /\ atStart' \in [Counter -> Nat]
    BY <1>1, <1>2, <2>1 DEF DashboardTypeOK
  <2>5. AtMostNow'
    BY <1>1, <1>2, <2>1, <2>3 DEF DashboardInv, DashboardTypeOK, AtMostNow
  <2>6. ShownWasCounted'
    <3>1. SUFFICES ASSUME NEW i \in 1..position'
                   PROVE  shown'[Order[i]] \in atStart'[Order[i]]..Counts[Order[i]]
      BY <2>3 DEF ShownWasCounted
    <3>2. /\ position' = position + 1 /\ atStart' = atStart /\ i \in 1..9
          /\ i \in 1..position \/ i = position + 1
      BY <1>3, <2>1, <2>2
    <3>3. Counts[c] \in atStart[c]..Counts[c]
      BY <1>1, <1>2, <2>1 DEF DashboardInv, DashboardTypeOK, AtMostNow
    <3>4. CASE Order[i] = c
      BY <1>1, <2>1, <3>2, <3>3, <3>4 DEF DashboardTypeOK
    <3>5. CASE Order[i] # c
      BY <1>1, <1>3, <2>1, <3>2, <3>5 DEF DashboardInv, DashboardTypeOK, ShownWasCounted
    <3>6. QED
      BY <3>4, <3>5
  <2>7. QED
    BY <1>3, <2>2, <2>3, <2>4, <2>5, <2>6 DEF DashboardInv, DashboardTypeOK
<1>5. CASE TransportsNext /\ UNCHANGED panelVars
  <2>1. TransportsTypeOK' /\ CountingInv' /\ CountedUnlessRaced'
    BY <1>1, <1>5, TransportsTypedStep, CountingStep DEF DashboardInv
  <2>2. Counts' \in [Counter -> Nat]
    BY <2>1 DEF TransportsTypeOK, Counts, Counter
  <2>3. \A c \in Counter : Counts[c] <= Counts'[c]
    BY <1>1, <1>5, CountsGrow
  <2>4. UNCHANGED <<shown, position, atStart>>
    BY <1>5 DEF panelVars
  <2>5. AtMostNow'
    BY <1>1, <1>2, <2>2, <2>3, <2>4 DEF DashboardInv, DashboardTypeOK, AtMostNow
  <2>6. ShownWasCounted'
    <3>1. SUFFICES ASSUME NEW i \in 1..position
                   PROVE  shown[Order[i]] \in atStart[Order[i]]..Counts'[Order[i]]
      BY <2>4 DEF ShownWasCounted
    <3>2. Order[i] \in Counter /\ shown[Order[i]] \in atStart[Order[i]]..Counts[Order[i]]
      BY <1>3 DEF DashboardInv, ShownWasCounted
    <3>3. QED
      BY <1>1, <1>2, <2>2, <2>3, <3>2 DEF DashboardTypeOK
  <2>7. QED
    BY <1>1, <2>1, <2>4, <2>5, <2>6 DEF DashboardInv, DashboardTypeOK
<1>6. CASE UNCHANGED dashboardVars
  BY <1>6 DEF dashboardVars, tvars, panelVars, counters, dispatcher, DashboardInv, DashboardTypeOK,
              TransportsTypeOK, CountingInv, CountedUnlessRaced, AtMostNow,
              ShownWasCounted, Counts
<1>7. QED
  BY <1>4, <1>5, <1>6 DEF DashboardNext

(* DashboardInv holds of every reachable state.                            *)
LEMMA DashboardInvariant == DashboardSpec => []DashboardInv
BY DashboardInitInv, DashboardStepInv, PTL DEF DashboardSpec

(* The variables of the dashboard and of the transports have their types.  *)
THEOREM DashboardTypeCorrect == DashboardSpec => []DashboardTypeOK
<1>1. DashboardInv => DashboardTypeOK
  BY DEF DashboardInv
<1>2. QED
  BY <1>1, DashboardInvariant, PTL

(* The call counter of an action loses nothing unless both tasks counted   *)
(* that action at once.                                                    *)
THEOREM CountedUnlessRacedHolds == DashboardSpec => []CountedUnlessRaced
<1>1. DashboardInv => CountedUnlessRaced
  BY DEF DashboardInv
<1>2. QED
  BY <1>1, DashboardInvariant, PTL

(* Whatever is on the panel is a count its counter had since the update    *)
(* began, though nothing is locked.                                        *)
THEOREM ShownWasCountedHolds == DashboardSpec => []ShownWasCounted
<1>1. DashboardInv => ShownWasCounted
  BY DEF DashboardInv
<1>2. QED
  BY <1>1, DashboardInvariant, PTL
-----------------------------------------------------------------------------
(* The texts of the cells, for every number.                               *)

LEMMA DigitCountTyped ==
  ASSUME NEW v \in Nat
  PROVE  /\ DigitCount(v) \in 1..10
         /\ DigitCount(v) = 10 \/ v < Power[DigitCount(v) + 1]
         /\ DigitCount(v) = 1 \/ v >= Power[DigitCount(v)]
<1> DEFINE P(n) == (n = 10 \/ v < Power[n + 1]) /\ (n = 1 \/ v >= Power[n])
<1>1. \E n \in 1..10 : P(n)
  BY DEF Power
<1>2. DigitCount(v) = CHOOSE n \in 1..10 : P(n)
  BY DEF DigitCount
<1> HIDE DEF P
<1>3. DigitCount(v) \in 1..10 /\ P(DigitCount(v))
  BY <1>1, <1>2
<1>4. QED
  BY <1>3 DEF P

LEMMA Places ==
  /\ Place(0) = 0 /\ Place(1) = 1 /\ Place(2) = 2
  /\ Place(3) = 4 /\ Place(4) = 5 /\ Place(5) = 6
  /\ Place(6) = 8 /\ Place(7) = 9 /\ Place(8) = 10 /\ Place(9) = 12
<1> DEFINE S(i) == {k \in 0..i : Separated(k)}
<1>1. /\ S(0) = {} /\ S(1) = {} /\ S(2) = {}
      /\ S(3) = {3} /\ S(4) = {3} /\ S(5) = {3}
      /\ S(6) = {3, 6} /\ S(7) = {3, 6} /\ S(8) = {3, 6} /\ S(9) = {3, 6, 9}
  BY DEF Separated
<1>2. Cardinality({}) = 0 /\ IsFiniteSet({3}) /\ Cardinality({3}) = 1
  BY FS_EmptySet, FS_Singleton
<1>3. IsFiniteSet({3, 6}) /\ Cardinality({3, 6}) = 2
  <2>1. {3, 6} = {3} \cup {6} /\ 6 \notin {3}
    OBVIOUS
  <2>2. /\ IsFiniteSet({3} \cup {6})
        /\ Cardinality({3} \cup {6}) = IF 6 \in {3} THEN Cardinality({3}) ELSE Cardinality({3}) + 1
    BY <1>2, FS_AddElement
  <2>3. QED
    BY <1>2, <2>1, <2>2
<1>4. Cardinality({3, 6, 9}) = 3
  <2>1. {3, 6, 9} = {3, 6} \cup {9} /\ 9 \notin {3, 6}
    OBVIOUS
  <2>2. Cardinality({3, 6} \cup {9}) = IF 9 \in {3, 6} THEN Cardinality({3, 6}) ELSE Cardinality({3, 6}) + 1
    BY <1>3, FS_AddElement
  <2>3. QED
    BY <1>3, <2>1, <2>2
<1>5. QED
  BY <1>1, <1>2, <1>3, <1>4 DEF Place

(* formatThousands() of a number of n digits.                              *)
LEMMA Formatted ==
  ASSUME NEW v \in Nat
  PROVE  LET n == DigitCount(v)
             length == Place(n - 1) + 1
             t == formatThousands(v)
         IN  /\ Len(t) = IF n = 10 THEN 1 ELSE length
             /\ n < 10 => \A j \in 1..length :
                  /\ \A i \in 0..(n - 1) : Place(i) = length - j => t[j] = Digit(v, i)
                  /\ (\A i \in 0..(n - 1) : Place(i) # length - j) => t[j] = Space
<1> DEFINE n == DigitCount(v)
           length == Place(n - 1) + 1
           at(j) == {i \in 0..(n - 1) : Place(i) = length - j}
           chars == [j \in 1..length |->
                       IF at(j) = {} THEN Space ELSE Digit(v, CHOOSE i \in at(j) : TRUE)]
<1>1. n \in 1..10
  BY DigitCountTyped
<1>2. length \in 1..13 /\ (n = 10 <=> length = 13)
  BY <1>1, Places
<1>3. formatThousands(v) = IF ((12 - length) % 256) + 1 < 14 THEN chars ELSE Garbage
  BY DEF formatThousands
<1>4. (12 - length) % 256 = IF length = 13 THEN 255 ELSE 12 - length
  BY <1>2
<1>5. formatThousands(v) = IF n = 10 THEN Garbage ELSE chars
  BY <1>2, <1>3, <1>4
<1>6. Len(chars) = length /\ Len(Garbage) = 1
  BY <1>2 DEF Garbage
<1>7. \A j \in 1..length :
        /\ \A i \in 0..(n - 1) : Place(i) = length - j => chars[j] = Digit(v, i)
        /\ (\A i \in 0..(n - 1) : Place(i) # length - j) => chars[j] = Space
  <2>1. \A i, k \in 0..9 : Place(i) = Place(k) => i = k
    BY Places
  <2> SUFFICES ASSUME NEW j \in 1..length
               PROVE  /\ \A i \in 0..(n - 1) : Place(i) = length - j => chars[j] = Digit(v, i)
                      /\ (\A i \in 0..(n - 1) : Place(i) # length - j) => chars[j] = Space
    OBVIOUS
  <2>2. ASSUME NEW i \in 0..(n - 1), Place(i) = length - j
        PROVE  chars[j] = Digit(v, i)
    <3>1. at(j) = {i}
      BY <1>1, <2>1, <2>2
    <3>2. (CHOOSE k \in at(j) : TRUE) = i
      BY <3>1
    <3>3. QED
      BY <3>1, <3>2
  <2>3. ASSUME \A i \in 0..(n - 1) : Place(i) # length - j
        PROVE  chars[j] = Space
    BY <2>3
  <2>4. QED
    BY <2>2, <2>3
<1> HIDE DEF at, chars
<1>8. CASE n = 10
  BY <1>5, <1>6, <1>8
<1>9. CASE n < 10
  <2>1. formatThousands(v) = chars
    BY <1>5, <1>9
  <2>2. QED
    BY <1>6, <1>7, <1>9, <2>1
<1>10. QED
  BY <1>1, <1>8, <1>9

LEMMA DigitTyped ==
  ASSUME NEW v \in Nat, NEW i \in 0..9
  PROVE  Digit(v, i) \in 0..9
<1>1. Power[i + 1] \in Nat \ {0}
  BY DEF Power
<1>2. v \div Power[i + 1] \in Nat
  BY <1>1
<1>3. QED
  BY <1>2 DEF Digit

LEMMA PowerValues ==
  /\ Power[1] = 1 /\ Power[2] = 10 /\ Power[3] = 100 /\ Power[4] = 1000 /\ Power[5] = 10000
  /\ Power[6] = 100000 /\ Power[7] = 1000000 /\ Power[8] = 10000000
BY SMT DEF Power

(* Seven digits are the number.                                            *)
LEMMA Decimal ==
  ASSUME NEW v \in Nat, v < 10000000
  PROVE  1000000 * Digit(v, 6) + 100000 * Digit(v, 5) + 10000 * Digit(v, 4) + 1000 * Digit(v, 3)
           + 100 * Digit(v, 2) + 10 * Digit(v, 1) + Digit(v, 0) = v
<1> DEFINE q(i) == v \div Power[i + 1]
<1>1. /\ q(0) = v /\ q(1) = v \div 10 /\ q(2) = v \div 100 /\ q(3) = v \div 1000
      /\ q(4) = v \div 10000 /\ q(5) = v \div 100000 /\ q(6) = v \div 1000000
  BY SMT, PowerValues
<1>2. /\ v \div 100 = (v \div 10) \div 10
      /\ v \div 1000 = (v \div 100) \div 10
      /\ v \div 10000 = (v \div 1000) \div 10
      /\ v \div 100000 = (v \div 10000) \div 10
      /\ v \div 1000000 = (v \div 100000) \div 10
  BY SMT
<1>3. v \div 1000000 < 10
  BY SMT
<1>4. \A i \in 0..6 : Digit(v, i) = q(i) % 10
  BY SMT DEF Digit
<1>5. \A m \in Nat : m = 10 * (m \div 10) + (m % 10) /\ (m < 10 => m % 10 = m)
  BY SMT
<1>6. \A i \in 0..6 : q(i) \in Nat
  BY SMT, <1>1
<1> HIDE DEF q
<1>7. /\ q(1) = q(0) \div 10 /\ q(2) = q(1) \div 10 /\ q(3) = q(2) \div 10
      /\ q(4) = q(3) \div 10 /\ q(5) = q(4) \div 10 /\ q(6) = q(5) \div 10
  BY SMT, <1>1, <1>2
<1>8. /\ v = 10 * q(1) + Digit(v, 0)
      /\ q(1) = 10 * q(2) + Digit(v, 1)
      /\ q(2) = 10 * q(3) + Digit(v, 2)
      /\ q(3) = 10 * q(4) + Digit(v, 3)
      /\ q(4) = 10 * q(5) + Digit(v, 4)
      /\ q(5) = 10 * q(6) + Digit(v, 5)
      /\ q(6) = Digit(v, 6)
  <2>1. /\ q(0) = 10 * q(1) + (q(0) % 10)
        /\ q(1) = 10 * q(2) + (q(1) % 10)
        /\ q(2) = 10 * q(3) + (q(2) % 10)
        /\ q(3) = 10 * q(4) + (q(3) % 10)
        /\ q(4) = 10 * q(5) + (q(4) % 10)
        /\ q(5) = 10 * q(6) + (q(5) % 10)
        /\ q(6) % 10 = q(6)
    BY SMT, <1>1, <1>3, <1>5, <1>6, <1>7
  <2>2. QED
    BY SMT, <1>1, <1>4, <2>1
<1>9. \A i \in 0..6 : Digit(v, i) \in 0..9
  BY SMT, DigitTyped
<1>10. QED
  <2>1. /\ q(1) \in Nat /\ q(2) \in Nat /\ q(3) \in Nat
        /\ q(4) \in Nat /\ q(5) \in Nat /\ q(6) \in Nat
    BY SMT, <1>6
  <2>2. /\ Digit(v, 0) \in Nat /\ Digit(v, 1) \in Nat /\ Digit(v, 2) \in Nat
        /\ Digit(v, 3) \in Nat /\ Digit(v, 4) \in Nat /\ Digit(v, 5) \in Nat
        /\ Digit(v, 6) \in Nat
    BY SMT, <1>9
  <2>3. QED
    BY SMT, <1>8, <2>1, <2>2

(* Where each digit of a counter below ten million is in its cell.         *)
LEMMA CellCharacters ==
  ASSUME NEW v \in Nat, v < Power[8]
  PROVE  LET n == DigitCount(v)
             text == CounterText(v)
         IN  /\ n \in 1..7
             /\ \A i \in 0..6 : text[9 - Place(i)] = IF i < n THEN Digit(v, i) ELSE Space
             /\ text[2] = Space /\ text[6] = Space
<1> DEFINE n == DigitCount(v)
           t == formatThousands(v)
           length == Place(n - 1) + 1
<1>1. n \in 1..7
  BY DigitCountTyped DEF Power
<1>2. length \in 1..9 /\ Len(t) = length
  BY <1>1, Places, Formatted
<1>3. CounterText(v) = [i \in 1..9 |-> IF i <= 9 - length THEN Space ELSE t[i - (9 - length)]]
  <2>1. (IF Len(t) < 9 THEN 9 - Len(t) ELSE 0) = 9 - length
    BY <1>2
  <2>2. QED
    BY <2>1 DEF CounterText
<1>4. \A j \in 1..length :
        /\ \A i \in 0..(n - 1) : Place(i) = length - j => t[j] = Digit(v, i)
        /\ (\A i \in 0..(n - 1) : Place(i) # length - j) => t[j] = Space
  BY <1>1, Formatted
<1> HIDE DEF t
<1>5. ASSUME NEW i \in 0..6
      PROVE  CounterText(v)[9 - Place(i)] = IF i < n THEN Digit(v, i) ELSE Space
  <2>1. Place(i) \in 0..8 /\ (i < n <=> Place(i) < length)
    BY <1>1, Places
  <2>2. CASE i < n
    <3>1. length - Place(i) \in 1..length /\ i \in 0..(n - 1)
      BY <1>1, <1>2, <2>1, <2>2
    <3>2. t[length - Place(i)] = Digit(v, i)
      BY <1>2, <1>4, <2>1, <3>1
    <3>3. 9 - Place(i) \in 1..9 /\ ~(9 - Place(i) <= 9 - length)
          /\ 9 - Place(i) - (9 - length) = length - Place(i)
      BY <1>2, <2>1, <2>2
    <3>4. QED
      BY <1>3, <2>2, <3>2, <3>3
  <2>3. CASE ~(i < n)
    BY <1>2, <1>3, <2>1, <2>3
  <2>4. QED
    BY <2>2, <2>3
<1>6. ASSUME NEW s \in {3, 7}
      PROVE  CounterText(v)[9 - s] = Space
  <2>1. \A i \in 0..(n - 1) : Place(i) # s
    BY <1>1, Places
  <2>2. CASE s < length
    <3>1. length - s \in 1..length
      BY <1>2, <2>2
    <3>2. t[length - s] = Space
      BY <1>2, <1>4, <2>1, <3>1
    <3>3. QED
      BY <1>2, <1>3, <2>2, <3>2
  <2>3. CASE ~(s < length)
    BY <1>2, <1>3, <2>3
  <2>4. QED
    BY <2>2, <2>3
<1>7. QED
  BY <1>1, <1>5, <1>6

(* Below ten million formatThousands() and "%9s" show each number as it is *)
(* read: all its digits, in groups of three, right-aligned.                *)
THEOREM CounterReads ==
  ASSUME NEW v \in Nat, v < Power[8]
  PROVE  Reads(CounterText(v), v)
<1> DEFINE n == DigitCount(v)
           text == CounterText(v)
           first == 9 - Place(n - 1)
<1>1. /\ n \in 1..7
      /\ \A i \in 0..6 : text[9 - Place(i)] = IF i < n THEN Digit(v, i) ELSE Space
      /\ text[2] = Space /\ text[6] = Space
  BY CellCharacters
<1>2. Len(text) = 9
  BY DEF CounterText
<1> HIDE DEF text
<1>3. /\ text[9] = (IF 0 < n THEN Digit(v, 0) ELSE Space)
      /\ text[8] = (IF 1 < n THEN Digit(v, 1) ELSE Space)
      /\ text[7] = (IF 2 < n THEN Digit(v, 2) ELSE Space)
      /\ text[5] = (IF 3 < n THEN Digit(v, 3) ELSE Space)
      /\ text[4] = (IF 4 < n THEN Digit(v, 4) ELSE Space)
      /\ text[3] = (IF 5 < n THEN Digit(v, 5) ELSE Space)
      /\ text[1] = (IF 6 < n THEN Digit(v, 6) ELSE Space)
  BY <1>1, Places
<1>4. \A i \in 0..6 : Digit(v, i) \in 0..9
  BY DigitTyped
<1>5. \A i \in 0..6 : i >= n => Digit(v, i) = 0
  <2> SUFFICES ASSUME NEW i \in 0..6, i >= n PROVE Digit(v, i) = 0
    OBVIOUS
  <2>1. v < Power[i + 1]
    BY SMT, <1>1, DigitCountTyped, PowerValues
  <2>2. Power[i + 1] \in Nat \ {0}
    BY SMT, PowerValues
  <2>3. v \div Power[i + 1] = 0
    BY SMT, <2>1, <2>2
  <2>4. QED
    BY SMT, <2>3 DEF Digit
<1>6. n > 1 => Digit(v, n - 1) # 0
  <2> SUFFICES ASSUME n > 1 PROVE Digit(v, n - 1) # 0
    OBVIOUS
  <2>1. Power[n] <= v /\ v < Power[n + 1]
    BY SMT, <1>1, DigitCountTyped
  <2>2. Power[n] \in Nat \ {0} /\ Power[n + 1] = 10 * Power[n]
    BY SMT, <1>1, PowerValues
  <2>3. v \div Power[n] \in 1..9
    BY SMT, <1>1, <2>1, PowerValues
  <2>4. QED
    BY SMT, <1>1, <2>3 DEF Digit
<1>7. ValueRead(text) = v
  <2>1. /\ Worth(text[9]) = Digit(v, 0) /\ Worth(text[8]) = Digit(v, 1)
        /\ Worth(text[7]) = Digit(v, 2) /\ Worth(text[5]) = Digit(v, 3)
        /\ Worth(text[4]) = Digit(v, 4) /\ Worth(text[3]) = Digit(v, 5)
        /\ Worth(text[1]) = Digit(v, 6)
    BY <1>1, <1>3, <1>4, <1>5 DEF Worth, Space
  <2>2. v < 10000000
    BY SMT, PowerValues
  <2>3. QED
    BY SMT, <2>1, <2>2, Decimal DEF ValueRead
<1>8. \E f \in 1..9 :
        /\ \A i \in 1..(f - 1) : text[i] = Space
        /\ \A i \in f..9 : IF i \in {2, 6} THEN text[i] = Space ELSE text[i] \in 0..9
        /\ f \notin {2, 6} /\ (text[f] = 0 => f = 9)
  <2>1. first \in {1, 3, 4, 5, 7, 8, 9}
    BY <1>1, Places
  <2>2. text[first] = Digit(v, n - 1)
    BY <1>1
  <2>3. \A i \in 1..(first - 1) : text[i] = Space
    BY <1>1, <1>3, Places
  <2>4. \A i \in first..9 : IF i \in {2, 6} THEN text[i] = Space ELSE text[i] \in 0..9
    BY <1>1, <1>3, <1>4, Places
  <2>5. text[first] = 0 => first = 9
    BY <1>1, <1>6, <2>2, Places
  <2>6. QED
    BY <2>1, <2>3, <2>4, <2>5
<1>9. QED
  BY <1>2, <1>7, <1>8 DEF Reads, text

(* Whatever has been counted below ten million reads in full.              *)
THEOREM CountersReadableHolds == DashboardSpec => []CountersReadable
<1>1. CountersReadable
  <2>1. \A v \in Samples : v \in Nat /\ v < Power[8]
    <3>1. Power[8] \in Nat
      BY SMT, PowerValues
    <3>2. QED
      BY <3>1, SamplesAssumption
  <2>2. Unreadable = {}
    BY <2>1, CounterReads DEF Unreadable
  <2>3. QED
    BY <2>2 DEF CountersReadable
<1>2. QED
  BY <1>1, PTL
=============================================================================
