CONSTANTS
  SCREEN_COUNT = 3
  Tasks = {"udp"}
  SPLASH_MAX_MS = 1
  BTN_A_DEBOUNCE_MS = 1
  MaxTime = 2
  MaxLog = 2
  max_rows = 1
  current_log_level <- MCLevels
SPECIFICATION FairSpec
INVARIANT RowsAreNewest
INVARIANT ShowsScreenUnlessRaced
INVARIANT SplashStaysItsTime
PROPERTY EntryIsDrawn
