SPECIFICATION Spec
CONSTANTS
  BOARD_ROWS = 2
  BOARD_COLS = 4
  SNAKE_MAX = 3
  MAX_OBSTACLES = 2
  OBSTACLE_INIT_COUNT = 1
  OBSTACLE_STEP_INTERVAL = 1
  MAX_BOOST_ZONES = 1
  BONUS_INTERVAL_MS = 3
  BONUS_DURATION_MIN_MS = 1
  BONUS_PER_CELL = 1
  BONUS_POINTS = 3
  BOOST_DURATION_MS = 4
  BOOST_RESPAWN_MS = 3
  Dts = {2}
  MaxSteps = 3
  PauseAt = {2}
INVARIANTS
  BodyIsPath
  FoodIsFree
  DangerIsVisible
CHECK_DEADLOCK FALSE
