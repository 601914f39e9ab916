SPECIFICATION Spec
CONSTANTS
  Text = {"a"}
  MaxLength = 2
  MaxStream = 7
  MaxRead = 3
  Levels = {0, 300, 1000}
  MobLevels = {200, 1500}
  Damages = {0, 30, 970}
  Rewards = {7, 1000}
  MaxParty = 4
  MaxTargets = 5
INVARIANTS
  NothingLost
  NeverGlued
  LineLimit
  SharesFillPool
  BetterGetsMore
CHECK_DEADLOCK FALSE
