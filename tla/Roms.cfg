SPECIFICATION Spec
CONSTANTS
  Games = {"pong", "yakanoid", "vaders", "hunter", "perrod", "skate"}
  yakanoid <- SmallYakanoid
  vaders <- SmallVaders
  hunter <- SmallHunter
INVARIANTS StraysOnlyWhere HitsCounted
PROPERTIES BallReturns ShotLands SkaterGetsUp
CHECK_DEADLOCK FALSE
