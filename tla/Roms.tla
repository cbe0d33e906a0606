--------------------------------- MODULE Roms ---------------------------------
(***************************************************************************)
(* The ROMs: the kernel runs one of them for good, chosen when it is       *)
(* linked in, so a behaviour is a behaviour of that one.  The screens, the *)
(* speeds and the numbers of bricks, monsters and boxes are parameters of  *)
(* the games about which something is proved and scaled down in the        *)
(* others; each module says what they are in the code.                     *)
(***************************************************************************)
EXTENDS Integers

CONSTANTS
    Games,                      \* the ROMs that are checked
    yakanoid, vaders, hunter    \* the measures of these, field by field

VARIABLES rom, game

vars == <<rom, game>>

Pong == INSTANCE Pong WITH
    Width <- 40, Height <- 22, Bar <- 4, BarStep <- 3, Edge <- 3, Radius <- 2, Reach <- 2, Skill <- 1,
    Speed <- 2, FastSpeed <- 3, Standby <- 2

Yakanoid == INSTANCE Yakanoid WITH
    Rows <- yakanoid.Rows, Cols <- yakanoid.Cols, BrickWidth <- yakanoid.BrickWidth,
    BrickHeight <- yakanoid.BrickHeight, Wall <- yakanoid.Wall,
    StartX <- yakanoid.StartX, Radius <- yakanoid.Radius, BarHalf <- yakanoid.BarHalf,
    BarStep <- yakanoid.BarStep, BarY <- yakanoid.BarY, Lives <- yakanoid.Lives,
    Above <- yakanoid.Above

Vaders == INSTANCE Vaders WITH
    Width <- vaders.Width, Height <- vaders.Height,
    MONSTERS_COLS <- vaders.MONSTERS_COLS, NB_MONSTERS <- vaders.NB_MONSTERS,
    X_GAP_MONSTERS <- vaders.X_GAP_MONSTERS, FirstX <- vaders.FirstX,
    MONSTER_X_BBOX <- vaders.MONSTER_X_BBOX, MONSTER_Y_BBOX <- vaders.MONSTER_Y_BBOX,
    SEINE_W_X_BBOX <- vaders.SEINE_W_X_BBOX, SEINE_W_Y_BBOX <- vaders.SEINE_W_Y_BBOX,
    P_HALF <- vaders.P_HALF, P_STEP <- vaders.P_STEP, Gun <- vaders.Gun,
    Shot <- vaders.Shot, Descent <- vaders.Descent, NUM_MOVE <- vaders.NUM_MOVE,
    Drift <- vaders.Drift

Hunter == INSTANCE Hunter WITH
    Width <- hunter.Width, Height <- hunter.Height, Margin <- hunter.Margin,
    Least <- hunter.Least, Ground <- hunter.Ground,
    MONSTER_X_BBOX <- hunter.MONSTER_X_BBOX, MONSTER_Y_BBOX <- hunter.MONSTER_Y_BBOX,
    may <- hunter.may, NUM_MOVE <- hunter.NUM_MOVE, NB_MONSTERS <- hunter.NB_MONSTERS,
    les <- hunter.les, Moves <- hunter.Moves

Perrod == INSTANCE Perrod WITH
    Word <- 65536, MaxAngle <- 2, AngleStep <- 1, MaxPower <- 4, PowerStep <- 2, StartX <- 1,
    StartY <- 4, Ground <- 2, SlowX <- 2, SlowY <- 3, Pull <- 2, Brake <- 2, FirstGravity <- 1,
    Screen <- 8, Top <- 2, Low <- 5, Right <- 6, Below <- 1, Gravities <- {0, 1, 2}, MaxX <- 20, MaxY <- 14

Skate == INSTANCE Skate WITH
    BOX_WIDTH <- 4, BOX_HEIGHT <- 4, RailHeight <- 2, Middle <- 4, Half <- 2, Feet <- 1, Ground <- 30,
    Step <- 2, JumpLeast <- 4, JumpMore <- 1, Stopped <- 3, SlowEvery <- 4, FlipTime <- 2,
    RotateTime <- 3, CrashTime <- 4

-----------------------------------------------------------------------------
(* What the measures of the games have in common with those of the code.   *)

\* The bricks hang above the bar, the ball starts between the walls and is lower than a brick.
ASSUME YakanoidAssumption ==
    /\ {yakanoid.Rows, yakanoid.Cols} \subseteq Nat \ {0}
    /\ {yakanoid.BrickWidth, yakanoid.BrickHeight} \subseteq Nat \ {0, 1}
    /\ yakanoid.Radius \in 1 .. yakanoid.BrickHeight - 1
    /\ {yakanoid.Wall, yakanoid.StartX, yakanoid.BarHalf, yakanoid.BarStep, yakanoid.BarY,
        yakanoid.Lives} \subseteq Int
    /\ yakanoid.Wall + yakanoid.Radius <= yakanoid.StartX
    /\ yakanoid.StartX + yakanoid.Radius < Yakanoid!RightWall
    /\ (yakanoid.Rows + 1) * yakanoid.BrickHeight <= yakanoid.BarY - yakanoid.Radius

ASSUME VadersAssumption ==
    /\ {vaders.NB_MONSTERS, vaders.MONSTERS_COLS} \subseteq Nat \ {0}
    /\ {vaders.Width, vaders.Height, vaders.X_GAP_MONSTERS, vaders.FirstX, vaders.MONSTER_X_BBOX,
        vaders.MONSTER_Y_BBOX, vaders.SEINE_W_X_BBOX, vaders.SEINE_W_Y_BBOX, vaders.P_HALF,
        vaders.P_STEP, vaders.Gun, vaders.Shot, vaders.Descent, vaders.NUM_MOVE} \subseteq Int

\* No monster starts where it is gone at once: the last one stays when the game has ended.
ASSUME HunterAssumption ==
    /\ {hunter.NUM_MOVE, hunter.NB_MONSTERS} \subseteq Nat \ {0}
    /\ {hunter.Width, hunter.Height, hunter.Margin, hunter.Least, hunter.Ground, hunter.may,
        hunter.MONSTER_X_BBOX, hunter.MONSTER_Y_BBOX} \subseteq Int
    /\ hunter.les \in [0 .. hunter.NUM_MOVE - 1 -> [x : Int, y : Int, dx : Int, dy : Int]]
    /\ \A i \in DOMAIN hunter.les : ~Hunter!Gone(hunter.les[i])
    /\ hunter.Moves \subseteq Int \X Int

-----------------------------------------------------------------------------
Init == rom \in Games /\ Pong!Init

\* Every ROM starts with its splash screen.
PongNext == rom = "pong" /\ Pong!Next /\ UNCHANGED rom
YakanoidNext == rom = "yakanoid" /\ Yakanoid!Next /\ UNCHANGED rom
VadersNext == rom = "vaders" /\ Vaders!Next /\ UNCHANGED rom
HunterNext == rom = "hunter" /\ Hunter!Next /\ UNCHANGED rom
PerrodNext == rom = "perrod" /\ Perrod!Next /\ UNCHANGED rom
SkateNext == rom = "skate" /\ Skate!Next /\ UNCHANGED rom

Next == PongNext \/ YakanoidNext \/ VadersNext \/ HunterNext \/ PerrodNext \/ SkateNext

\* A frame ends by waiting for gettick to move on.  The clock behind it is on the kernel's side,
\* which has none at this commit: that it ticks, so that the next frame comes, is assumed.
Spec ==
    /\ Init /\ [][Next]_vars
    /\ WF_vars(rom = "pong" /\ Pong!game_loop /\ UNCHANGED rom)
    /\ WF_vars(rom = "perrod" /\ Perrod!game_loop /\ UNCHANGED rom)
    /\ WF_vars(rom = "skate" /\ Skate!game_loop /\ UNCHANGED rom)

-----------------------------------------------------------------------------
\* yakanoid.c:129-139: the places the ball is taken for lie in mtrx, but for the one behind the last
\* brick, at the right wall, and those above the bricks, once each row has a gap.
StraysOnlyWhere == rom = "yakanoid" => Yakanoid!StraysOnlyWhere

\* vaders.c:248-304 and hunter.c:205-281: the count that ends a game is the count of the hits.
HitsCounted ==
    /\ rom = "vaders" => Vaders!KillsCounted
    /\ rom = "hunter" => Hunter!ScoreIsHits

OnTheRight == rom = "pong" /\ Pong!OnTheRight
OnTheLeft == rom = "pong" /\ Pong!OnTheLeft

\* The standby counter, the bars and the edges (pong.c:94-210) keep the ball in play: from either
\* half of the field it comes to the other one, however the player plays, unless the player
\* leaves; it never sticks in a bar or an edge, turning round on every frame.
BallReturns == (OnTheRight ~> ~OnTheRight) /\ (OnTheLeft ~> ~OnTheLeft)

Shooting == rom = "perrod" /\ Perrod!Flying
Weighs == rom = "perrod" => ~Perrod!Weightless /\ Perrod!Followed

\* A shot comes down and ends (perrod.c:164-184), however it bounces and whatever the player does
\* to gravity in flight, so long as it is never switched off: with gravity 0 it flies for ever.
\* A shot leaves the bounds only after others, each fired in the frame after the one before it
\* landed: such a shot starts where that one ended (perrod.c:135, 150).
ShotLands == []Weighs => (Shooting ~> ~Shooting)

Waiting == rom = "skate" /\ Skate!Waiting
Flying == rom = "skate" /\ Skate!Flying

\* A trick ends and the keys are read again (skate.c:153): the skater that comes down too early
\* crashes once (skater.c:169) and gets up, though the park goes on rolling under it; a jump ends on
\* the ground, whatever is below.
SkaterGetsUp == (Waiting ~> ~Waiting) /\ (Flying ~> ~Flying)
=============================================================================
