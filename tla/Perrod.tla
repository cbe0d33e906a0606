-------------------------------- MODULE Perrod --------------------------------
(***************************************************************************)
(* roms/perrodlauncher/perrod.c: one action per frame of its loops.  What  *)
(* the frame draws is left out, the score and the turning picture p with   *)
(* it; game holds the other locals of game_loop.                           *)
(***************************************************************************)
EXTENDS Integers

CONSTANTS
    Word,                           \* 2^32, the range of gravity
    MaxAngle, AngleStep,            \* 90, 2
    MaxPower, PowerStep,            \* 90, 2
    StartX, StartY, Ground,         \* of the ramp's end: 10, 50; what counts as the ground: 10
    SlowX, SlowY, Pull, Brake,      \* a step of x and y, the weight of gravity: 200, 150, 10, 4
    FirstGravity,                   \* 45
    Screen, Top, Low, Right, Below, \* the camera: 190, 8, 100, 208, 10
    Gravities, MaxX, MaxY           \* bounds: how far gravity and a shot are followed

VARIABLE game

Keys == {"none", "right", "left", "up", "down", "esc", "space"}
Splash == [stage |-> "splash"]

Init == game = Splash

splash_screen ==
    /\ game = Splash
    /\ \/ game' = [stage |-> "blue"]
       \/ game' = [stage |-> "play", angle |-> MaxAngle \div 2, x |-> 0, y |-> 0, dx |-> 0, dy |-> 0,
                   fire |-> 0, power |-> 0, fx |-> 0, fy |-> 0, gravity |-> FirstGravity]

AsSigned(n) == IF n % Word >= Word \div 2 THEN (n % Word) - Word ELSE n % Word
Div(a, b) == IF a < 0 THEN -((-a) \div b) ELSE a \div b
Least0(n) == IF n < 0 THEN 0 ELSE n

\* gravity is unsigned; fire is armed, charged and shot by the same key.
Keyed(g, key) ==
    CASE key = "right" -> [g EXCEPT !.angle = @ + AngleStep]
      [] key = "left" -> [g EXCEPT !.angle = @ - AngleStep]
      [] key = "up" -> [g EXCEPT !.gravity = (@ + 1) % Word]
      [] key = "down" -> [g EXCEPT !.gravity = (@ - 1) % Word]
      [] key = "space" /\ g.fire < 3 -> [g EXCEPT !.fire = @ + 1]
      [] OTHER -> g

Clamped(g) ==
    [g EXCEPT !.angle = IF @ >= MaxAngle THEN MaxAngle ELSE Least0(@),
              !.power = IF @ >= MaxPower THEN 0 ELSE @]

\* A shot: the speed it has left, where it flies, and what the ground does to it.
Drawn(dx, gravity) == Least0(AsSigned(dx - gravity))

BrakedNot(dx, gravity) == dx                \* mutant
Braked(dx, gravity) == AsSigned(dx - Brake * gravity)

Landing(g) ==
    LET dx == Braked(g.dx, g.gravity)
    IN  IF g.y > Ground THEN g
        ELSE [g EXCEPT !.dx = dx, !.dy = -@, !.fire = IF dx < 0 THEN 0 ELSE @]

Flight(g) ==
    LET dx == Drawn(g.dx, g.gravity)
        dy == AsSigned(g.dy - Pull * g.gravity)
    IN  Landing([g EXCEPT !.dx = dx, !.dy = dy, !.y = Least0(@ + Div(dy, SlowY)),
                          !.x = @ + Div(dx, SlowX)])

\* dx and dy are not read before fire = 2 writes them: they are forgotten meanwhile.
Fired(g) ==
    CASE g.fire = 0 -> [g EXCEPT !.power = 0, !.fx = 0, !.fy = 0, !.dx = 0, !.dy = 0,
                                 !.x = StartX + g.angle \div 2, !.y = StartY - g.angle \div 2]
      [] g.fire = 1 -> [g EXCEPT !.power = @ + PowerStep]
      [] g.fire = 2 -> Flight([g EXCEPT !.fire = 3, !.dx = g.power * g.angle,
                                        !.dy = g.power * (MaxAngle - g.angle)])
      [] g.fire = 3 -> Flight(g)

\* The camera follows to the right only, up as far as the shot, down as far as the ground.
Follow(g) ==
    LET up == IF Screen - g.y + g.fy < Top THEN Top - Screen + g.y ELSE g.fy
        down == IF Low - Screen + g.y > -Below THEN Low - Screen + g.y ELSE -Below
    IN  [g EXCEPT !.fx = IF g.x - @ > Right THEN g.x - Right ELSE @,
                  !.fy = IF Screen - g.y + up > Low /\ up > -Below THEN down ELSE up]

Frame(key) ==
    /\ game.stage = "play" /\ game.x <= MaxX /\ game.y <= MaxY
    /\ IF key = "esc" THEN game' = Splash
       ELSE \E g \in {Clamped(Keyed(game, key))} :
            /\ g.gravity \in Gravities
            /\ \E h \in {Fired(g)} : game' = Follow(h)

game_loop == \E key \in Keys : Frame(key)

Next == splash_screen \/ game_loop

-----------------------------------------------------------------------------
Flying == game.stage = "play" /\ game.fire = 3
Weightless == game.stage = "play" /\ game.gravity = 0
Followed == game.stage = "play" => game.x <= MaxX /\ game.y <= MaxY
=============================================================================
