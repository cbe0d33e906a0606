------------------------------- MODULE Yakanoid -------------------------------
(***************************************************************************)
(* roms/yakanoid/yakanoid.c: one action per frame of its loops.  What the  *)
(* frame draws is left out, and the score with it.                         *)
(***************************************************************************)
EXTENDS Integers

CONSTANTS
    Rows, Cols,                 \* of mtrx: 5, 10
    BrickWidth, BrickHeight,    \* 20, 12
    Wall, StartX,               \* x of the left wall and of the first ball: 10, 105
    Radius,                     \* of the ball: 5
    BarHalf, BarStep, BarY,     \* the bar: 25, 10, 190
    Lives,                      \* 3
    Above                       \* bound: how far above the screen the ball is followed

VARIABLE game

Keys == {"none", "left", "right", "esc"}
Splash == [stage |-> "splash"]
RightWall == Wall + Cols * BrickWidth

\* mtrx lies row after row: column Cols of a row is the first brick of the next.
Bricks == 0 .. Rows * Cols - 1

Start == [pos |-> StartX, x |-> StartX, y |-> BarY - 2 * Radius, dx |-> 1, dy |-> -1]

Init == game = Splash

\* An image that is not loaded is drawn all the same: a fault.
splash_screen ==
    /\ game = Splash
    /\ \/ game' = [stage |-> "fault"]
       \/ game' = [stage |-> "play", mtrx |-> [b \in Bricks |-> 1], ball |-> Start, lives |-> Lives]

\* The division of C goes towards 0.
Div(a, b) == IF a < 0 THEN -((-a) \div b) ELSE a \div b

\* The bar is kept inside the walls whenever a key was read.
Steered(pos, key) ==
    LET p == IF key = "right" THEN pos + BarStep ELSE IF key = "left" THEN pos - BarStep ELSE pos
        q == IF p - BarHalf < Wall THEN Wall + BarHalf ELSE p
    IN  IF key = "none" THEN pos ELSE IF q + BarHalf >= RightWall THEN RightWall - BarHalf ELSE q

Steer(ball, key) == [ball EXCEPT !.pos = Steered(ball.pos, key)]

\* Both walls turn the ball round; nothing does above the bricks.
Flight(ball) ==
    LET x == ball.x + ball.dx
    IN  [ball EXCEPT !.x = x, !.y = @ + ball.dy,
                     !.dx = IF (x + Radius >= RightWall) # (x - Radius < Wall) THEN -@ ELSE @]

FlatIndex(by, bx) == by * Cols + bx

\* The bricks under the left and the right end of the ball, as positions in mtrx.
Hit(ball) ==
    LET by == Div(ball.y - BrickHeight, BrickHeight)
    IN  {FlatIndex(by, Div(ball.x - Radius - Wall, BrickWidth)),
         FlatIndex(by, Div(ball.x + Radius - Wall, BrickWidth))}

AmongBricksShort(ball) == ball.y + Radius < Rows * BrickHeight      \* mutant
AmongBricks(ball) == ball.y + Radius < (Rows + 1) * BrickHeight

\* Outside of mtrx the ball reads what lies there: anything.
Struck(mtrx, ball, junk) ==
    AmongBricks(ball) /\ \E b \in Hit(ball) : IF b \in Bricks THEN mtrx[b] # 0 ELSE junk

AfterBricks(g, junk) ==
    IF Struck(g.mtrx, g.ball, junk)
      THEN [g EXCEPT !.ball.dy = -@,
                     !.mtrx = [b \in Bricks |-> IF b \in Hit(g.ball) THEN 0 ELSE g.mtrx[b]]]
      ELSE g

\* Both places are cleared, though one of them may lie outside of mtrx.
Strays(g, junk) == Struck(g.mtrx, g.ball, junk) /\ ~(Hit(g.ball) \subseteq Bricks)

\* At the bar's height the ball is caught or a life lost; the last one ends the game.
AfterBar(g) ==
    IF g.ball.y + Radius < BarY THEN g
    ELSE IF /\ g.ball.x + Radius >= g.ball.pos - BarHalf
            /\ g.ball.x - Radius <= g.ball.pos + BarHalf
      THEN [g EXCEPT !.ball.dy = -@]
    ELSE IF g.lives = 1 THEN Splash
    ELSE [g EXCEPT !.lives = @ - 1, !.ball = Start]

Flown(key) == [game EXCEPT !.ball = Flight(Steer(@, key))]

\* What a stray write hits is nothing that matters here, or else there is no saying what follows.
Frame(key, junk) ==
    /\ game.stage = "play" /\ game.ball.y > -Above
    /\ \/ key = "esc" /\ game' = Splash
       \/ key # "esc" /\ game' = AfterBar(AfterBricks(Flown(key), junk))
       \/ key # "esc" /\ Strays(Flown(key), junk) /\ game' = [Flown(key) EXCEPT !.stage = "stray"]

game_loop == \E key \in Keys, junk \in BOOLEAN : Frame(key, junk)

Next == splash_screen \/ game_loop

-----------------------------------------------------------------------------
\* The indices of yakanoid.c:129-139 are not tested.  They leave mtrx in two places only: in the
\* lowest row, where a ball that touches the right wall takes the place behind the last brick for
\* one; and above the bricks, which are all that stops the ball there, so that it comes there only
\* when every row has a gap.
StraysOnlyWhere ==
    game.stage \in {"play", "stray"} /\ AmongBricks(game.ball) =>
        LET by == Div(game.ball.y - BrickHeight, BrickHeight)
        IN  \/ Hit(game.ball) \subseteq Bricks
            \/ /\ by = Rows - 1 /\ game.ball.x + Radius = RightWall
               /\ Hit(game.ball) \subseteq Bricks \cup {Rows * Cols}
            \/ /\ by < 0
               /\ \A row \in 0 .. Rows - 1 : \E col \in 0 .. Cols - 1 : game.mtrx[row * Cols + col] = 0
=============================================================================
