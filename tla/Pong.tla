--------------------------------- MODULE Pong ---------------------------------
(***************************************************************************)
(* roms/chichepong/pong.c: one action per frame of its loops.  What the    *)
(* frame draws is left out; game holds the locals of game_loop.            *)
(***************************************************************************)
EXTENDS Integers

CONSTANTS
    Width, Height,      \* the screen: 320, 200
    Bar, BarStep,       \* half a player's bar and its step: 20, 5
    Edge,               \* the width of the bars' columns: 10
    Radius,             \* the ball's distance from the upper and the lower edge: 8
    Reach, Skill,       \* half of the ball against the bars: 5, and the player's margin: 3
    Speed, FastSpeed,   \* of the first ball and of the others: 2, 3
    Standby             \* the frames before a ball moves: 80

VARIABLE game

Keys == {"none", "up", "down", "esc"}
Splash == [stage |-> "splash"]
Stopped == [stage |-> "blue"]

Serve(speed) ==
    [stage |-> "play", player1 |-> Height \div 2, x |-> Width \div 2, y |-> Height \div 2,
     dx |-> speed, dy |-> speed, standby |-> Standby]

Init == game = Splash

\* The splash screen ends at any key; an image that is not loaded ends in the blue screen.
splash_screen ==
    /\ game = Splash
    /\ game' \in {Stopped, Serve(Speed)}

Clamped(p) ==
    LET q == IF p + Bar >= Height THEN Height - Bar - 1 ELSE p
    IN  IF q - Bar < 0 THEN Bar ELSE q

\* No key is read while the ball stands by.
Moved(g, key) ==
    LET p == IF g.standby # 0 THEN g.player1
             ELSE IF key = "down" THEN g.player1 + BarStep
             ELSE IF key = "up" THEN g.player1 - BarStep
             ELSE g.player1
    IN  [g EXCEPT !.player1 = Clamped(p),
                  !.x = IF g.standby = 0 THEN @ + g.dx ELSE @,
                  !.y = IF g.standby = 0 THEN @ + g.dy ELSE @]

Edges(g) ==
    LET low == IF g.y + Radius >= Height THEN [g EXCEPT !.y = Height - Radius - 1, !.dy = -@] ELSE g
    IN  IF low.y - Radius < 0 THEN [low EXCEPT !.y = Radius, !.dy = -@] ELSE low

StandbyForever(n) == n          \* mutant
StandbyNext(n) == IF n = 0 THEN 0 ELSE n - 1

\* The computer's bar is where the ball is: it never misses.
RightBar(g) == IF g.x + Reach >= Width - Edge - 1 THEN [g EXCEPT !.dx = -@] ELSE g

Catches(g) == g.player1 - Bar < g.y + Skill /\ g.player1 + Bar > g.y - Skill

LeftBar(g) ==
    IF g.x - Reach >= Edge THEN g
    ELSE IF Catches(g) THEN [g EXCEPT !.dx = -@]
    ELSE Serve(FastSpeed)

Frame(key) ==
    /\ game.stage = "play"
    /\ game' = IF key = "esc" /\ game.standby = 0 THEN Splash
               ELSE LET g == Edges(Moved(game, key))
                    IN  LeftBar(RightBar([g EXCEPT !.standby = StandbyNext(@)]))

game_loop == \E key \in Keys : Frame(key)

Next == splash_screen \/ game_loop

-----------------------------------------------------------------------------
OnTheRight == game.stage = "play" /\ game.x >= Width \div 2
OnTheLeft == game.stage = "play" /\ game.x < Width \div 2
=============================================================================
