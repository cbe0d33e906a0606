--------------------------------- MODULE Skate ---------------------------------
(***************************************************************************)
(* roms/skate: one action per frame of its loops.  What the frame draws is *)
(* left out, the score with it; game holds the skater and the scrolling.   *)
(* timer1 and timer2 are kept as the frames since, up to the largest value *)
(* they are compared with; scrolling.x modulo the park's loop once past    *)
(* its beginning; combo and score_tmp as whether points are at stake.      *)
(* rotation, scrolling.width and scrolling.current_box are never read.     *)
(***************************************************************************)
EXTENDS Integers, Sequences

CONSTANTS
    BOX_WIDTH, BOX_HEIGHT, RailHeight,      \* 40, 40, 15
    Middle, Half, Feet,                     \* where the skater stays on the screen, half its
                                            \* width, how far its feet reach: 120, 25, 6
    Ground, Step,                           \* y on the ground, the step of x and y: 190, 2
    JumpLeast, JumpMore,                    \* 14, and 8 for each degree of speed
    Stopped, SlowEvery,                     \* freq at rest, the frames between slowdowns: 6, 20
    FlipTime, RotateTime, CrashTime         \* 20, 25, 100

VARIABLE game

Keys == {"none", "space", "right", "down", "left", "up", "esc"}
Splash == [stage |-> "splash"]

park_begin == <<"NO_BOX", "NO_BOX", "NO_BOX", "NO_BOX", "BOX_UP", "BOX", "BOX", "NO_BOX", "NO_BOX", "BOX_UP">>
park_loop == <<"NO_BOX", "BOX_RAIL", "BOX_RAIL", "NO_BOX", "BOX_UP", "BOX", "BOX", "NO_BOX", "NO_BOX", "BOX_UP">>

get_park(box) ==
    IF box < Len(park_begin) THEN park_begin[box + 1]
    ELSE park_loop[((box - Len(park_begin)) % Len(park_loop)) + 1]

\* One loop back, the park looks the same.
Around(x) ==
    IF x < (Len(park_begin) + Len(park_loop)) * BOX_WIDTH THEN x ELSE x - Len(park_loop) * BOX_WIDTH

box_height(slide, x) ==
    LET box == get_park(x \div BOX_WIDTH)
    IN  CASE box = "BOX_UP" -> x % BOX_WIDTH
          [] box = "BOX_RAIL" -> IF slide THEN RailHeight ELSE 0
          [] box = "BOX" -> BOX_HEIGHT
          [] OTHER -> 0

\* Where the floor under the feet is highest, the leftmost of such places.
skater_height(slide, pos) ==
    LET feet == pos - Feet .. pos + Feet - 1
    IN  CHOOSE x \in feet : \A z \in feet :
            \/ box_height(slide, z) < box_height(slide, x)
            \/ box_height(slide, z) = box_height(slide, x) /\ z >= x

Init == game = Splash

\* skater_init and scroll_init.
Start ==
    [stage |-> "play", x |-> 0, y |-> Ground, fly |-> FALSE, jump |-> 0, trick_delay |-> 0,
     trick |-> "RUN", slide |-> FALSE, stake |-> FALSE, current_box |-> 0,
     scroll |-> 0, freq |-> Stopped, timer1 |-> 0, timer2 |-> 0]

\* No image is checked: without the logo or an animation the game faults when it draws it.
splash_screen ==
    /\ game = Splash
    /\ game' \in {[stage |-> "fault"], Start}

skater_jump(g) ==
    IF g.fly \/ g.jump # 0 THEN g
    ELSE [g EXCEPT !.jump = g.y - JumpLeast - JumpMore * (Stopped - g.freq)]

Flies(g, trick, time) ==
    IF g.trick_delay # 0 \/ ~g.fly THEN g
    ELSE [g EXCEPT !.trick = trick, !.trick_delay = time, !.stake = TRUE]

skater_slide(g) ==
    IF g.trick_delay # 0 \/ get_park(g.current_box) # "BOX_RAIL" \/ g.freq >= Stopped THEN g
    ELSE [g EXCEPT !.slide = TRUE, !.trick = "SLIDE", !.stake = TRUE]

scroll_speedup(freq) == IF freq <= 2 THEN 0 ELSE freq - 2
scroll_slowdown(freq) == IF freq >= Stopped THEN Stopped ELSE freq + 1

\* No key is read while a trick lasts, and none at all while the skater lies on the ground.
Keyed(g, key) ==
    CASE g.trick_delay # 0 -> g
      [] g.trick_delay = 0 /\ key = "space" -> skater_jump(g)
      [] g.trick_delay = 0 /\ key = "right" -> [g EXCEPT !.freq = scroll_speedup(@)]
      [] g.trick_delay = 0 /\ key = "down" -> skater_slide(g)
      [] g.trick_delay = 0 /\ key = "left" -> Flies(g, "ROTATE", RotateTime)
      [] g.trick_delay = 0 /\ key = "up" -> Flies(g, "FLIP", FlipTime)
      [] OTHER -> g

CrashesAgain(g) == ~g.fly /\ g.trick_delay # 0      \* mutant
Crashes(g) == ~g.fly /\ g.trick_delay # 0 /\ g.trick # "CRASH"

skater_crash(g) == [g EXCEPT !.trick_delay = CrashTime, !.trick = "CRASH", !.stake = FALSE]

Rises(g) ==
    LET y == g.y - Step
    IN  [g EXCEPT !.y = y, !.jump = IF y <= @ THEN 0 ELSE @]

Falls(g, floor) == [g EXCEPT !.y = IF @ < floor THEN @ + Step ELSE floor]

skater_height_update(g, floor) ==
    LET moved == IF g.jump # 0 THEN Rises(g) ELSE Falls(g, floor)
    IN  [moved EXCEPT !.fly = moved.y < floor]

CrashOrNot(g) == IF Crashes(g) THEN skater_crash(g) ELSE g

Rolling(g) == IF g.freq < Stopped THEN "RUN" ELSE "NONE"

skater_anim(g) ==
    LET delay == IF g.trick_delay = 0 THEN 0 ELSE g.trick_delay - 1
        trick == CASE delay # 0 -> g.trick
                   [] delay = 0 /\ g.fly -> "NONE"
                   [] delay = 0 /\ ~g.fly /\ get_park(g.current_box) = "BOX_UP" -> "UP"
                   [] delay = 0 /\ ~g.fly /\ get_park(g.current_box) = "BOX_RAIL" /\ g.slide -> g.trick
                   [] OTHER -> Rolling(g)
    IN  [g EXCEPT !.trick_delay = delay, !.trick = trick]

\* What is at stake is paid on the ground.
Paid(g) ==
    IF g.trick_delay = 0 /\ ~g.slide /\ ~g.fly /\ g.trick # "CRASH" THEN [g EXCEPT !.stake = FALSE] ELSE g

\* The box under the feet; only a rail can be slid on.
OnBox(g, max_x) ==
    LET box == max_x \div BOX_WIDTH
    IN  [g EXCEPT !.current_box = box, !.slide = @ /\ get_park(box) = "BOX_RAIL"]

Slowed(g) ==
    IF g.slide \/ g.timer1 < SlowEvery THEN g
    ELSE [g EXCEPT !.timer1 = 0, !.freq = scroll_slowdown(@)]

Scrolled(g) ==
    CASE g.timer2 < g.freq -> g
      [] g.timer2 >= g.freq /\ g.freq = Stopped -> [g EXCEPT !.timer2 = 0]
      [] g.timer2 >= g.freq /\ g.freq < Stopped /\ g.x < Middle ->
             [g EXCEPT !.timer2 = 0, !.x = @ + Step]
      [] OTHER -> [g EXCEPT !.timer2 = 0, !.scroll = Around(@ + Step)]

Later(age, limit) == IF age < limit THEN age + 1 ELSE age

\* jiffies++, then scroll.
scroll(g) ==
    Scrolled(Slowed([g EXCEPT !.timer1 = Later(@, SlowEvery), !.timer2 = Later(@, Stopped)]))

\* skater_draw, then the end of the frame.
Frame(key) ==
    /\ game.stage = "play"
    /\ IF key = "esc" /\ game.trick_delay = 0 THEN game' = Splash
       ELSE \E g \in {Keyed(game, key)} :
            \E max_x \in {skater_height(g.slide, g.x + Half + g.scroll)} :
            \E h \in {OnBox(g, max_x)} :
            \E moved \in {skater_height_update(h, Ground - box_height(h.slide, max_x))} :
            \E drawn \in {skater_anim(CrashOrNot(moved))} :
            game' = scroll(Paid(drawn))

game_loop == \E key \in Keys : Frame(key)

Next == splash_screen \/ game_loop

-----------------------------------------------------------------------------
Waiting == game.stage = "play" /\ game.trick_delay # 0
Flying == game.stage = "play" /\ game.fly
=============================================================================
