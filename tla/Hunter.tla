-------------------------------- MODULE Hunter --------------------------------
(***************************************************************************)
(* roms/chichehunter/hunter.c: one action per frame of its loops.  What    *)
(* the frame draws is left out; game holds the locals of game_loop.  The   *)
(* floats are multiples of a tenth, here all lengths are in such a unit.   *)
(***************************************************************************)
EXTENDS Integers, FiniteSets

CONSTANTS
    Width, Height,                          \* of the screen: 320, 200
    Margin, Least,                          \* 10, and 1: the player stays this far inside
    Ground,                                 \* where a monster is gone: 150
    MONSTER_X_BBOX, MONSTER_Y_BBOX,         \* 20, 24
    may,                                    \* a monster's acceleration: 0.1
    les,                                    \* les[i]: where and how fast a monster starts, [x, y, dx, dy]
    NUM_MOVE, NB_MONSTERS,                  \* 20, 20
    Moves                                   \* what the mouse may move by

VARIABLE game

Keys == {"none", "esc", "enter"}
Splash == [stage |-> "splash"]

Init == game = Splash

Start ==
    [stage |-> "play", px |-> Width \div 2, py |-> Height \div 2, can_choot |-> TRUE,
     m |-> [x |-> 0, y |-> 0, dx |-> 0, dy |-> 0], alive |-> FALSE, monsters |-> -1, les_index |-> 0,
     hit |-> [i \in 0 .. NB_MONSTERS - 1 |-> FALSE], dead_monsters |-> 0,
     standby |-> FALSE, fin |-> FALSE]

\* Only the image of the bush is not checked: without it the first frame faults.
splash_screen ==
    /\ game = Splash
    /\ game' \in {[stage |-> "blue"], [stage |-> "fault"], Start}

Active(g) == ~g.standby /\ ~g.fin
Keyed(g, key) == IF key = "esc" THEN [g EXCEPT !.standby = ~@] ELSE g

Within(p, size) ==
    IF p <= Margin THEN Margin + Least
    ELSE IF p >= size - Margin THEN size - Margin - Least ELSE p

\* A shot is fired when the button goes down: holding it down fires no other one.
Shoots(g, button) == Active(g) /\ button /\ g.can_choot

Aimed(g, move, button) ==
    IF ~Active(g) THEN g
    ELSE [g EXCEPT !.px = Within(@ + move[1], Width), !.py = Within(@ - move[2], Height),
                   !.can_choot = ~button]

Gone(m) == m.y > Ground \/ m.x < 0 \/ m.x > Width

\* The write to hit is lost, in the model, when there is no such monster.
MonsterFlies(g) ==
    LET m == [g.m EXCEPT !.dy = @ + may, !.y = @ + g.m.dy + may, !.x = @ + g.m.dx]
        h == IF Active(g) THEN [g EXCEPT !.m = m] ELSE g
    IN  IF Gone(h.m) THEN [h EXCEPT !.alive = FALSE, !.hit[h.monsters] = FALSE] ELSE h

Finished(n) == n = NB_MONSTERS

\* The monster number NB_MONSTERS never flies: with it the game is over.
NextMonster(g) ==
    [g EXCEPT !.alive = TRUE, !.monsters = @ + 1, !.m = les[g.les_index],
              !.les_index = (@ + 1) % NUM_MOVE, !.fin = @ \/ Finished(g.monsters + 1)]

Monster(g) == IF g.alive THEN MonsterFlies(g) ELSE NextMonster(g)

InSight(g) ==
    /\ g.px \in g.m.x .. g.m.x + MONSTER_X_BBOX
    /\ g.py \in g.m.y .. g.m.y + MONSTER_Y_BBOX

Shot(g, choot) ==
    IF Active(g) /\ choot /\ g.alive /\ InSight(g)
      THEN [g EXCEPT !.dead_monsters = @ + 1, !.alive = FALSE, !.hit[g.monsters] = TRUE]
      ELSE g

Frame(key, move, button) ==
    /\ game.stage = "play"
    /\ LET g == Keyed(game, key)
       IN  game' = IF key = "enter" /\ (g.standby \/ g.fin) THEN Splash
                   ELSE Shot(Monster(Aimed(g, move, button)), Shoots(g, button))

game_loop == \E key \in Keys, move \in Moves, button \in BOOLEAN : Frame(key, move, button)

Next == splash_screen \/ game_loop

-----------------------------------------------------------------------------
\* The score of hunter.c:273-281 and the row of hits under it agree: every monster shot is counted
\* once and has its own place in hit, whose index (hunter.c:207, 249) never leaves the array; a
\* monster that was shot does not lose its hit, nor does the last of them fly past the end.
ScoreIsHits ==
    game.stage = "play" =>
        /\ game.dead_monsters = Cardinality({i \in DOMAIN game.hit : game.hit[i]})
        /\ game.alive /\ ~game.fin => game.monsters \in DOMAIN game.hit
        /\ game.fin => ~Gone(game.m)
=============================================================================
