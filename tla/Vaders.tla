-------------------------------- MODULE Vaders --------------------------------
(***************************************************************************)
(* roms/chichevaders/vaders.c: one action per frame of its loops.  What    *)
(* the frame draws is left out; game holds the locals of game_loop.        *)
(***************************************************************************)
EXTENDS Integers, FiniteSets

CONSTANTS
    Width, Height,                              \* 320, 200
    MONSTERS_COLS, NB_MONSTERS,                 \* 6, 1
    X_GAP_MONSTERS, FirstX,                     \* 25, 15
    MONSTER_X_BBOX, MONSTER_Y_BBOX,             \* 20, 24
    SEINE_W_X_BBOX, SEINE_W_Y_BBOX,             \* 20, 24
    P_HALF, P_STEP, Gun,                        \* P_SIZE / 2, 5, and P_SIZE / 3
    Shot, Descent, NUM_MOVE,                    \* 5, 2, 10
    Drift                                       \* bound: how far monsters are followed off the screen

VARIABLE game

Keys == {"none", "esc", "enter", "left", "right", "space"}
Splash == [stage |-> "splash"]
Monsters == 0 .. NB_MONSTERS - 1
None == <<-1, -1>>              \* no bullet: both coordinates -1

Init == game = Splash

Start ==
    [stage |-> "play", p |-> Width \div 2, w |-> 2, dw |-> 2, wb |-> None, b |-> None,
     mdx |-> 1, mcnt |-> 0, standby |-> FALSE, fin |-> FALSE, win |-> FALSE,
     dead_monsters |-> 0, kill_seine_w |-> FALSE,
     monsters |-> [i \in Monsters |->
         [x |-> FirstX + (i % MONSTERS_COLS) * (Width \div MONSTERS_COLS),
          y |-> 10 + X_GAP_MONSTERS * (i \div MONSTERS_COLS + 1), alive |-> TRUE]]]

\* Only the image of seine_w is not checked: without it the first frame faults.
splash_screen ==
    /\ game = Splash
    /\ game' \in {[stage |-> "blue"], [stage |-> "fault"], Start}

Active(g) == ~g.standby /\ ~g.fin

\* The key, when it does not end the game: escape takes effect at once.
Keyed(g, key) ==
    LET h == IF key = "esc" THEN [g EXCEPT !.standby = ~@] ELSE g
    IN  IF ~Active(h) THEN h
        ELSE IF key = "left" /\ h.p > P_HALF + P_STEP THEN [h EXCEPT !.p = @ - P_STEP]
        ELSE IF key = "right" /\ h.p < Width - (P_HALF + P_STEP) THEN [h EXCEPT !.p = @ + P_STEP]
        ELSE IF key = "space" /\ h.b = None THEN [h EXCEPT !.b = <<h.p, Height - Gun>>]
        ELSE h

SeineMoves(g) ==
    LET dw == IF g.w >= Width - 1 - MONSTER_X_BBOX \/ g.w <= 1 THEN -g.dw ELSE g.dw
    IN  IF Active(g) THEN [g EXCEPT !.dw = dw, !.w = @ + dw] ELSE g

OverPlayer(g, x) == x \in g.p - P_HALF .. g.p + P_HALF

\* seine_w's bullet flies down and ends the game on the player; a new one is fired even in a pause.
SeineShoots(g) ==
    LET down == IF Active(g) THEN <<g.wb[1], g.wb[2] + Shot>> ELSE g.wb
        hits == Active(g) /\ OverPlayer(g, down[1]) /\ down[2] >= Height - 2 - P_HALF
    IN  IF g.wb # None
          THEN [g EXCEPT !.wb = IF down[2] >= Height THEN None ELSE down,
                         !.fin = @ \/ hits, !.win = @ /\ ~hits]
          ELSE IF OverPlayer(g, g.w) THEN [g EXCEPT !.wb = <<g.w, SEINE_W_Y_BBOX>>] ELSE g

\* The monsters in turn; one that lands ends the game, and the others stay where they are.
RowFlips(i, mdx) == IF i % MONSTERS_COLS = 0 THEN -mdx ELSE mdx

MonsterMoves(g, i) ==
    LET h == [g EXCEPT !.mdx = RowFlips(i, @)]
        y == h.monsters[i].y + IF h.mcnt = NUM_MOVE THEN Descent ELSE 0
        lands == y + MONSTER_Y_BBOX >= Height
    IN  IF ~h.monsters[i].alive \/ ~Active(h) THEN h
        ELSE [h EXCEPT !.monsters[i].y = y, !.monsters[i].x = @ + h.mdx,
                       !.fin = @ \/ lands, !.win = @ /\ ~lands]

\* The step is counted in a pause, too.
Counted(g) ==
    IF g.mcnt + 1 > NUM_MOVE THEN [g EXCEPT !.mdx = -@, !.mcnt = 0] ELSE [g EXCEPT !.mcnt = @ + 1]

March(g) ==
    LET after[n \in 0 .. NB_MONSTERS] == IF n = 0 THEN g ELSE MonsterMoves(after[n - 1], n - 1)
    IN  Counted(after[NB_MONSTERS])

StruckAgain(g, b) ==            \* mutant
    {i \in Monsters : /\ b[1] \in g.monsters[i].x .. g.monsters[i].x + MONSTER_X_BBOX
                      /\ b[2] \in g.monsters[i].y .. g.monsters[i].y + MONSTER_Y_BBOX}

Struck(g, b) ==
    {i \in Monsters : /\ g.monsters[i].alive
                      /\ b[1] \in g.monsters[i].x .. g.monsters[i].x + MONSTER_X_BBOX
                      /\ b[2] \in g.monsters[i].y .. g.monsters[i].y + MONSTER_Y_BBOX}

\* The bullet kills the first monster it strikes; seine_w falls when no monster is left.
Victims(struck) == {i \in struck : \A j \in struck : i <= j}

PlayerShoots(g) ==
    LET b == IF Active(g) THEN <<g.b[1], g.b[2] - Shot>> ELSE g.b
        good == IF Active(g) THEN Victims(Struck(g, b)) ELSE {}
        dead == IF good = {} THEN g.dead_monsters ELSE g.dead_monsters + 1
        kill == g.kill_seine_w \/ (Active(g) /\ dead = NB_MONSTERS)
        wins == /\ Active(g) /\ kill
                /\ b[1] \in g.w .. g.w + SEINE_W_X_BBOX /\ b[2] <= SEINE_W_Y_BBOX
    IN  IF g.b = None THEN g
        ELSE [g EXCEPT !.b = IF good # {} \/ b[2] <= 0 THEN None ELSE b,
                       !.monsters = [i \in Monsters |->
                           IF i \in good THEN [@[i] EXCEPT !.alive = FALSE] ELSE @[i]],
                       !.dead_monsters = dead, !.kill_seine_w = kill,
                       !.fin = @ \/ wins, !.win = @ \/ wins]

Frame(key) ==
    /\ game.stage = "play"
    /\ \A i \in Monsters : game.monsters[i].x \in -Drift .. Width + Drift
    /\ game' = IF key = "enter" /\ (game.standby \/ game.fin) THEN Splash
               ELSE PlayerShoots(March(SeineShoots(SeineMoves(Keyed(game, key)))))

game_loop == \E key \in Keys : Frame(key)

Next == splash_screen \/ game_loop

-----------------------------------------------------------------------------
\* The counter of dead monsters (vaders.c:286-316) is what decides that seine_w can fall: it
\* counts each dead monster once, a player wins only when all are dead, and only by then.
KillsCounted ==
    game.stage = "play" =>
        /\ game.dead_monsters = Cardinality({i \in Monsters : ~game.monsters[i].alive})
        /\ game.kill_seine_w <=> game.dead_monsters = NB_MONSTERS
        /\ game.win => game.fin /\ game.kill_seine_w
=============================================================================
