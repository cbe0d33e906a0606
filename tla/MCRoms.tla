------------------------------- MODULE MCRoms -------------------------------
(* Small games: the screens, the speeds and the numbers of bricks,         *)
(* monsters and boxes are scaled down.                                     *)
EXTENDS Roms

SmallYakanoid == [Rows |-> 2, Cols |-> 2, BrickWidth |-> 4, BrickHeight |-> 3,
    Wall |-> 2, StartX |-> 5, Radius |-> 1, BarHalf |-> 2, BarStep |-> 2, BarY |-> 13,
    Lives |-> 2, Above |-> 4]

SmallVaders == [Width |-> 8, Height |-> 24, MONSTERS_COLS |-> 2, NB_MONSTERS |-> 1,
    X_GAP_MONSTERS |-> 1, FirstX |-> 1, MONSTER_X_BBOX |-> 2, MONSTER_Y_BBOX |-> 3,
    SEINE_W_X_BBOX |-> 3, SEINE_W_Y_BBOX |-> 8, P_HALF |-> 1, P_STEP |-> 2, Gun |-> 2,
    Shot |-> 5, Descent |-> 3, NUM_MOVE |-> 2, Drift |-> 0]

SmallHunter == [Width |-> 12, Height |-> 10, Margin |-> 1, Least |-> 1, Ground |-> 6,
    MONSTER_X_BBOX |-> 2, MONSTER_Y_BBOX |-> 2, may |-> 1, NUM_MOVE |-> 2,
    NB_MONSTERS |-> 3,
    \* Where the monsters start, and how the mouse moves.
    les |-> [i \in 0 .. 1 |-> IF i = 0 THEN [x |-> 0, y |-> 4, dx |-> 2, dy |-> -2]
                              ELSE [x |-> 12, y |-> 3, dx |-> -2, dy |-> -1]],
    Moves |-> {<<0, 0>>, <<-3, 0>>, <<3, 0>>, <<0, 2>>, <<0, -2>>}]
=============================================================================
