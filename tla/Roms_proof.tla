------------------------------ MODULE Roms_proof ------------------------------
(***************************************************************************)
(* Of the ROMs, for screens, speeds and numbers of bricks and monsters     *)
(* that are only as restricted as Roms says: what the vaders and the       *)
(* hunter count is what was hit, and the ball of yakanoid is above the     *)
(* bricks only through gaps in all rows.                                   *)
(***************************************************************************)
EXTENDS Roms, FiniteSetTheorems, WellFoundedInduction, TLAPS

-----------------------------------------------------------------------------
(* What the recursive definitions compute                                  *)

(* A non-empty set of numbers has a least member.                          *)
LEMMA LeastExists ==
    ASSUME NEW S \in SUBSET Nat, S # {}
    PROVE  \E k \in S : \A j \in S : k <= j
<1> DEFINE T == {0 .. x : x \in S}
<1>1. IsWellFoundedOn(StrictSubsetOrdering(Nat), FiniteSubsetsOf(Nat))
  BY FS_StrictSubsetOrderingWellFounded
<1>2. T \subseteq FiniteSubsetsOf(Nat)
  <2>1. ASSUME NEW x \in S  PROVE IsFiniteSet(0 .. x) /\ 0 .. x \subseteq Nat
    BY FS_Interval
  <2> QED
    BY <2>1 DEF FiniteSubsetsOf
<1>3. PICK I \in T : \A J \in T : ~(<<J, I>> \in StrictSubsetOrdering(Nat))
  <2>1. T # {}
    OBVIOUS
  <2> QED
    BY <1>1, <1>2, <2>1, WFMin
<1>4. PICK i \in S : I = 0 .. i
  OBVIOUS
<1>5. ASSUME NEW j \in S, j < i  PROVE FALSE
  <2>1. 0 .. j \in T /\ 0 .. j \subseteq I /\ 0 .. j # I /\ 0 .. j \subseteq Nat
    BY <1>4, <1>5
  <2>2. <<0 .. j, I>> \in StrictSubsetOrdering(Nat)
    BY <1>4, <2>1 DEF StrictSubsetOrdering
  <2> QED
    BY <1>3, <2>1, <2>2
<1> QED
  BY <1>5

(* Two functions that begin alike and continue alike end alike.            *)
LEMMA SameFromStart ==
    ASSUME NEW N \in Nat, NEW f, NEW g, f[0] = g[0],
           \A i \in 1 .. N : f[i - 1] = g[i - 1] => f[i] = g[i]
    PROVE  f[N] = g[N]
<1> DEFINE Bad == {i \in 0 .. N : f[i] # g[i]}
<1>1. ASSUME Bad # {}  PROVE FALSE
  <2>1. Bad \in SUBSET Nat
    OBVIOUS
  <2> HIDE DEF Bad
  <2>2. PICK k \in Bad : \A j \in Bad : k <= j
    BY <1>1, <2>1, LeastExists
  <2>3. k \in 0 .. N /\ f[k] # g[k]
    BY DEF Bad
  <2>4. k \in 1 .. N /\ k - 1 \in 0 .. N /\ ~(k <= k - 1)
    BY <2>3
  <2>5. f[k - 1] = g[k - 1]
    BY <2>2, <2>4 DEF Bad
  <2> QED
    BY <2>3, <2>4, <2>5
<1> QED
  BY <1>1

(* A loop of N rounds, each of which takes what is good before it to what  *)
(* is good after it.                                                       *)
LEMMA Induct ==
    ASSUME NEW N \in Nat, NEW S, 0 \in S, \A i \in 1 .. N : i - 1 \in S => i \in S
    PROVE  0 .. N \subseteq S
  <1> DEFINE Bad == {i \in 0 .. N : i \notin S}
  <1>1. ASSUME Bad # {}  PROVE FALSE
    <2>1. Bad \in SUBSET Nat
      OBVIOUS
    <2> HIDE DEF Bad
    <2>2. PICK k \in Bad : \A j \in Bad : k <= j
      BY <1>1, <2>1, LeastExists
    <2>3. k \in 0 .. N /\ k \notin S
      BY DEF Bad
    <2>4. k \in 1 .. N /\ k - 1 \in 0 .. N /\ ~(k <= k - 1)
      BY <2>3
    <2>5. k - 1 \in S
      BY <2>2, <2>4 DEF Bad
    <2> QED
      BY <2>3, <2>4, <2>5
  <1> QED
    BY <1>1

Steps(N, V, v, St, Good) ==
    /\ v \in V /\ <<0, v>> \in Good
    /\ \A i \in 1 .. N : \A x \in V :
          <<i - 1, x>> \in Good => St[<<i, x>>] \in V /\ <<i, St[<<i, x>>]>> \in Good

Goes(g, N, V, v, St, Good) ==
    /\ g \in [0 .. N -> V] /\ g[0] = v
    /\ \A i \in 1 .. N : g[i] = St[<<i, g[i - 1]>>]
    /\ \A i \in 0 .. N : <<i, g[i]>> \in Good

LEMMA LoopRuns ==
    ASSUME NEW N \in Nat, NEW V, NEW v, NEW St, NEW Good, Steps(N, V, v, St, Good)
    PROVE  \E g : Goes(g, N, V, v, St, Good)
  <1> DEFINE Runs(g, n) == /\ g[0] = v /\ \A i \in 1 .. n : g[i] = St[<<i, g[i - 1]>>]
                           /\ \A i \in 0 .. n : <<i, g[i]>> \in Good
             S == {n \in 0 .. N : \E g \in [0 .. n -> V] : Runs(g, n)}
  <1>4. v \in V /\ <<0, v>> \in Good
    BY DEF Steps
  <1>1. 0 \in S
    <2> DEFINE h == [i \in 0 .. 0 |-> v]
    <2>1. h \in [0 .. 0 -> V] /\ h[0] = v /\ 0 \in 0 .. N
      BY <1>4
    <2>2. 1 .. 0 = {} /\ 0 .. 0 = {0}
      OBVIOUS
    <2> HIDE DEF h
    <2>3. Runs(h, 0)
      BY <1>4, <2>1, <2>2
    <2> QED
      BY <2>1, <2>3
  <1>2. ASSUME NEW n \in 1 .. N, n - 1 \in S  PROVE n \in S
    <2>1. PICK g \in [0 .. n - 1 -> V] : Runs(g, n - 1)
      BY <1>2
    <2>2. n - 1 \in 0 .. n - 1 /\ n \in 0 .. N
      BY <1>2
    <2> DEFINE y == St[<<n, g[n - 1]>>]
               h == [i \in 0 .. n |-> IF i < n THEN g[i] ELSE y]
    <2>3. y \in V /\ <<n, y>> \in Good
      BY <1>2, <2>1, <2>2 DEF Steps
    <2> HIDE DEF y
    <2>4. h \in [0 .. n -> V] /\ h[n] = y /\ \A i \in 0 .. n - 1 : h[i] = g[i]
      BY <2>2, <2>3
    <2> HIDE DEF h
    <2>5. \A i \in 1 .. n : i = n \/ (i \in 1 .. n - 1 /\ i \in 0 .. n - 1)
      OBVIOUS
    <2>6. \A i \in 1 .. n : i - 1 \in 0 .. n - 1
      OBVIOUS
    <2>7. \A i \in 1 .. n : h[i] = St[<<i, h[i - 1]>>]
      <3>1. h[n] = St[<<n, h[n - 1]>>]
        BY <2>2, <2>4 DEF y
      <3>2. \A i \in 1 .. n - 1 : g[i] = St[<<i, g[i - 1]>>]
        BY <2>1
      <3> QED
        BY <2>4, <2>5, <2>6, <3>1, <3>2
    <2>8. \A i \in 0 .. n : <<i, h[i]>> \in Good
      <3>1. \A i \in 0 .. n : i = n \/ i \in 0 .. n - 1
        OBVIOUS
      <3> QED
        BY <2>1, <2>3, <2>4, <3>1
    <2>9. h[0] = v
      BY <2>1, <2>4
    <2> QED
      BY <2>2, <2>4, <2>7, <2>8, <2>9
  <1> HIDE DEF S
  <1>3. N \in S
    <2>1. 0 .. N \subseteq S
      BY <1>1, <1>2, Induct
    <2> QED
      BY <2>1
  <1> QED
    BY <1>3 DEF S, Goes

LEMMA SameFunction ==
    ASSUME NEW A, NEW S, NEW f \in [A -> S], NEW g \in [A -> S], \A i \in A : f[i] = g[i]
    PROVE  f = g
  OBVIOUS

-----------------------------------------------------------------------------
(* The vaders                                                              *)

NbVaders == vaders.NB_MONSTERS
VMonster == [x : Int, y : Int, alive : BOOLEAN]

VPlay ==
    [stage : {"play"}, p : Int, w : Int, dw : Int, wb : Int \X Int, b : Int \X Int,
     mdx : Int, mcnt : Int, standby : BOOLEAN, fin : BOOLEAN, win : BOOLEAN,
     dead_monsters : Nat, kill_seine_w : BOOLEAN, monsters : [0 .. NbVaders - 1 -> VMonster]]

Dead(g) == {i \in 0 .. NbVaders - 1 : ~g.monsters[i].alive}

VCounted(g) ==
    /\ g \in VPlay
    /\ g.dead_monsters = Cardinality(Dead(g))
    /\ g.kill_seine_w <=> g.dead_monsters = NbVaders
    /\ g.win => g.fin /\ g.kill_seine_w

VCounts == game.stage \in {"splash", "blue", "fault"} \/ VCounted(game)

LEMMA VadersTyped ==
    /\ NbVaders \in Nat \ {0} /\ vaders.MONSTERS_COLS \in Nat \ {0}
    /\ vaders.Width \in Int /\ vaders.Height \in Int /\ vaders.X_GAP_MONSTERS \in Int
    /\ vaders.FirstX \in Int /\ vaders.MONSTER_X_BBOX \in Int /\ vaders.MONSTER_Y_BBOX \in Int
    /\ vaders.SEINE_W_X_BBOX \in Int /\ vaders.SEINE_W_Y_BBOX \in Int /\ vaders.P_HALF \in Int
    /\ vaders.P_STEP \in Int /\ vaders.Gun \in Int /\ vaders.Shot \in Int
    /\ vaders.Descent \in Int /\ vaders.NUM_MOVE \in Int
  BY VadersAssumption DEF NbVaders

LEMMA DeadFinite == ASSUME NEW g
                    PROVE  IsFiniteSet(Dead(g)) /\ Cardinality(Dead(g)) \in 0 .. NbVaders
  <1>1. IsFiniteSet(0 .. NbVaders - 1) /\ Cardinality(0 .. NbVaders - 1) = NbVaders
    <2>1. NbVaders - 1 \in Int /\ 0 <= NbVaders - 1 /\ NbVaders - 1 - 0 + 1 = NbVaders
      BY VadersTyped
    <2> QED
      BY <2>1, FS_Interval
  <1>2. IsFiniteSet(Dead(g)) /\ Cardinality(Dead(g)) <= NbVaders
    BY <1>1, FS_Subset DEF Dead
  <1> QED
    BY <1>2, FS_CardinalityType, VadersTyped

(* Everything but the player's bullet leaves what is counted alone.        *)
Spares(g, h) ==
    /\ h.dead_monsters = g.dead_monsters /\ h.kill_seine_w = g.kill_seine_w
    /\ g.fin => h.fin
    /\ h.win => g.win
    /\ \A i \in 0 .. NbVaders - 1 : h.monsters[i].alive = g.monsters[i].alive

LEMMA SparesCounted == ASSUME NEW g, VCounted(g), NEW h \in VPlay, Spares(g, h)
                       PROVE  VCounted(h)
  <1>1. Dead(h) = Dead(g)
    BY DEF Dead, Spares
  <1> QED
    BY <1>1 DEF VCounted, Spares

LEMMA VStart == VCounted(Vaders!Start)
  <1>1. Vaders!Monsters = 0 .. NbVaders - 1
    BY DEF Vaders!Monsters, NbVaders
  <1>2. ASSUME NEW i \in 0 .. NbVaders - 1
        PROVE  /\ vaders.FirstX
                     + (i % vaders.MONSTERS_COLS) * (vaders.Width \div vaders.MONSTERS_COLS) \in Int
               /\ 10 + vaders.X_GAP_MONSTERS * (i \div vaders.MONSTERS_COLS + 1) \in Int
    BY VadersTyped
  <1>3. vaders.Width \div 2 \in Int
    BY VadersTyped
  <1>4. Vaders!Start \in VPlay
    BY <1>1, <1>2, <1>3 DEF Vaders!Start, VPlay, VMonster, Vaders!None
  <1>5. Dead(Vaders!Start) = {}
    BY <1>1 DEF Dead, Vaders!Start
  <1>6. Vaders!Start.dead_monsters = Cardinality(Dead(Vaders!Start))
    BY <1>5, FS_EmptySet DEF Vaders!Start
  <1> QED
    BY <1>4, <1>6, VadersTyped DEF VCounted, Vaders!Start

LEMMA VKeyed == ASSUME NEW g, VCounted(g), NEW key PROVE VCounted(Vaders!Keyed(g, key))
  <1> DEFINE h == IF key = "esc" THEN [g EXCEPT !.standby = ~@] ELSE g
             k == Vaders!Keyed(g, key)
  <1>1. g \in VPlay
    BY DEF VCounted
  <1>2. h \in VPlay /\ Spares(g, h)
    BY <1>1 DEF VPlay, Spares
  <1>3. k \in {h, [h EXCEPT !.p = @ - vaders.P_STEP], [h EXCEPT !.p = @ + vaders.P_STEP],
               [h EXCEPT !.b = <<h.p, vaders.Height - vaders.Gun>>]}
    BY DEF Vaders!Keyed
  <1> HIDE DEF h, k
  <1>5. h.p \in Int /\ h.p - vaders.P_STEP \in Int /\ h.p + vaders.P_STEP \in Int
        /\ <<h.p, vaders.Height - vaders.Gun>> \in Int \X Int
    <2>1. h.p \in Int
      BY <1>2 DEF VPlay
    <2> QED
      BY <2>1, VadersTyped
  <1>6. \A i \in Int : [h EXCEPT !.p = i] \in VPlay /\ Spares(h, [h EXCEPT !.p = i])
    BY <1>2 DEF VPlay, Spares
  <1>7. \A b \in Int \X Int : [h EXCEPT !.b = b] \in VPlay /\ Spares(h, [h EXCEPT !.b = b])
    BY <1>2 DEF VPlay, Spares
  <1>4. k \in VPlay /\ Spares(h, k)
    <2>1. Spares(h, h)
      BY DEF Spares
    <2> QED
      BY <1>2, <1>3, <1>5, <1>6, <1>7, <2>1
  <1> QED
    BY <1>2, <1>4, SparesCounted DEF k

LEMMA VSeineMoves == ASSUME NEW g, VCounted(g) PROVE VCounted(Vaders!SeineMoves(g))
  <1> DEFINE dw == IF g.w >= vaders.Width - 1 - vaders.MONSTER_X_BBOX \/ g.w <= 1 THEN -g.dw
                   ELSE g.dw
             h == [g EXCEPT !.dw = dw, !.w = @ + dw]
  <1>1. g \in VPlay /\ g.w \in Int /\ g.dw \in Int
    BY DEF VCounted, VPlay
  <1>2. dw \in Int
    BY <1>1
  <1>3. Vaders!SeineMoves(g) \in {g, h}
    BY DEF Vaders!SeineMoves
  <1> HIDE DEF dw
  <1>5. g.w + dw \in Int
    BY <1>1, <1>2
  <1>6. PICK u \in Int : u = g.w + dw
    BY <1>5
  <1>7. h = [g EXCEPT !.dw = dw, !.w = u]
    BY <1>1, <1>6 DEF VPlay
  <1>4. h \in VPlay /\ Spares(g, h)
    BY <1>1, <1>2, <1>7 DEF VPlay, Spares
  <1> HIDE DEF h
  <1> QED
    BY <1>1, <1>3, <1>4, SparesCounted

LEMMA VSeineShoots == ASSUME NEW g, VCounted(g) PROVE VCounted(Vaders!SeineShoots(g))
  <1> DEFINE down == IF Vaders!Active(g) THEN <<g.wb[1], g.wb[2] + vaders.Shot>> ELSE g.wb
             hits == /\ Vaders!Active(g) /\ Vaders!OverPlayer(g, down[1])
                     /\ down[2] >= vaders.Height - 2 - vaders.P_HALF
             to == IF down[2] >= vaders.Height THEN Vaders!None ELSE down
             fin == g.fin \/ hits
             win == g.win /\ ~hits
             h == [g EXCEPT !.wb = to, !.fin = fin, !.win = win]
             k == [g EXCEPT !.wb = <<g.w, vaders.SEINE_W_Y_BBOX>>]
  <1>1. g \in VPlay /\ g.w \in Int /\ g.wb \in Int \X Int /\ g.fin \in BOOLEAN /\ g.win \in BOOLEAN
    BY DEF VCounted, VPlay
  <1>2. down \in Int \X Int
    BY <1>1, VadersTyped
  <1>3. Vaders!SeineShoots(g) \in {g, h, k}
    BY <1>1 DEF Vaders!SeineShoots, VPlay
  <1>4. fin \in BOOLEAN /\ win \in BOOLEAN /\ (g.fin => fin) /\ (win => g.win)
    OBVIOUS
  <1> HIDE DEF down
  <1>5. to \in Int \X Int
    BY <1>2 DEF Vaders!None
  <1> HIDE DEF hits, to, fin, win
  <1>6. h \in VPlay /\ Spares(g, h)
    BY <1>1, <1>4, <1>5 DEF VPlay, Spares
  <1>7. k \in VPlay /\ Spares(g, k)
    BY <1>1, VadersTyped DEF VPlay, Spares
  <1> HIDE DEF h, k
  <1> QED
    BY <1>1, <1>3, <1>6, <1>7, SparesCounted

(* A monster that moves stays alive; it may end the game, but not win it.  *)
LEMMA VMoves == ASSUME NEW g, VCounted(g), NEW i \in 0 .. NbVaders - 1
                PROVE  VCounted(Vaders!MonsterMoves(g, i))
  <1> DEFINE m == Vaders!RowFlips(i, g.mdx)
             h == [g EXCEPT !.mdx = Vaders!RowFlips(i, @)]
             y == h.monsters[i].y + IF h.mcnt = vaders.NUM_MOVE THEN vaders.Descent ELSE 0
             x == h.monsters[i].x + h.mdx
             lands == y + vaders.MONSTER_Y_BBOX >= vaders.Height
             fin == h.fin \/ lands
             win == h.win /\ ~lands
             row == [h.monsters EXCEPT ![i] = [@ EXCEPT !.y = y, !.x = x]]
             k == [h EXCEPT !.monsters[i].y = y, !.monsters[i].x = @ + h.mdx,
                            !.fin = @ \/ lands, !.win = @ /\ ~lands]
  <1>1. g \in VPlay /\ g.mdx \in Int
    BY DEF VCounted, VPlay
  <1>2. m \in Int
    BY <1>1 DEF Vaders!RowFlips
  <1>3. h = [g EXCEPT !.mdx = m]
    BY <1>1 DEF VPlay
  <1> HIDE DEF m, h
  <1>4. h \in VPlay /\ Spares(g, h)
    BY <1>1, <1>2, <1>3 DEF VPlay, Spares
  <1>5. VCounted(h)
    BY <1>4, SparesCounted
  <1>6. Vaders!MonsterMoves(g, i) = IF ~h.monsters[i].alive \/ ~Vaders!Active(h) THEN h ELSE k
    BY DEF Vaders!MonsterMoves, h
  <1>7. /\ h.monsters \in [0 .. NbVaders - 1 -> VMonster] /\ h.mdx \in Int
        /\ h.fin \in BOOLEAN /\ h.win \in BOOLEAN
    BY <1>4 DEF VPlay
  <1>8. h.monsters[i] \in VMonster /\ h.monsters[i].x \in Int /\ h.monsters[i].y \in Int
    BY <1>7 DEF VMonster
  <1>9. x \in Int /\ y \in Int
    <2>1. PICK d \in Int : d = IF h.mcnt = vaders.NUM_MOVE THEN vaders.Descent ELSE 0
      BY VadersTyped
    <2>2. PICK a \in Int : a = h.monsters[i].x
      BY <1>8
    <2>3. PICK c \in Int : c = h.monsters[i].y
      BY <1>8
    <2>4. x = a + h.mdx /\ y = c + d
      BY <2>1, <2>2, <2>3
    <2> QED
      BY <1>7, <2>4
  <1>10. fin \in BOOLEAN /\ win \in BOOLEAN /\ (h.fin => fin) /\ (win => h.win)
    OBVIOUS
  <1>11. k = [h EXCEPT !.monsters = row, !.fin = fin, !.win = win]
    <2>1. [h EXCEPT !.monsters[i].y = y, !.monsters[i].x = @ + h.mdx] = [h EXCEPT !.monsters = row]
      BY <1>4, <1>7, <1>8 DEF VPlay, VMonster
    <2>2. PICK o : o = [h EXCEPT !.monsters = row]
      OBVIOUS
    <2>3. o.fin = h.fin /\ o.win = h.win
      BY <1>4, <2>2 DEF VPlay
    <2>4. k = [o EXCEPT !.fin = @ \/ lands, !.win = @ /\ ~lands]
      BY <2>1, <2>2
    <2>5. k = [o EXCEPT !.fin = fin, !.win = win]
      BY <2>3, <2>4
    <2> HIDE DEF k, row, fin, win
    <2> QED
      BY <2>2, <2>5
  <1> HIDE DEF x, y, fin, win, k
  <1>12. /\ row \in [0 .. NbVaders - 1 -> VMonster]
         /\ \A j \in 0 .. NbVaders - 1 : row[j].alive = h.monsters[j].alive
    <2>1. PICK v \in VMonster : v = [h.monsters[i] EXCEPT !.y = y, !.x = x]
      BY <1>8, <1>9 DEF VMonster
    <2>2. v.alive = h.monsters[i].alive
      BY <1>8, <2>1 DEF VMonster
    <2>3. row = [h.monsters EXCEPT ![i] = v]
      BY <2>1
    <2> HIDE DEF row
    <2> QED
      BY <1>7, <2>2, <2>3
  <1> HIDE DEF row
  <1>13. k \in VPlay /\ Spares(h, k)
    BY <1>4, <1>10, <1>11, <1>12 DEF VPlay, Spares
  <1>14. VCounted(k)
    BY <1>5, <1>13, SparesCounted
  <1> QED
    BY <1>5, <1>6, <1>14

LEMMA VMarch == ASSUME NEW g, VCounted(g) PROVE VCounted(Vaders!March(g))
  <1> DEFINE N == NbVaders
             Op(n, x) == Vaders!MonsterMoves(x, n - 1)
             Runs(f) == f = [n \in 0 .. N |-> IF n = 0 THEN g ELSE Op(n, f[n - 1])]
             w == CHOOSE f : Runs(f)
             St == [q \in (1 .. N) \X VPlay |-> Op(q[1], q[2])]
             Good == {q \in (0 .. N) \X VPlay : VCounted(q[2])}
  <1>1. Vaders!March(g) = Vaders!Counted(w[N])
    BY DEF Vaders!March, NbVaders
  <1>2. N \in Nat
    BY VadersTyped
  <1>3. ASSUME NEW n \in 1 .. N, NEW x, VCounted(x)  PROVE VCounted(Op(n, x)) /\ Op(n, x) \in VPlay
    <2>1. n - 1 \in 0 .. NbVaders - 1
      BY <1>2
    <2>2. VCounted(Op(n, x))
      BY <1>3, <2>1, VMoves
    <2> QED
      BY <2>2 DEF VCounted
  <1> HIDE DEF Op, N
  <1>4. PICK f : Goes(f, N, VPlay, g, St, Good)
    <2>1. <<0, g>> \in Good /\ g \in VPlay
      BY <1>2 DEF VCounted
    <2>2. ASSUME NEW i \in 1 .. N, NEW x \in VPlay, <<i - 1, x>> \in Good
          PROVE  St[<<i, x>>] \in VPlay /\ <<i, St[<<i, x>>]>> \in Good
      <3>1. VCounted(x) /\ St[<<i, x>>] = Op(i, x)
        BY <2>2
      <3>2. VCounted(Op(i, x)) /\ Op(i, x) \in VPlay /\ i \in 0 .. N
        BY <1>3, <3>1
      <3> QED
        BY <3>1, <3>2
    <2> HIDE DEF St, Good
    <2>3. Steps(N, VPlay, g, St, Good)
      BY <2>1, <2>2 DEF Steps
    <2> QED
      BY <1>2, <2>3, LoopRuns
  <1>5. /\ \A n \in 0 .. N : f[n] \in VPlay /\ <<n, f[n]>> \in Good
        /\ f[0] = g /\ f = [n \in 0 .. N |-> f[n]]
        /\ \A n \in 1 .. N : f[n] = St[<<n, f[n - 1]>>]
    BY <1>4 DEF Goes
  <1>6. ASSUME NEW n \in 1 .. N  PROVE n - 1 \in 0 .. N /\ f[n] = Op(n, f[n - 1])
    <2>1. n - 1 \in 0 .. N
      BY <1>2
    <2>2. f[n - 1] \in VPlay /\ f[n] = St[<<n, f[n - 1]>>]
      BY <1>5, <2>1
    <2> QED
      BY <2>1, <2>2
  <1>7. Runs(f)
    <2>1. ASSUME NEW n \in 0 .. N  PROVE f[n] = IF n = 0 THEN g ELSE Op(n, f[n - 1])
      <3>1. n # 0 => n \in 1 .. N
        BY <1>2
      <3> QED
        BY <1>5, <1>6, <3>1
    <2> HIDE DEF St, Good
    <2> QED
      BY <1>5, <2>1
  <1>8. Runs(w)
    BY <1>7
  <1> HIDE DEF w, St
  <1>9. w[0] = g /\ \A i \in 1 .. N : w[i] = Op(i, w[i - 1])
    <2>1. \A n \in 0 .. N : w[n] = IF n = 0 THEN g ELSE Op(n, w[n - 1])
      BY <1>8
    <2> QED
      BY <1>2, <2>1
  <1>10. w[N] = f[N]
    <2>1. ASSUME NEW i \in 1 .. N, w[i - 1] = f[i - 1]  PROVE w[i] = f[i]
      <3>1. w[i] = Op(i, w[i - 1]) /\ f[i] = Op(i, f[i - 1])
        BY <1>6, <1>9
      <3> QED
        BY <2>1, <3>1
    <2>2. w[0] = f[0]
      BY <1>5, <1>9
    <2> QED
      BY <1>2, <2>1, <2>2, SameFromStart
  <1>11. VCounted(w[N])
    <2>1. N \in 0 .. N
      BY <1>2
    <2>2. <<N, f[N]>> \in Good
      BY <1>5, <2>1
    <2> QED
      BY <1>10, <2>2
  <1> HIDE DEF Good
  <1>12. ASSUME NEW h, VCounted(h)  PROVE VCounted(Vaders!Counted(h))
    <2>1. h \in VPlay /\ h.mdx \in Int /\ h.mcnt \in Int
      BY <1>12 DEF VCounted, VPlay
    <2>2. Vaders!Counted(h) \in {[h EXCEPT !.mdx = -h.mdx, !.mcnt = 0],
                               [h EXCEPT !.mcnt = h.mcnt + 1]}
      BY <2>1 DEF Vaders!Counted, VPlay
    <2>5. PICK a \in Int : a = -h.mdx
      BY <2>1
    <2>7. PICK c \in Int : c = h.mcnt + 1
      BY <2>1
    <2>8. Vaders!Counted(h) \in {[h EXCEPT !.mdx = a, !.mcnt = 0], [h EXCEPT !.mcnt = c]}
      BY <2>2, <2>5, <2>7
    <2>9. /\ [h EXCEPT !.mdx = a, !.mcnt = 0] \in VPlay
          /\ Spares(h, [h EXCEPT !.mdx = a, !.mcnt = 0])
      <3>1. PICK o \in Int : o = 0
        OBVIOUS
      <3>2. /\ [h EXCEPT !.mdx = a, !.mcnt = o] \in VPlay
            /\ Spares(h, [h EXCEPT !.mdx = a, !.mcnt = o])
        BY <2>1 DEF VPlay, Spares
      <3> QED
        BY <3>1, <3>2
    <2>10. [h EXCEPT !.mcnt = c] \in VPlay /\ Spares(h, [h EXCEPT !.mcnt = c])
      BY <2>1 DEF VPlay, Spares
    <2>6. Vaders!Counted(h) \in VPlay /\ Spares(h, Vaders!Counted(h))
      BY <2>8, <2>9, <2>10
    <2> QED
      BY <1>12, <2>6, SparesCounted
  <1> QED
    BY <1>1, <1>11, <1>12

(* The bullet strikes at most one monster, one that was alive.             *)
LEMMA VShoots == ASSUME NEW g, VCounted(g) PROVE VCounted(Vaders!PlayerShoots(g))
  <1> DEFINE act == Vaders!Active(g)
             b == IF act THEN <<g.b[1], g.b[2] - vaders.Shot>> ELSE g.b
             good == IF act THEN Vaders!Victims(Vaders!Struck(g, b)) ELSE {}
             dead == IF good = {} THEN g.dead_monsters ELSE g.dead_monsters + 1
             kill == g.kill_seine_w \/ (act /\ dead = NbVaders)
             wins == /\ act /\ kill
                     /\ b[1] \in g.w .. g.w + vaders.SEINE_W_X_BBOX /\ b[2] <= vaders.SEINE_W_Y_BBOX
             to == IF good # {} \/ b[2] <= 0 THEN Vaders!None ELSE b
             row == [i \in 0 .. NbVaders - 1 |->
                        IF i \in good THEN [g.monsters[i] EXCEPT !.alive = FALSE]
                        ELSE g.monsters[i]]
             fin == g.fin \/ wins
             win == g.win \/ wins
             h == [g EXCEPT !.b = to, !.monsters = row, !.dead_monsters = dead,
                            !.kill_seine_w = kill, !.fin = fin, !.win = win]
  <1>1. g \in VPlay /\ g.b \in Int \X Int /\ g.dead_monsters \in Nat
        /\ g.monsters \in [0 .. NbVaders - 1 -> VMonster]
    BY DEF VCounted, VPlay
  <1>2. g.kill_seine_w \in BOOLEAN /\ g.fin \in BOOLEAN /\ g.win \in BOOLEAN
    BY <1>1 DEF VPlay
  <1>3. b \in Int \X Int
    <2>1. PICK u, v \in Int : g.b = <<u, v>>
      BY <1>1
    <2>2. v - vaders.Shot \in Int
      BY VadersTyped
    <2> QED
      BY <2>1, <2>2
  <1>4. Vaders!PlayerShoots(g) \in {g, h}
    BY <1>1 DEF Vaders!PlayerShoots, VPlay, Vaders!Monsters, NbVaders
  <1>5. good \subseteq 0 .. NbVaders - 1
        /\ \A i \in good : g.monsters[i].alive /\ \A j \in good : i = j
    <2>1. Vaders!Monsters = 0 .. NbVaders - 1
      BY DEF Vaders!Monsters, NbVaders
    <2>2. \A i \in Vaders!Struck(g, b) : i \in 0 .. NbVaders - 1 /\ g.monsters[i].alive
      BY <2>1 DEF Vaders!Struck
    <2>3. \A i \in good : i \in Vaders!Struck(g, b) /\ \A j \in good : i <= j
      BY DEF Vaders!Victims
    <2> HIDE DEF good
    <2> QED
      BY <2>2, <2>3
  <1>6. wins => kill
    OBVIOUS
  <1>7. kill <=> g.kill_seine_w \/ (act /\ dead = NbVaders)
    OBVIOUS
  <1>8. good # {} => act
    OBVIOUS
  <1> HIDE DEF b, good, act
  <1>9. to \in Int \X Int
    BY <1>3 DEF Vaders!None
  <1>10. row \in [0 .. NbVaders - 1 -> VMonster]
         /\ \A i \in 0 .. NbVaders - 1 : row[i].alive <=> (g.monsters[i].alive /\ i \notin good)
    <2>1. ASSUME NEW i \in 0 .. NbVaders - 1
          PROVE  row[i] \in VMonster /\ (row[i].alive <=> (g.monsters[i].alive /\ i \notin good))
      <3>1. g.monsters[i] \in VMonster
        BY <1>1
      <3>2. PICK v \in VMonster : v = [g.monsters[i] EXCEPT !.alive = FALSE]
        BY <3>1 DEF VMonster
      <3>3. v.alive = FALSE
        BY <3>1, <3>2 DEF VMonster
      <3> QED
        BY <3>1, <3>2, <3>3
    <2> QED
      BY <2>1
  <1>11. dead \in Nat
    BY <1>1
  <1>12. kill \in BOOLEAN /\ fin \in BOOLEAN /\ win \in BOOLEAN
    OBVIOUS
  <1>13. (win => fin /\ kill) /\ (g.kill_seine_w => kill)
    BY <1>6 DEF VCounted
  <1>14. dead = IF good = {} THEN g.dead_monsters ELSE g.dead_monsters + 1
    OBVIOUS
  <1> HIDE DEF to, row, dead, kill, wins, fin, win
  <1>15. /\ h \in VPlay /\ h.monsters = row /\ h.dead_monsters = dead /\ h.kill_seine_w = kill
         /\ h.fin = fin /\ h.win = win
    BY <1>1, <1>9, <1>10, <1>11, <1>12 DEF VPlay
  <1> HIDE DEF h
  <1>16. Dead(h) = Dead(g) \cup good
    BY <1>5, <1>10, <1>15 DEF Dead
  <1>17. dead = Cardinality(Dead(h))
    <2>1. CASE good = {}
      BY <1>14, <1>16, <2>1 DEF VCounted
    <2>2. CASE good # {}
      <3>1. PICK i \in good : good = {i}
        BY <1>5, <2>2
      <3>2. i \notin Dead(g)
        BY <1>5, <3>1 DEF Dead
      <3>3. Cardinality(Dead(g) \cup {i}) = Cardinality(Dead(g)) + 1
        BY <3>2, DeadFinite, FS_AddElement
      <3> QED
        BY <1>14, <1>16, <2>2, <3>1, <3>3 DEF VCounted
    <2> QED
      BY <2>1, <2>2
  <1>18. kill <=> dead = NbVaders
    <2>1. g.kill_seine_w => dead = NbVaders
      <3> SUFFICES ASSUME g.kill_seine_w PROVE dead = NbVaders
        OBVIOUS
      <3>1. Cardinality(Dead(g)) = NbVaders
        BY DEF VCounted
      <3>2. Cardinality(Dead(h)) \in 0 .. NbVaders
        BY DeadFinite
      <3>3. dead >= g.dead_monsters
        BY <1>1, <1>14
      <3> QED
        BY <1>1, <1>17, <3>1, <3>2, <3>3, VadersTyped DEF VCounted
    <2>2. dead = NbVaders => kill
      BY <1>7, <1>8, <1>14 DEF VCounted
    <2> QED
      BY <1>7, <2>1, <2>2
  <1>19. VCounted(h)
    BY <1>13, <1>15, <1>17, <1>18 DEF VCounted
  <1> QED
    BY <1>4, <1>19

LEMMA VStep == ASSUME VCounts, Vaders!Next PROVE VCounts'
  <1>1. CASE Vaders!splash_screen
    BY <1>1, VStart DEF Vaders!splash_screen, VCounts
  <1>2. ASSUME NEW key \in Vaders!Keys, Vaders!Frame(key)  PROVE VCounts'
    <2>1. VCounted(game)
      BY <1>2 DEF VCounts, Vaders!Frame
    <2>2. VCounted(Vaders!SeineMoves(Vaders!Keyed(game, key)))
      BY <2>1, VKeyed, VSeineMoves
    <2>3. VCounted(Vaders!PlayerShoots(Vaders!March(Vaders!SeineShoots(
                       Vaders!SeineMoves(Vaders!Keyed(game, key))))))
      BY <2>2, VSeineShoots, VMarch, VShoots
    <2>4. \/ game' = Vaders!Splash
          \/ game' = Vaders!PlayerShoots(Vaders!March(Vaders!SeineShoots(
                         Vaders!SeineMoves(Vaders!Keyed(game, key)))))
      BY <1>2 DEF Vaders!Frame
    <2> QED
      BY <2>3, <2>4 DEF VCounts, Vaders!Splash
  <1> QED
    BY <1>1, <1>2 DEF Vaders!Next, Vaders!game_loop

LEMMA VSays == VCounts => Vaders!KillsCounted
  <1> SUFFICES ASSUME VCounted(game) PROVE Vaders!KillsCounted
    BY DEF VCounts, Vaders!KillsCounted
  <1>1. {i \in Vaders!Monsters : ~game.monsters[i].alive} = Dead(game)
    BY DEF Dead, Vaders!Monsters, NbVaders
  <1> QED
    <2>1. game.dead_monsters
              = Vaders!Cardinality({i \in Vaders!Monsters : ~game.monsters[i].alive})
      <3>1. \A S : Vaders!Cardinality(S) = Cardinality(S)
        BY DEF Vaders!Cardinality, Cardinality
      <3> QED
        BY <1>1, <3>1 DEF VCounted
    <2>2. game.kill_seine_w <=> game.dead_monsters = vaders.NB_MONSTERS
      BY DEF VCounted, NbVaders
    <2>3. game.win => game.fin /\ game.kill_seine_w
      BY DEF VCounted
    <2> QED
      BY <2>1, <2>2, <2>3 DEF Vaders!KillsCounted

-----------------------------------------------------------------------------
(* The hunter                                                              *)

NbHunter == hunter.NB_MONSTERS
HunterMoves == hunter.NUM_MOVE
HVector == [x : Int, y : Int, dx : Int, dy : Int]

LEMMA HunterTyped ==
    /\ HunterMoves \in Nat \ {0} /\ NbHunter \in Nat \ {0}
    /\ hunter.Width \in Int /\ hunter.Height \in Int /\ hunter.Margin \in Int
    /\ hunter.Least \in Int /\ hunter.may \in Int
    /\ hunter.les \in [0 .. HunterMoves - 1 -> HVector]
    /\ \A i \in 0 .. HunterMoves - 1 : ~Hunter!Gone(hunter.les[i])
    /\ hunter.Moves \subseteq Int \X Int
  BY HunterAssumption DEF HVector, NbHunter, HunterMoves

HPlay ==
    [stage : {"play"}, px : Int, py : Int, can_choot : BOOLEAN, m : HVector, alive : BOOLEAN,
     monsters : -1 .. NbHunter, les_index : 0 .. HunterMoves - 1,
     hit : [0 .. NbHunter - 1 -> BOOLEAN], dead_monsters : Nat,
     standby : BOOLEAN, fin : BOOLEAN]

Hits(g) == {i \in 0 .. NbHunter - 1 : g.hit[i]}

(* What makes HitsCounted inductive: neither a monster that is yet to come *)
(* nor the one that flies has been hit, and only the last one ends a game. *)
Ahead(g) ==
    \A i \in 0 .. NbHunter - 1 : i > g.monsters \/ (i = g.monsters /\ g.alive) => ~g.hit[i]

HCounted(g) ==
    /\ g \in HPlay
    /\ g.fin <=> g.monsters = NbHunter
    /\ g.fin => g.alive /\ ~Hunter!Gone(g.m)
    /\ g.alive => g.monsters >= 0
    /\ Ahead(g)
    /\ g.dead_monsters = Cardinality(Hits(g))

HCounts == game.stage \in {"splash", "blue", "fault"} \/ HCounted(game)

-----------------------------------------------------------------------------
LEMMA HitsFinite == ASSUME NEW g
                    PROVE  IsFiniteSet(Hits(g)) /\ Cardinality(Hits(g)) \in Nat
  <1>1. IsFiniteSet(0 .. NbHunter - 1)
    BY FS_Interval, HunterTyped
  <1>2. IsFiniteSet(Hits(g))
    BY <1>1, FS_Subset DEF Hits
  <1> QED
    BY <1>2, FS_CardinalityType

LEMMA HStart == HCounted(Hunter!Start)
  <1>1. Hunter!Start \in HPlay
    <2>1. hunter.Width \div 2 \in Int /\ hunter.Height \div 2 \in Int
      BY HunterTyped
    <2>2. -1 \in -1 .. NbHunter /\ 0 \in 0 .. HunterMoves - 1
      BY HunterTyped
    <2> QED
      BY <2>1, <2>2 DEF Hunter!Start, HPlay, HVector, NbHunter
  <1>2. Hits(Hunter!Start) = {}
    BY DEF Hits, Hunter!Start, NbHunter
  <1>3. Hunter!Start.dead_monsters = Cardinality(Hits(Hunter!Start))
    BY <1>2, FS_EmptySet DEF Hunter!Start
  <1> QED
    BY <1>1, <1>3, HunterTyped DEF HCounted, Ahead, Hunter!Start, NbHunter

(* The fields that HCounted speaks about.                                   *)
Alike(h, g) ==
    /\ h.m = g.m /\ h.alive = g.alive /\ h.monsters = g.monsters /\ h.hit = g.hit
    /\ h.dead_monsters = g.dead_monsters /\ h.fin = g.fin

LEMMA AlikeCounted == ASSUME NEW g, HCounted(g), NEW h \in HPlay, Alike(h, g)
                      PROVE  HCounted(h)
  <1>1. Hits(h) = Hits(g)
    BY DEF Hits, Alike
  <1>2. Ahead(h)
    BY DEF HCounted, Ahead, Alike
  <1> QED
    BY <1>1, <1>2 DEF HCounted, Alike

LEMMA HKeyed == ASSUME NEW g, HCounted(g), NEW key PROVE HCounted(Hunter!Keyed(g, key))
  <1>1. Hunter!Keyed(g, key) \in HPlay /\ Alike(Hunter!Keyed(g, key), g)
    BY DEF Hunter!Keyed, HCounted, HPlay, Alike
  <1> QED
    BY <1>1, AlikeCounted

LEMMA HAimed ==
    ASSUME NEW g, HCounted(g), NEW move \in hunter.Moves, NEW button \in BOOLEAN
    PROVE  HCounted(Hunter!Aimed(g, move, button))
  <1>1. move[1] \in Int /\ move[2] \in Int
    BY HunterTyped
  <1>2. \A p \in Int : /\ Hunter!Within(p, hunter.Width) \in Int
                      /\ Hunter!Within(p, hunter.Height) \in Int
    <2>1. ASSUME NEW p \in Int, NEW size \in Int  PROVE Hunter!Within(p, size) \in Int
      <3>1. PICK a \in Int : a = hunter.Margin + hunter.Least
        BY HunterTyped
      <3>2. PICK c \in Int : c = size - hunter.Margin - hunter.Least
        BY HunterTyped
      <3> QED
        BY <3>1, <3>2 DEF Hunter!Within
    <2> QED
      BY <2>1, HunterTyped
  <1>3. g.px \in Int /\ g.py \in Int /\ g \in HPlay
    BY DEF HCounted, HPlay
  <1> DEFINE wx == Hunter!Within(g.px + move[1], hunter.Width)
             wy == Hunter!Within(g.py - move[2], hunter.Height)
             a == [g EXCEPT !.px = wx, !.py = wy, !.can_choot = ~button]
  <1>5. Hunter!Aimed(g, move, button) \in {g, a}
    BY DEF Hunter!Aimed
  <1>4. wx \in Int /\ wy \in Int
    BY <1>1, <1>2, <1>3
  <1> HIDE DEF wx, wy
  <1>6. a \in HPlay /\ Alike(a, g)
    BY <1>3, <1>4 DEF HPlay, Alike
  <1> HIDE DEF a
  <1> QED
    BY <1>3, <1>5, <1>6, AlikeCounted

(* A monster that flies away has not been hit: nothing is taken from hit.  *)
LEMMA HFlies == ASSUME NEW g, HCounted(g), g.alive PROVE HCounted(Hunter!MonsterFlies(g))
  <1> DEFINE m == [g.m EXCEPT !.dy = @ + hunter.may, !.y = @ + g.m.dy + hunter.may,
                              !.x = @ + g.m.dx]
             h == IF Hunter!Active(g) THEN [g EXCEPT !.m = m] ELSE g
             k == [h EXCEPT !.alive = FALSE, !.hit[h.monsters] = FALSE]
  <1>1. g \in HPlay /\ g.m \in HVector /\ hunter.may \in Int
    BY HunterTyped DEF HCounted, HPlay
  <1>2. m \in HVector
    <2>1. g.m.x \in Int /\ g.m.y \in Int /\ g.m.dx \in Int /\ g.m.dy \in Int
      BY <1>1 DEF HVector
    <2>2. /\ g.m.dy + hunter.may \in Int /\ g.m.y + g.m.dy + hunter.may \in Int
          /\ g.m.x + g.m.dx \in Int
      BY <1>1, <2>1
    <2> QED
      BY <1>1, <2>2 DEF HVector
  <1>3. Hunter!MonsterFlies(g) = IF Hunter!Gone(h.m) THEN k ELSE h
    BY DEF Hunter!MonsterFlies
  <1> HIDE DEF m
  <1>4. /\ h \in HPlay /\ h.alive /\ h.monsters = g.monsters /\ h.hit = g.hit /\ h.fin = g.fin
        /\ h.dead_monsters = g.dead_monsters
    BY <1>1, <1>2 DEF HPlay
  <1>5. h.fin => ~Hunter!Gone(h.m)
    BY DEF HCounted, Hunter!Active
  <1>6. Hits(h) = Hits(g) /\ Ahead(h)
    BY <1>4 DEF Hits, HCounted, Ahead
  <1>7. HCounted(h)
    BY <1>4, <1>5, <1>6 DEF HCounted
  <1> HIDE DEF h
  <1>8. CASE Hunter!Gone(h.m)
    <2>1. ~h.fin /\ h.monsters \in 0 .. NbHunter - 1
      <3>1. ~h.fin
        BY <1>5, <1>8
      <3>2. h.monsters # NbHunter /\ h.monsters >= 0
        BY <1>4, <1>7, <3>1 DEF HCounted
      <3>3. h.monsters \in -1 .. NbHunter
        BY <1>4 DEF HPlay
      <3> QED
        BY <3>1, <3>2, <3>3, HunterTyped
    <2>2. ~h.hit[h.monsters]
      BY <1>4, <1>6, <2>1 DEF Ahead
    <2>3. /\ k \in HPlay /\ ~k.alive /\ k.monsters = h.monsters /\ k.fin = h.fin
          /\ k.dead_monsters = h.dead_monsters
          /\ \A i \in 0 .. NbHunter - 1 : k.hit[i] = h.hit[i]
      BY <1>4, <2>1, <2>2 DEF HPlay
    <2>4. Hits(k) = Hits(h)
      BY <2>3 DEF Hits
    <2>5. Ahead(k)
      BY <1>6, <2>3 DEF Ahead
    <2>6. HCounted(k)
      BY <1>7, <2>1, <2>3, <2>4, <2>5 DEF HCounted
    <2> QED
      BY <1>3, <1>8, <2>6
  <1>9. CASE ~Hunter!Gone(h.m)
    BY <1>3, <1>7, <1>9
  <1> QED
    BY <1>8, <1>9

LEMMA HNext == ASSUME NEW g, HCounted(g), ~g.alive PROVE HCounted(Hunter!NextMonster(g))
  <1> DEFINE n == g.monsters + 1
             v == hunter.les[g.les_index]
             l == (g.les_index + 1) % HunterMoves
             f == g.fin \/ Hunter!Finished(n)
             h == [g EXCEPT !.alive = TRUE, !.monsters = n, !.m = v, !.les_index = l, !.fin = f]
  <1>1. g \in HPlay /\ g.monsters \in -1 .. NbHunter /\ g.les_index \in 0 .. HunterMoves - 1
    BY DEF HCounted, HPlay
  <1>2. ~g.fin /\ g.monsters # NbHunter
    BY DEF HCounted
  <1>3. n \in 0 .. NbHunter
    BY <1>1, <1>2, HunterTyped
  <1>4. v \in HVector /\ ~Hunter!Gone(v)
    BY <1>1, HunterTyped
  <1>5. l \in 0 .. HunterMoves - 1
    <2>1. HunterMoves \in Nat /\ HunterMoves > 0 /\ g.les_index + 1 \in Nat
      BY <1>1, HunterTyped
    <2> QED
      BY <2>1
  <1>6. f \in BOOLEAN /\ (f <=> n = NbHunter)
    BY <1>2 DEF Hunter!Finished, NbHunter
  <1>7. Hunter!NextMonster(g) = h
    BY DEF Hunter!NextMonster, HunterMoves
  <1>8. n = g.monsters + 1
    OBVIOUS
  <1> HIDE DEF n, v, l, f
  <1>9. n \in -1 .. NbHunter
    BY <1>3, HunterTyped
  <1>10. h \in HPlay
    BY <1>1, <1>4, <1>5, <1>6, <1>9 DEF HPlay
  <1>11. /\ h.alive = TRUE /\ h.monsters = n /\ h.m = v /\ h.fin = f
         /\ h.hit = g.hit /\ h.dead_monsters = g.dead_monsters
    BY <1>1 DEF HPlay
  <1> HIDE DEF h
  <1>12. Hits(h) = Hits(g)
    BY <1>11 DEF Hits
  <1>13. Ahead(h)
    <2> SUFFICES ASSUME NEW i \in 0 .. NbHunter - 1, i >= n
                 PROVE  ~h.hit[i]
      BY <1>3, <1>11 DEF Ahead
    <2>1. i > g.monsters
      BY <1>1, <1>3, <1>8
    <2> QED
      BY <1>11, <2>1 DEF HCounted, Ahead
  <1>14. /\ h.fin <=> h.monsters = NbHunter
         /\ h.fin => h.alive /\ ~Hunter!Gone(h.m)
         /\ h.alive => h.monsters >= 0
         /\ h.dead_monsters = Cardinality(Hits(h))
    BY <1>3, <1>4, <1>6, <1>11, <1>12 DEF HCounted
  <1> QED
    BY <1>7, <1>10, <1>13, <1>14 DEF HCounted

LEMMA HMonster == ASSUME NEW g, HCounted(g) PROVE HCounted(Hunter!Monster(g))
  BY HFlies, HNext DEF Hunter!Monster

(* The shot takes the place of the monster that flies, so far not hit.     *)
LEMMA HShot ==
    ASSUME NEW g, HCounted(g), NEW choot PROVE HCounted(Hunter!Shot(g, choot))
  <1> DEFINE h == [g EXCEPT !.dead_monsters = @ + 1, !.alive = FALSE, !.hit[g.monsters] = TRUE]
  <1>1. CASE Hunter!Active(g) /\ choot /\ g.alive /\ Hunter!InSight(g)
    <2>1. g \in HPlay /\ ~g.fin /\ g.alive
      BY <1>1 DEF HCounted, Hunter!Active
    <2>2. g.monsters \in 0 .. NbHunter - 1
      BY <2>1, HunterTyped DEF HCounted, HPlay
    <2>3. ~g.hit[g.monsters]
      BY <2>1, <2>2 DEF HCounted, Ahead
    <2>4. /\ h \in HPlay /\ h.alive = FALSE /\ h.monsters = g.monsters /\ h.fin = g.fin
          /\ h.m = g.m /\ h.dead_monsters = g.dead_monsters + 1
          /\ \A i \in 0 .. NbHunter - 1 : h.hit[i] <=> (i = g.monsters \/ g.hit[i])
      <3> DEFINE row == [g.hit EXCEPT ![g.monsters] = TRUE]
                 count == g.dead_monsters + 1
      <3>1. /\ row \in [0 .. NbHunter - 1 -> BOOLEAN] /\ count \in Nat
            /\ \A i \in 0 .. NbHunter - 1 : row[i] <=> (i = g.monsters \/ g.hit[i])
        <4>1. g.hit \in [0 .. NbHunter - 1 -> BOOLEAN] /\ g.dead_monsters \in Nat
          BY <2>1 DEF HPlay
        <4>2. row \in [0 .. NbHunter - 1 -> BOOLEAN]
          BY <2>2, <4>1
        <4>3. \A i \in 0 .. NbHunter - 1 : row[i] = IF i = g.monsters THEN TRUE ELSE g.hit[i]
          BY <2>2, <4>1
        <4>4. count \in Nat
          BY <4>1
        <4> HIDE DEF row, h, count
        <4> QED
          BY <4>1, <4>2, <4>3, <4>4
      <3>2. h = [g EXCEPT !.dead_monsters = count, !.alive = FALSE, !.hit = row]
        BY <2>1 DEF HPlay
      <3>3. count = g.dead_monsters + 1
        OBVIOUS
      <3> HIDE DEF row, count, h
      <3>4. /\ h \in HPlay /\ h.alive = FALSE /\ h.monsters = g.monsters /\ h.fin = g.fin
            /\ h.m = g.m /\ h.dead_monsters = count /\ h.hit = row
        BY <2>1, <3>1, <3>2 DEF HPlay
      <3> QED
        BY <3>1, <3>3, <3>4
    <2> HIDE DEF h
    <2>5. Hits(h) = Hits(g) \cup {g.monsters} /\ g.monsters \notin Hits(g)
      BY <2>2, <2>3, <2>4 DEF Hits
    <2>6. Cardinality(Hits(h)) = Cardinality(Hits(g)) + 1
      BY <2>5, HitsFinite, FS_AddElement
    <2>7. Ahead(h)
      <3> SUFFICES ASSUME NEW i \in 0 .. NbHunter - 1, i > g.monsters
                   PROVE  ~h.hit[i]
        BY <2>2, <2>4 DEF Ahead
      <3>1. ~g.hit[i] /\ i # g.monsters
        BY <2>2 DEF HCounted, Ahead
      <3> QED
        BY <2>4, <3>1
    <2>8. HCounted(h)
      BY <2>1, <2>2, <2>4, <2>6, <2>7 DEF HCounted
    <2> QED
      BY <1>1, <2>8 DEF Hunter!Shot, h
  <1>2. CASE ~(Hunter!Active(g) /\ choot /\ g.alive /\ Hunter!InSight(g))
    BY <1>2 DEF Hunter!Shot
  <1> QED
    BY <1>1, <1>2

LEMMA HStep == ASSUME HCounts, Hunter!Next PROVE HCounts'
  <1>1. CASE Hunter!splash_screen
    BY <1>1, HStart DEF Hunter!splash_screen, HCounts
  <1>2. ASSUME NEW key \in Hunter!Keys, NEW move \in hunter.Moves, NEW button \in BOOLEAN,
               Hunter!Frame(key, move, button)
        PROVE  HCounts'
    <2> DEFINE g == Hunter!Keyed(game, key)
    <2>1. HCounted(game)
      BY <1>2 DEF HCounts, Hunter!Frame
    <2>2. HCounted(Hunter!Shot(Hunter!Monster(Hunter!Aimed(g, move, button)),
                               Hunter!Shoots(g, button)))
      BY <2>1, HKeyed, HAimed, HMonster, HShot
    <2>3. \/ game' = Hunter!Splash
          \/ game' = Hunter!Shot(Hunter!Monster(Hunter!Aimed(g, move, button)),
                                 Hunter!Shoots(g, button))
      BY <1>2 DEF Hunter!Frame
    <2> QED
      BY <2>2, <2>3 DEF HCounts, Hunter!Splash
  <1> QED
    BY <1>1, <1>2 DEF Hunter!Next, Hunter!game_loop


LEMMA HSays == HCounts => Hunter!ScoreIsHits
  <1> SUFFICES ASSUME HCounted(game) PROVE Hunter!ScoreIsHits
    BY DEF HCounts, Hunter!ScoreIsHits
  <1>1. DOMAIN game.hit = 0 .. NbHunter - 1
    BY DEF HCounted, HPlay
  <1>2. {i \in DOMAIN game.hit : game.hit[i]} = Hits(game)
    BY <1>1 DEF Hits
  <1>3. \A S : Hunter!Cardinality(S) = Cardinality(S)
    BY DEF Hunter!Cardinality, Cardinality
  <1>4. game.dead_monsters = Hunter!Cardinality({i \in DOMAIN game.hit : game.hit[i]})
    BY <1>2, <1>3 DEF HCounted
  <1>5. game.alive /\ ~game.fin => game.monsters \in DOMAIN game.hit
    BY <1>1, HunterTyped DEF HCounted, HPlay
  <1> QED
    BY <1>4, <1>5 DEF HCounted, Hunter!ScoreIsHits

-----------------------------------------------------------------------------
(* Yakanoid                                                                *)

BrickRows == yakanoid.Rows
BrickCols == yakanoid.Cols
BrickW == yakanoid.BrickWidth
BrickH == yakanoid.BrickHeight
BallR == yakanoid.Radius
LeftEnd == yakanoid.Wall
RightEnd == Yakanoid!RightWall

AllBricks == 0 .. BrickRows * BrickCols - 1
Ball == [pos : Int, x : Int, y : Int, dx : {-1, 1}, dy : {-1, 1}]
YPlay == [stage : {"play", "stray"}, mtrx : [AllBricks -> {0, 1}], ball : Ball, lives : Int]

(* The ball turns round when it reaches a wall, one step late at the left. *)
InField(ball) ==
    /\ LeftEnd + BallR - 1 <= ball.x /\ ball.x <= RightEnd - BallR
    /\ ball.x = RightEnd - BallR => ball.dx = -1
    /\ ball.x = LeftEnd + BallR - 1 => ball.dx = 1

Gap(mtrx, row) == \E col \in 0 .. BrickCols - 1 : mtrx[row * BrickCols + col] = 0

(* In the row, or above it, and among the bricks.                          *)
Reaches(y, row) == y < (row + 2) * BrickH /\ y + BallR < (BrickRows + 1) * BrickH

(* What tells where the indices stray, inductively: so far as the ball has *)
(* come up, the rows have gaps; above the bricks before the frame is over. *)
GapsBelow(mtrx, y) == \A row \in 0 .. BrickRows - 1 : Reaches(y, row) => Gap(mtrx, row)

YOpen(g) == g \in YPlay /\ InField(g.ball) /\ GapsBelow(g.mtrx, g.ball.y)

YFlown(g) ==
    /\ g \in YPlay /\ InField(g.ball)
    /\ g.ball.y <= 0 => \A row \in 0 .. BrickRows - 1 : Gap(g.mtrx, row)

YOpens ==
    \/ game.stage \in {"splash", "fault"}
    \/ YOpen(game)
    \/ game.stage = "stray" /\ YFlown(game)

LEMMA YakanoidTyped ==
    /\ BrickRows \in Nat \ {0} /\ BrickCols \in Nat \ {0} /\ BrickW \in Nat \ {0, 1}
    /\ BrickH \in Nat \ {0, 1} /\ BallR \in 1 .. BrickH - 1
    /\ LeftEnd \in Int /\ yakanoid.StartX \in Int /\ yakanoid.BarHalf \in Int
    /\ yakanoid.BarStep \in Int /\ yakanoid.BarY \in Int /\ yakanoid.Lives \in Int
    /\ LeftEnd + BallR <= yakanoid.StartX /\ yakanoid.StartX + BallR < RightEnd
    /\ (BrickRows + 1) * BrickH <= yakanoid.BarY - BallR
    /\ RightEnd = LeftEnd + BrickCols * BrickW
  BY YakanoidAssumption
     DEF BrickRows, BrickCols, BrickW, BrickH, BallR, LeftEnd, RightEnd, Yakanoid!RightWall

LEMMA RightEndTyped == RightEnd \in Int
  BY YakanoidTyped

LEMMA DivLaw == ASSUME NEW a \in Nat, NEW b \in Nat \ {0}
                PROVE  /\ a \div b \in Nat
                       /\ (a \div b) * b <= a
                       /\ a < (a \div b) * b + b
  OBVIOUS

LEMMA MulMono == ASSUME NEW a \in Int, NEW b \in Int, a <= b, NEW c \in Nat
                 PROVE  a * c <= b * c
  OBVIOUS

LEMMA BrickIndex == ASSUME NEW row \in 0 .. BrickRows - 1, NEW col \in 0 .. BrickCols - 1
                    PROVE  row * BrickCols + col \in AllBricks
  <1>1. row * BrickCols <= (BrickRows - 1) * BrickCols
    BY YakanoidTyped, MulMono
  <1>2. (BrickRows - 1) * BrickCols = BrickRows * BrickCols - BrickCols
    BY YakanoidTyped
  <1>3. 0 <= row * BrickCols
    BY YakanoidTyped
  <1>4. PICK u \in Int : u = row * BrickCols
    BY YakanoidTyped
  <1>5. PICK v \in Int : v = BrickRows * BrickCols
    BY YakanoidTyped
  <1> QED
    BY <1>1, <1>2, <1>3, <1>4, <1>5, YakanoidTyped DEF AllBricks

(* The row of a ball, by the division of C: the first row is also taken    *)
(* for the one above it.                                                   *)
LEMMA RowOf ==
    ASSUME NEW y \in Int
    PROVE  LET by == Yakanoid!Div(y - BrickH, BrickH)
           IN  /\ by \in Int
               /\ y <= 0 => by < 0
               /\ y > 0 => /\ by >= 0 /\ y < (by + 2) * BrickH
                           /\ by = 0 \/ (by + 1) * BrickH <= y
  <1>1. BrickH \in Nat \ {0} /\ BrickH > 1
    BY YakanoidTyped
  <1>2. CASE y >= BrickH
    <2>1. PICK a \in Nat : a = y - BrickH
      BY <1>1, <1>2
    <2>2. PICK q \in Nat : q = a \div BrickH /\ q * BrickH <= a /\ a < q * BrickH + BrickH
      BY <1>1, DivLaw
    <2>3. Yakanoid!Div(y - BrickH, BrickH) = q
      BY <2>1, <2>2 DEF Yakanoid!Div
    <2>4. (q + 1) * BrickH = q * BrickH + BrickH /\ (q + 2) * BrickH = q * BrickH + 2 * BrickH
      BY <1>1
    <2>5. PICK m \in Int : m = q * BrickH
      BY <1>1
    <2>6. (q + 1) * BrickH <= y /\ y < (q + 2) * BrickH
      BY <1>1, <2>1, <2>2, <2>4, <2>5
    <2>7. /\ q \in Int /\ q >= 0 /\ ~(y <= 0)
          /\ y < (q + 2) * BrickH
          /\ (q + 1) * BrickH <= y
      BY <1>1, <1>2, <2>6
    <2> QED
      BY <2>3, <2>7, Zenon
  <1>3. CASE y < BrickH
    <2>1. PICK a \in Nat : a = BrickH - y
      BY <1>1, <1>3
    <2>2. PICK q \in Nat : q = a \div BrickH /\ q * BrickH <= a /\ a < q * BrickH + BrickH
      BY <1>1, DivLaw
    <2>3. Yakanoid!Div(y - BrickH, BrickH) = -q
      <3>1. y - BrickH < 0 /\ -(y - BrickH) = a
        BY <1>1, <1>3, <2>1
      <3> QED
        BY <2>2, <3>1 DEF Yakanoid!Div
    <2>4. y <= 0 => q >= 1
      <3> SUFFICES ASSUME y <= 0, q = 0  PROVE FALSE
        OBVIOUS
      <3> QED
        BY <1>1, <2>1, <2>2
    <2>5. y > 0 => q = 0
      <3> SUFFICES ASSUME y > 0, q >= 1  PROVE FALSE
        OBVIOUS
      <3>1. 1 * BrickH <= q * BrickH
        BY <1>1, MulMono
      <3> QED
        BY <1>1, <2>1, <2>2, <3>1
    <2>6. (0 + 2) * BrickH = 2 * BrickH
      OBVIOUS
    <2>7. CASE y <= 0
      <3>1. -q \in Int /\ -q < 0 /\ ~(y > 0)
        BY <2>4, <2>7
      <3> QED
        BY <2>3, <3>1, Zenon
    <2>8. CASE y > 0
      <3>1. Yakanoid!Div(y - BrickH, BrickH) = 0 /\ ~(y <= 0) /\ 0 \in Int /\ 0 >= 0
        BY <2>3, <2>5, <2>8
      <3>2. y < (0 + 2) * BrickH
        BY <1>1, <1>3, <2>6
      <3> QED
        BY <3>1, <3>2, Zenon
    <2> QED
      BY <2>7, <2>8
  <1> QED
    BY <1>1, <1>2, <1>3

(* The left end of the ball is over a brick of the row, whatever the walls *)
(* have to do with the width of the ball.                                  *)
LEMMA ColOf ==
    ASSUME NEW x \in Int, LeftEnd + BallR - 1 <= x, x <= RightEnd - BallR
    PROVE  Yakanoid!Div(x - BallR - LeftEnd, BrickW) \in 0 .. BrickCols - 1
  <1>1. /\ BrickW \in Nat \ {0} /\ BrickW > 1 /\ BrickCols \in Nat /\ BrickCols > 0
        /\ BallR \in Int /\ BallR > 0 /\ LeftEnd \in Int
    BY YakanoidTyped
  <1>2. PICK t \in Int : t = x - BallR - LeftEnd
    BY <1>1
  <1>3. PICK m \in Int : m = BrickCols * BrickW
    BY <1>1
  <1>4. t >= -1 /\ t < m
    BY <1>1, <1>2, <1>3, YakanoidTyped
  <1>5. CASE t < 0
    <2>1. t = -1 /\ -(t) = 1
      BY <1>4, <1>5
    <2>2. PICK q \in Nat : q = 1 \div BrickW /\ q * BrickW <= 1
      BY <1>1, DivLaw
    <2>3. q = 0
      <3> SUFFICES ASSUME q >= 1  PROVE FALSE
        OBVIOUS
      <3>1. 1 * BrickW <= q * BrickW
        BY <1>1, MulMono
      <3> QED
        BY <1>1, <2>2, <3>1
    <2>4. Yakanoid!Div(t, BrickW) = 0
      BY <1>5, <2>1, <2>2, <2>3 DEF Yakanoid!Div
    <2> QED
      BY <1>1, <1>2, <2>4
  <1>6. CASE t >= 0
    <2>1. PICK q \in Nat : q = t \div BrickW /\ q * BrickW <= t
      BY <1>1, <1>6, DivLaw
    <2>2. q < BrickCols
      <3> SUFFICES ASSUME BrickCols <= q  PROVE FALSE
        BY <1>1
      <3>1. BrickCols * BrickW <= q * BrickW
        BY <1>1, MulMono
      <3>2. PICK n \in Int : n = q * BrickW
        BY <1>1
      <3> QED
        BY <1>3, <1>4, <2>1, <3>1, <3>2
    <2>3. Yakanoid!Div(t, BrickW) = q
      BY <1>6, <2>1 DEF Yakanoid!Div
    <2> QED
      BY <1>1, <1>2, <2>2, <2>3
  <1> QED
    BY <1>5, <1>6

(* The right end is so as well, or touches the wall.                       *)
LEMMA RightColOf ==
    ASSUME NEW x \in Int, LeftEnd + BallR - 1 <= x, x <= RightEnd - BallR
    PROVE  LET bx2 == Yakanoid!Div(x + BallR - LeftEnd, BrickW)
           IN  bx2 \in 0 .. BrickCols - 1 \/ (bx2 = BrickCols /\ x + BallR = RightEnd)
  <1>1. /\ BrickW \in Nat \ {0} /\ BrickCols \in Nat /\ BrickCols > 0
        /\ BallR \in Int /\ BallR > 0 /\ LeftEnd \in Int /\ RightEnd \in Int
    BY YakanoidTyped, RightEndTyped
  <1>2. PICK m \in Int : m = BrickCols * BrickW
    BY <1>1
  <1>3. PICK t \in Nat : t = x + BallR - LeftEnd
    BY <1>1
  <1>4. t <= m /\ (t = m => x + BallR = RightEnd)
    BY <1>1, <1>2, <1>3, YakanoidTyped
  <1>5. PICK q \in Nat : q = t \div BrickW /\ q * BrickW <= t
    BY <1>1, DivLaw
  <1>6. Yakanoid!Div(x + BallR - LeftEnd, BrickW) = q
    BY <1>3, <1>5 DEF Yakanoid!Div
  <1>7. ASSUME BrickCols <= q  PROVE q = BrickCols /\ t = m
    <2>1. BrickCols * BrickW <= q * BrickW
      BY <1>1, <1>7, MulMono
    <2>2. t = m
      <3>1. PICK n \in Int : n = q * BrickW
        BY <1>1
      <3> QED
        BY <1>2, <1>4, <1>5, <2>1, <3>1
    <2>3. ASSUME BrickCols + 1 <= q  PROVE FALSE
      <3>1. (BrickCols + 1) * BrickW <= q * BrickW
        BY <1>1, <2>3, MulMono
      <3>2. (BrickCols + 1) * BrickW = m + BrickW
        BY <1>1, <1>2
      <3>3. PICK n \in Int : n = q * BrickW
        BY <1>1
      <3> QED
        BY <1>1, <1>2, <1>4, <1>5, <3>1, <3>2, <3>3
    <2> QED
      BY <1>1, <1>7, <2>2, <2>3
  <1>8. q \in 0 .. BrickCols - 1 \/ (q = BrickCols /\ x + BallR = RightEnd)
    BY <1>1, <1>4, <1>5, <1>7
  <1> QED
    BY <1>6, <1>8, Zenon

LEMMA YFlight ==
    ASSUME NEW ball \in Ball, InField(ball)
    PROVE  LET f == Yakanoid!Flight(ball)
           IN  f \in Ball /\ InField(f) /\ f.y = ball.y + ball.dy
  <1> DEFINE x == ball.x + ball.dx
             turns == (x + BallR >= RightEnd) # (x - BallR < LeftEnd)
             dx == IF turns THEN -ball.dx ELSE ball.dx
             y == ball.y + ball.dy
             f == [ball EXCEPT !.x = x, !.y = y, !.dx = dx]
  <1>1. ball.x \in Int /\ ball.y \in Int /\ ball.dx \in {-1, 1} /\ ball.dy \in {-1, 1}
    BY DEF Ball
  <1>2. Yakanoid!Flight(ball) = f
    BY DEF Yakanoid!Flight, BallR, RightEnd, LeftEnd, Ball
  <1>3. /\ LeftEnd \in Int /\ RightEnd \in Int /\ BallR \in Int
        /\ RightEnd - BallR > LeftEnd + BallR
    <2>1. /\ LeftEnd \in Int /\ RightEnd \in Int /\ BallR \in Int /\ yakanoid.StartX \in Int
          /\ LeftEnd + BallR <= yakanoid.StartX /\ yakanoid.StartX + BallR < RightEnd
      BY YakanoidTyped, RightEndTyped
    <2> QED
      BY <2>1
  <1>4. x \in Int /\ y \in Int
    BY <1>1
  <1>5. dx \in {-1, 1}
    BY <1>1
  <1>6. turns <=> (x + BallR >= RightEnd \/ x - BallR < LeftEnd)
    BY <1>3, <1>4
  <1>7. /\ LeftEnd + BallR - 1 <= x /\ x <= RightEnd - BallR
        /\ x = RightEnd - BallR => dx = -1
        /\ x = LeftEnd + BallR - 1 => dx = 1
    <2>1. CASE ball.dx = 1
      BY <1>1, <1>3, <1>6, <2>1 DEF InField
    <2>2. CASE ball.dx = -1
      <3>1. /\ x = ball.x - 1 /\ LeftEnd + BallR <= ball.x /\ ball.x <= RightEnd - BallR
        BY <1>1, <1>3, <2>2 DEF InField
      <3>2. ~(x + BallR >= RightEnd) /\ LeftEnd + BallR - 1 <= x
        BY <1>1, <1>3, <3>1
      <3>3. x - BallR < LeftEnd => dx = 1
        <4> SUFFICES ASSUME x - BallR < LeftEnd  PROVE dx = 1
          OBVIOUS
        <4>1. turns
          BY <1>6
        <4> HIDE DEF turns
        <4>2. dx = -ball.dx
          BY <4>1
        <4>3. -ball.dx # ball.dx
          BY <1>1
        <4> QED
          BY <1>5, <2>2, <4>2, <4>3
      <3> HIDE DEF x, dx
      <3> QED
        BY <1>1, <1>3, <1>4, <3>1, <3>2, <3>3
    <2> QED
      BY <1>1, <2>1, <2>2
  <1> HIDE DEF x, y, dx
  <1>8. f \in Ball /\ f.x = x /\ f.y = y /\ f.dx = dx
    BY <1>4, <1>5 DEF Ball
  <1> HIDE DEF f
  <1>9. InField(f)
    BY <1>7, <1>8 DEF InField
  <1> QED
    BY <1>2, <1>8, <1>9 DEF y

(* Above the bricks the ball has come up past every row.                   *)
LEMMA HighReaches ==
    ASSUME NEW y \in Int, y <= 0, NEW row \in 0 .. BrickRows - 1
    PROVE  Reaches(y, row)
  <1>1. /\ BrickH \in Nat /\ BrickH > 1 /\ BallR \in Int /\ BallR > 0 /\ BallR < BrickH
        /\ BrickRows \in Nat /\ BrickRows > 0
    BY YakanoidTyped
  <1>2. 2 * BrickH <= (row + 2) * BrickH /\ 2 * BrickH <= (BrickRows + 1) * BrickH
    BY <1>1, MulMono
  <1>3. PICK m \in Int : m = (row + 2) * BrickH
    BY <1>1
  <1>4. PICK n \in Int : n = (BrickRows + 1) * BrickH
    BY <1>1
  <1>5. y < m /\ y + BallR < n
    BY <1>1, <1>2, <1>3, <1>4
  <1> QED
    BY <1>3, <1>4, <1>5 DEF Reaches

(* A ball that comes into a row of bricks makes a gap in it; in the rows   *)
(* below there was one before.                                             *)
LEMMA ReachesBefore ==
    ASSUME NEW y \in Int, NEW y0 \in Int, y0 <= y + 1, NEW row \in 0 .. BrickRows - 1,
           Reaches(y, row),
           y > 0 => row # Yakanoid!Div(y - BrickH, BrickH)
    PROVE  Reaches(y0, row)
  <1>1. /\ BrickH \in Nat /\ BrickH > 1 /\ BallR \in Int /\ BallR > 0 /\ BallR < BrickH
        /\ BrickRows \in Nat /\ BrickRows > 0
    BY YakanoidTyped
  <1>2. PICK m \in Int : m = (row + 2) * BrickH
    BY <1>1
  <1>3. PICK n \in Int : n = (BrickRows + 1) * BrickH
    BY <1>1
  <1>4. y < m /\ y + BallR < n
    BY <1>2, <1>3 DEF Reaches
  <1>5. m <= n
    <2>1. row + 2 <= BrickRows + 1 /\ row + 2 \in Int /\ BrickRows + 1 \in Int
      BY <1>1
    <2> QED
      BY <1>1, <1>2, <1>3, <2>1, MulMono
  <1>6. y + 1 + BallR < m
    <2>1. CASE y <= 0
      <3>1. 2 * BrickH <= (row + 2) * BrickH
        BY <1>1, MulMono
      <3> QED
        BY <1>1, <1>2, <2>1, <3>1
    <2>2. CASE y > 0
      <3>1. PICK by \in Int : /\ by = Yakanoid!Div(y - BrickH, BrickH)
                              /\ by >= 0 /\ y < (by + 2) * BrickH
                              /\ by = 0 \/ (by + 1) * BrickH <= y
        BY <2>2, RowOf
      <3>2. by # row
        BY <2>2, <3>1
      <3>3. by < row
        <4> SUFFICES ASSUME row + 2 <= by + 1, by # 0  PROVE FALSE
          BY <3>1, <3>2
        <4>1. (row + 2) * BrickH <= (by + 1) * BrickH
          BY <1>1, <3>1, MulMono
        <4>2. PICK k \in Int : k = (by + 1) * BrickH
          BY <1>1, <3>1
        <4> QED
          BY <1>2, <1>4, <3>1, <4>1, <4>2
      <3>4. (by + 3) * BrickH <= (row + 2) * BrickH
        <4>1. by + 3 <= row + 2 /\ by + 3 \in Int /\ row + 2 \in Int
          BY <3>1, <3>3
        <4> QED
          BY <1>1, <4>1, MulMono
      <3>5. (by + 3) * BrickH = (by + 2) * BrickH + BrickH
        BY <1>1, <3>1
      <3>6. PICK k \in Int : k = (by + 2) * BrickH
        BY <1>1, <3>1
      <3> QED
        BY <1>1, <1>2, <3>1, <3>4, <3>5, <3>6
    <2> QED
      BY <2>1, <2>2
  <1>7. y0 < m /\ y0 + BallR < n
    BY <1>1, <1>5, <1>6
  <1> QED
    BY <1>2, <1>3, <1>7 DEF Reaches

LEMMA YAfterBricks ==
    ASSUME NEW g \in YPlay, InField(g.ball), NEW y0 \in Int, y0 <= g.ball.y + 1,
           GapsBelow(g.mtrx, y0), NEW junk
    PROVE  YOpen(Yakanoid!AfterBricks(g, junk))
  <1> DEFINE h == Yakanoid!AfterBricks(g, junk)
             hit == Yakanoid!Hit(g.ball)
             row(b) == IF b \in hit THEN 0 ELSE g.mtrx[b]
             mtrx == [b \in AllBricks |-> row(b)]
             dy == -g.ball.dy
             ball == [g.ball EXCEPT !.dy = dy]
             k == [g EXCEPT !.ball.dy = -@, !.mtrx = mtrx]
  <1>1. g.mtrx \in [AllBricks -> {0, 1}] /\ g.ball \in Ball
    BY DEF YPlay
  <1>2. g.ball.x \in Int /\ g.ball.y \in Int /\ g.ball.dy \in {-1, 1}
    BY <1>1 DEF Ball
  <1>3. Yakanoid!Bricks = AllBricks
    BY DEF Yakanoid!Bricks, AllBricks, BrickRows, BrickCols
  <1>4. h = IF Yakanoid!Struck(g.mtrx, g.ball, junk) THEN k ELSE g
    BY <1>3 DEF Yakanoid!AfterBricks
  <1>5. k = [g EXCEPT !.ball = ball, !.mtrx = mtrx]
    BY <1>1 DEF YPlay, Ball
  <1>6. dy \in {-1, 1}
    BY <1>2
  <1> HIDE DEF dy
  <1>7. /\ ball \in Ball /\ ball.x = g.ball.x /\ ball.y = g.ball.y /\ ball.dx = g.ball.dx
    BY <1>1, <1>6 DEF Ball
  <1>8. mtrx \in [AllBricks -> {0, 1}] /\ \A b \in AllBricks : mtrx[b] = row(b)
    BY <1>1
  <1> HIDE DEF k, ball, mtrx
  <1>9. k \in YPlay /\ k.ball = ball /\ k.mtrx = mtrx
    BY <1>5, <1>7, <1>8 DEF YPlay
  <1>10. Yakanoid!AmongBricks(g.ball) <=> g.ball.y + BallR < (BrickRows + 1) * BrickH
    BY DEF Yakanoid!AmongBricks, BallR, BrickRows, BrickH
  <1>11. Yakanoid!AmongBricks(g.ball) => \A b \in AllBricks : b \in hit => h.mtrx[b] = 0
    <2>1. CASE Yakanoid!Struck(g.mtrx, g.ball, junk)
      BY <1>4, <1>8, <1>9, <2>1
    <2>2. CASE ~Yakanoid!Struck(g.mtrx, g.ball, junk)
      BY <1>3, <1>4, <2>2 DEF Yakanoid!Struck
    <2> QED
      BY <2>1, <2>2
  <1>12. \A b \in AllBricks : g.mtrx[b] = 0 => h.mtrx[b] = 0
    BY <1>4, <1>8, <1>9
  <1>13. /\ h \in YPlay /\ h.ball.x = g.ball.x /\ h.ball.y = g.ball.y /\ h.ball.dx = g.ball.dx
    BY <1>4, <1>7, <1>9
  <1> HIDE DEF h
  <1>14. ASSUME NEW r \in 0 .. BrickRows - 1, Reaches(g.ball.y, r)  PROVE Gap(h.mtrx, r)
    <2> DEFINE by == Yakanoid!Div(g.ball.y - BrickH, BrickH)
               bx == Yakanoid!Div(g.ball.x - BallR - LeftEnd, BrickW)
    <2>1. Yakanoid!AmongBricks(g.ball)
      BY <1>10, <1>14 DEF Reaches
    <2>2. CASE g.ball.y > 0 /\ r = by
      <3>1. bx \in 0 .. BrickCols - 1
        BY <1>2, ColOf DEF InField
      <3>2. r * BrickCols + bx \in hit
        BY <2>2 DEF Yakanoid!Hit, Yakanoid!FlatIndex, BrickCols, BrickH, BrickW, BallR, LeftEnd
      <3> HIDE DEF bx, by
      <3>3. r * BrickCols + bx \in AllBricks
        BY <3>1, BrickIndex
      <3>4. h.mtrx[r * BrickCols + bx] = 0
        BY <1>11, <2>1, <3>2, <3>3
      <3> QED
        BY <3>1, <3>4 DEF Gap
    <2>3. CASE ~(g.ball.y > 0 /\ r = by)
      <3>1. Reaches(y0, r)
        BY <1>2, <1>14, <2>3, ReachesBefore
      <3>2. PICK col \in 0 .. BrickCols - 1 : g.mtrx[r * BrickCols + col] = 0
        BY <3>1 DEF GapsBelow, Gap
      <3>3. r * BrickCols + col \in AllBricks
        BY BrickIndex
      <3> QED
        BY <1>12, <3>2, <3>3 DEF Gap
    <2> QED
      BY <2>2, <2>3
  <1>15. InField(h.ball)
    BY <1>13 DEF InField
  <1>16. GapsBelow(h.mtrx, h.ball.y)
    BY <1>13, <1>14 DEF GapsBelow
  <1>17. YOpen(h)
    BY <1>13, <1>15, <1>16 DEF YOpen
  <1> QED
    BY <1>17 DEF h

(* A ball that is served is below the bricks.                              *)
LEMMA ServedOpen ==
    /\ Yakanoid!Start \in Ball /\ InField(Yakanoid!Start)
    /\ \A row \in 0 .. BrickRows - 1 : ~Reaches(Yakanoid!Start.y, row)
  <1>1. /\ yakanoid.StartX \in Int /\ yakanoid.BarY \in Int /\ BallR \in Int
        /\ LeftEnd \in Int /\ RightEnd \in Int /\ BallR > 0
        /\ LeftEnd + BallR <= yakanoid.StartX /\ yakanoid.StartX + BallR < RightEnd
    BY YakanoidTyped, RightEndTyped
  <1>2. PICK n \in Int : n = (BrickRows + 1) * BrickH
    BY YakanoidTyped
  <1>3. n <= yakanoid.BarY - BallR
    BY <1>2, YakanoidTyped
  <1>4. PICK y \in Int : y = yakanoid.BarY - 2 * BallR
    BY <1>1
  <1>5. Yakanoid!Start = [pos |-> yakanoid.StartX, x |-> yakanoid.StartX, y |-> y,
                          dx |-> 1, dy |-> -1]
    BY <1>4 DEF Yakanoid!Start, BallR
  <1>6. Yakanoid!Start \in Ball
    BY <1>1, <1>5 DEF Ball
  <1>7. ~(y + BallR < n)
    BY <1>1, <1>3, <1>4
  <1>8. InField(Yakanoid!Start)
    BY <1>1, <1>5 DEF InField
  <1> QED
    BY <1>2, <1>5, <1>6, <1>7, <1>8 DEF Reaches

LEMMA YAfterBar ==
    ASSUME NEW g, YOpen(g)
    PROVE  Yakanoid!AfterBar(g) = Yakanoid!Splash \/ YOpen(Yakanoid!AfterBar(g))
  <1> DEFINE dy == -g.ball.dy
             ball == [g.ball EXCEPT !.dy = dy]
             left == g.lives - 1
             h == [g EXCEPT !.ball.dy = -@]
             k == [g EXCEPT !.lives = left, !.ball = Yakanoid!Start]
  <1>1. g \in YPlay /\ g.ball \in Ball /\ g.lives \in Int /\ g.ball.dy \in {-1, 1}
    BY DEF YOpen, YPlay, Ball
  <1>2. Yakanoid!AfterBar(g) \in {g, h, Yakanoid!Splash, k}
    BY DEF Yakanoid!AfterBar
  <1>3. h = [g EXCEPT !.ball = ball]
    BY <1>1 DEF YPlay, Ball
  <1>4. dy \in {-1, 1} /\ left \in Int
    BY <1>1
  <1> HIDE DEF dy, left
  <1>5. ball \in Ball /\ ball.x = g.ball.x /\ ball.y = g.ball.y /\ ball.dx = g.ball.dx
    BY <1>1, <1>4 DEF Ball
  <1> HIDE DEF ball, h
  <1>6. h \in YPlay /\ h.ball = ball /\ h.mtrx = g.mtrx
    BY <1>1, <1>3, <1>5 DEF YPlay
  <1>7. YOpen(h)
    BY <1>5, <1>6 DEF YOpen, InField
  <1>8. k \in YPlay /\ k.ball = Yakanoid!Start
    BY <1>1, <1>4, ServedOpen DEF YPlay
  <1>9. YOpen(k)
    BY <1>8, ServedOpen DEF YOpen, GapsBelow
  <1> HIDE DEF k
  <1> QED
    BY <1>2, <1>7, <1>9

LEMMA SteeredTyped == ASSUME NEW pos \in Int, NEW key PROVE Yakanoid!Steered(pos, key) \in Int
  <1> DEFINE p == IF key = "right" THEN pos + yakanoid.BarStep
                  ELSE IF key = "left" THEN pos - yakanoid.BarStep ELSE pos
             q == IF p - yakanoid.BarHalf < LeftEnd THEN LeftEnd + yakanoid.BarHalf ELSE p
  <1>1. /\ yakanoid.BarStep \in Int /\ yakanoid.BarHalf \in Int
        /\ LeftEnd \in Int /\ RightEnd \in Int
    BY YakanoidTyped, RightEndTyped
  <1>2. p \in Int
    BY <1>1
  <1>3. LeftEnd + yakanoid.BarHalf \in Int /\ RightEnd - yakanoid.BarHalf \in Int
    BY <1>1
  <1>4. Yakanoid!Steered(pos, key)
            = IF key = "none" THEN pos
              ELSE IF q + yakanoid.BarHalf >= RightEnd THEN RightEnd - yakanoid.BarHalf ELSE q
    BY DEF Yakanoid!Steered, LeftEnd, RightEnd
  <1> HIDE DEF p
  <1>5. q \in Int
    BY <1>2, <1>3
  <1> HIDE DEF q
  <1> QED
    BY <1>3, <1>4, <1>5

LEMMA YStep == ASSUME YOpens, Yakanoid!Next PROVE YOpens'
  <1>1. CASE Yakanoid!splash_screen
    <2>1. CASE game' = [stage |-> "fault"]
      BY <2>1 DEF YOpens
    <2>2. ASSUME game' = [stage |-> "play", mtrx |-> [b \in Yakanoid!Bricks |-> 1],
                          ball |-> Yakanoid!Start, lives |-> yakanoid.Lives]
          PROVE  YOpens'
      <3>1. Yakanoid!Bricks = AllBricks
        BY DEF Yakanoid!Bricks, AllBricks, BrickRows, BrickCols
      <3>2. game' \in YPlay /\ game'.ball = Yakanoid!Start
        BY <2>2, <3>1, ServedOpen, YakanoidTyped DEF YPlay
      <3>3. YOpen(game')
        BY <3>2, ServedOpen DEF YOpen, GapsBelow
      <3> QED
        BY <3>3 DEF YOpens
    <2> QED
      BY <1>1, <2>1, <2>2 DEF Yakanoid!splash_screen
  <1>2. ASSUME NEW key \in Yakanoid!Keys, NEW junk \in BOOLEAN, Yakanoid!Frame(key, junk)
        PROVE  YOpens'
    <2> DEFINE pos == Yakanoid!Steered(game.ball.pos, key)
               steered == [game.ball EXCEPT !.pos = pos]
               flown == Yakanoid!Flight(steered)
               g == [game EXCEPT !.ball = flown]
               h == Yakanoid!AfterBricks(g, junk)
    <2>1. YOpen(game)
      BY <1>2 DEF YOpens, Yakanoid!Frame
    <2>2. game \in YPlay /\ game.ball \in Ball /\ game.ball.pos \in Int
      BY <2>1 DEF YOpen, YPlay, Ball
    <2>3. pos \in Int
      BY <2>2, SteeredTyped
    <2>4. \/ game' = Yakanoid!Splash \/ game' = Yakanoid!AfterBar(h)
          \/ game' = [g EXCEPT !.stage = "stray"]
      <3>1. Yakanoid!Steer(game.ball, key) = steered
        BY <2>2 DEF Yakanoid!Steer, Ball
      <3>2. Yakanoid!Flown(key) = g
        BY <2>2, <3>1 DEF Yakanoid!Flown, YPlay
      <3>3. \/ game' = Yakanoid!Splash
            \/ game' = Yakanoid!AfterBar(Yakanoid!AfterBricks(Yakanoid!Flown(key), junk))
            \/ game' = [Yakanoid!Flown(key) EXCEPT !.stage = "stray"]
        BY <1>2 DEF Yakanoid!Frame
      <3> HIDE DEF g
      <3> QED
        BY <3>2, <3>3, Zenon
    <2> HIDE DEF pos
    <2>5. steered \in Ball /\ InField(steered) /\ steered.y = game.ball.y
      BY <2>1, <2>2, <2>3 DEF Ball, YOpen, InField
    <2> HIDE DEF steered
    <2>6. flown \in Ball /\ InField(flown) /\ flown.y = steered.y + steered.dy
      BY <2>5, YFlight
    <2> HIDE DEF flown
    <2>7. g \in YPlay /\ g.ball = flown /\ g.mtrx = game.mtrx
      BY <2>2, <2>6 DEF YPlay
    <2>8. game.ball.y \in Int /\ game.ball.y <= g.ball.y + 1
      <3>1. game.ball.y \in Int /\ steered.dy \in {-1, 1}
        BY <2>2, <2>5 DEF Ball
      <3> QED
        BY <2>5, <2>6, <2>7, <3>1
    <2> HIDE DEF g
    <2>9. YOpen(h)
      BY <2>1, <2>6, <2>7, <2>8, YAfterBricks DEF YOpen
    <2> HIDE DEF h
    <2>10. CASE game' = Yakanoid!Splash
      BY <2>10 DEF YOpens, Yakanoid!Splash
    <2>11. CASE game' = Yakanoid!AfterBar(h)
      <3>1. game' = Yakanoid!Splash \/ YOpen(game')
        BY <2>9, <2>11, YAfterBar
      <3> QED
        BY <3>1 DEF YOpens, Yakanoid!Splash
    <2>12. CASE game' = [g EXCEPT !.stage = "stray"]
      <3>1. /\ game' \in YPlay /\ game'.stage = "stray"
            /\ game'.ball = g.ball /\ game'.mtrx = g.mtrx
        BY <2>7, <2>12 DEF YPlay
      <3>2. InField(game'.ball)
        BY <2>6, <2>7, <3>1
      <3>3. ASSUME g.ball.y <= 0, NEW row \in 0 .. BrickRows - 1  PROVE Gap(g.mtrx, row)
        <4>1. g.ball.y \in Int
          BY <2>6, <2>7 DEF Ball
        <4>2. Reaches(g.ball.y, row)
          BY <3>3, <4>1, HighReaches
        <4>3. Reaches(game.ball.y, row)
          BY <2>8, <3>3, <4>1, <4>2, ReachesBefore
        <4> QED
          BY <2>1, <2>7, <4>3 DEF YOpen, GapsBelow
      <3>4. YFlown(game')
        BY <3>1, <3>2, <3>3 DEF YFlown
      <3> QED
        BY <3>1, <3>4 DEF YOpens
    <2> QED
      BY <2>4, <2>10, <2>11, <2>12
  <1> QED
    BY <1>1, <1>2 DEF Yakanoid!Next, Yakanoid!game_loop

(* The places the ball is taken for, in a row of bricks.                   *)
LEMMA HitsInRow ==
    ASSUME NEW ball \in Ball, InField(ball), ball.y > 0, Yakanoid!AmongBricks(ball)
    PROVE  LET by == Yakanoid!Div(ball.y - BrickH, BrickH)
           IN  \/ Yakanoid!Hit(ball) \subseteq AllBricks
               \/ /\ by = BrickRows - 1 /\ ball.x + BallR = RightEnd
                  /\ Yakanoid!Hit(ball) \subseteq AllBricks \cup {BrickRows * BrickCols}
  <1> DEFINE by == Yakanoid!Div(ball.y - BrickH, BrickH)
             bx == Yakanoid!Div(ball.x - BallR - LeftEnd, BrickW)
             bx2 == Yakanoid!Div(ball.x + BallR - LeftEnd, BrickW)
  <1>1. ball.x \in Int /\ ball.y \in Int
    BY DEF Ball
  <1>2. /\ BrickH \in Nat /\ BrickH > 1 /\ BallR \in Int /\ BallR > 0
        /\ BrickRows \in Nat /\ BrickCols \in Nat /\ BrickCols > 0
    BY YakanoidTyped
  <1>3. Yakanoid!Hit(ball) = {by * BrickCols + bx, by * BrickCols + bx2}
    BY DEF Yakanoid!Hit, Yakanoid!FlatIndex, BrickCols, BrickH, BrickW, BallR, LeftEnd
  <1>4. bx \in 0 .. BrickCols - 1
    BY <1>1, ColOf DEF InField
  <1>5. bx2 \in 0 .. BrickCols - 1 \/ (bx2 = BrickCols /\ ball.x + BallR = RightEnd)
    BY <1>1, RightColOf DEF InField
  <1>6. by \in Int /\ by >= 0 /\ (by = 0 \/ (by + 1) * BrickH <= ball.y)
    BY <1>1, RowOf
  <1> HIDE DEF by, bx, bx2
  <1>7. by \in 0 .. BrickRows - 1
    <2> SUFFICES ASSUME BrickRows <= by  PROVE FALSE
      BY <1>2, <1>6
    <2>1. by # 0
      BY <1>2, YakanoidTyped
    <2>2. (BrickRows + 1) * BrickH <= (by + 1) * BrickH
      BY <1>2, <1>6, MulMono
    <2>3. ball.y + BallR < (BrickRows + 1) * BrickH
      BY DEF Yakanoid!AmongBricks, BallR, BrickRows, BrickH
    <2>4. PICK m \in Int : m = (BrickRows + 1) * BrickH
      BY <1>2
    <2>5. PICK n \in Int : n = (by + 1) * BrickH
      BY <1>2, <1>6
    <2> QED
      BY <1>1, <1>2, <1>6, <2>1, <2>2, <2>3, <2>4, <2>5
  <1>8. by * BrickCols + bx \in AllBricks
    BY <1>4, <1>7, BrickIndex
  <1>9. CASE bx2 \in 0 .. BrickCols - 1
    <2>1. by * BrickCols + bx2 \in AllBricks
      BY <1>7, <1>9, BrickIndex
    <2>2. Yakanoid!Hit(ball) \subseteq AllBricks
      BY <1>3, <1>8, <2>1
    <2> QED
      BY <2>2 DEF by
  <1>10. CASE bx2 = BrickCols /\ ball.x + BallR = RightEnd
    <2>1. by * BrickCols + bx2 = (by + 1) * BrickCols
      BY <1>2, <1>6, <1>10
    <2>2. CASE by = BrickRows - 1
      <3>1. by + 1 = BrickRows
        BY <1>2, <2>2
      <3>2. Yakanoid!Hit(ball) \subseteq AllBricks \cup {BrickRows * BrickCols}
        BY <1>3, <1>8, <2>1, <3>1
      <3> QED
        BY <1>10, <2>2, <3>2 DEF by
    <2>3. CASE by # BrickRows - 1
      <3>1. by + 1 \in 0 .. BrickRows - 1 /\ 0 \in 0 .. BrickCols - 1
        BY <1>2, <1>7, <2>3
      <3>2. (by + 1) * BrickCols + 0 \in AllBricks
        BY <3>1, BrickIndex
      <3>3. (by + 1) * BrickCols + 0 = (by + 1) * BrickCols
        BY <1>2, <1>6
      <3>4. Yakanoid!Hit(ball) \subseteq AllBricks
        BY <1>3, <1>8, <2>1, <3>2, <3>3
      <3> QED
        BY <3>4 DEF by
    <2> QED
      BY <2>2, <2>3
  <1> QED
    BY <1>5, <1>9, <1>10

LEMMA YSays == YOpens => Yakanoid!StraysOnlyWhere
  <1> SUFFICES ASSUME YFlown(game), Yakanoid!AmongBricks(game.ball)
               PROVE  LET by == Yakanoid!Div(game.ball.y - BrickH, BrickH)
                      IN  \/ Yakanoid!Hit(game.ball) \subseteq AllBricks
                          \/ /\ by = BrickRows - 1 /\ game.ball.x + BallR = RightEnd
                             /\ Yakanoid!Hit(game.ball) \subseteq AllBricks \cup {BrickRows * BrickCols}
                          \/ by < 0 /\ \A row \in 0 .. BrickRows - 1 : Gap(game.mtrx, row)
    <2>1. YOpen(game) => YFlown(game)
      <3> SUFFICES ASSUME YOpen(game), game.ball.y <= 0, NEW row \in 0 .. BrickRows - 1
                   PROVE  Gap(game.mtrx, row)
        BY DEF YOpen, YFlown
      <3>1. game.ball.y \in Int
        BY DEF YOpen, YPlay, Ball
      <3> QED
        BY <3>1, HighReaches DEF YOpen, GapsBelow
    <2>2. YOpens => game.stage \in {"splash", "fault"} \/ YFlown(game)
      BY <2>1 DEF YOpens
    <2>3. game.stage \in {"splash", "fault"} => Yakanoid!StraysOnlyWhere
      BY DEF Yakanoid!StraysOnlyWhere
    <2> QED
      BY <2>2, <2>3 DEF Yakanoid!StraysOnlyWhere, Gap, BrickH, BrickRows, BrickCols, BallR,
                        RightEnd, AllBricks, Yakanoid!Bricks
  <1>1. game.ball \in Ball /\ InField(game.ball) /\ game.ball.y \in Int
    BY DEF YFlown, YPlay, Ball
  <1>2. CASE game.ball.y > 0
    BY <1>1, <1>2, HitsInRow
  <1>3. CASE game.ball.y <= 0
    <2>1. Yakanoid!Div(game.ball.y - BrickH, BrickH) < 0
      BY <1>1, <1>3, RowOf
    <2>2. \A row \in 0 .. BrickRows - 1 : Gap(game.mtrx, row)
      BY <1>3 DEF YFlown
    <2> QED
      BY <2>1, <2>2
  <1> QED
    BY <1>1, <1>2, <1>3

-----------------------------------------------------------------------------
(* All ROMs                                                                *)

RomInv ==
    /\ rom = "yakanoid" => YOpens
    /\ rom = "vaders" => VCounts
    /\ rom = "hunter" => HCounts

LEMMA RomInit == Init => RomInv
  BY DEF Init, Pong!Init, Pong!Splash, RomInv, YOpens, VCounts, HCounts

LEMMA RomStep == RomInv /\ [Next]_vars => RomInv'
  <1> SUFFICES ASSUME RomInv, [Next]_vars PROVE RomInv'
    OBVIOUS
  <1>1. CASE PongNext
    BY <1>1 DEF PongNext, RomInv
  <1>2. CASE YakanoidNext
    BY <1>2, YStep DEF YakanoidNext, RomInv
  <1>3. CASE VadersNext
    BY <1>3, VStep DEF VadersNext, RomInv
  <1>4. CASE HunterNext
    BY <1>4, HStep DEF HunterNext, RomInv
  <1>5. CASE PerrodNext
    BY <1>5 DEF PerrodNext, RomInv
  <1>6. CASE SkateNext
    BY <1>6 DEF SkateNext, RomInv
  <1>7. CASE UNCHANGED vars
    BY <1>7 DEF vars, RomInv, YOpens, VCounts, HCounts
  <1> QED
    BY <1>1, <1>2, <1>3, <1>4, <1>5, <1>6, <1>7 DEF Next

LEMMA RomAlways == Spec => []RomInv
  <1>1. Init => RomInv
    BY RomInit
  <1>2. RomInv /\ [Next]_vars => RomInv'
    BY RomStep
  <1> QED
    BY <1>1, <1>2, PTL DEF Spec

(* vaders.c:248-304, hunter.c:205-281: whatever the player does, the dead  *)
(* monsters that decide the game of the vaders are counted once each, and  *)
(* the score of the hunter is the number of hits that its row shows.       *)
THEOREM HitsStayCounted == Spec => []HitsCounted
  <1>1. RomInv => HitsCounted
    BY VSays, HSays DEF RomInv, HitsCounted
  <1> QED
    BY <1>1, RomAlways, PTL

(* yakanoid.c:129-139: the places the ball is taken for lie in the field,  *)
(* but for the one behind its last brick, which a ball at the right wall   *)
(* is taken for in the lowest row, and for those above the bricks, where   *)
(* the ball comes only when each row has a gap.                            *)
THEOREM IndicesStrayOnlyThere == Spec => []StraysOnlyWhere
  <1>1. RomInv => StraysOnlyWhere
    BY YSays DEF RomInv, StraysOnlyWhere
  <1> QED
    BY <1>1, RomAlways, PTL
===============================================================================
