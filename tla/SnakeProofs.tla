----------------------------- MODULE SnakeProofs -----------------------------
(***************************************************************************)
(* The game for every board, every size of the ring buffer and all timers: *)
(* the buffer holds a path of free cells, food and bonus can be reached,   *)
(* and snake and obstacles are drawn.                                      *)
(***************************************************************************)
EXTENDS Snake, TLAPS, FiniteSetTheorems

\* A leaf that names no prover goes to the SMT solver, with time to spare.
USE SMTT(30)

-----------------------------------------------------------------------------
(* The board.                                                              *)

LEMMA Sizes ==
  /\ BOARD_ROWS \in Nat \ {0, 1} /\ BOARD_COLS \in Nat \ {0, 1} /\ SNAKE_MAX \in Nat \ {0}
  /\ MAX_OBSTACLES \in Nat /\ OBSTACLE_INIT_COUNT \in 0 .. MAX_OBSTACLES
  /\ OBSTACLE_STEP_INTERVAL \in Nat \ {0} /\ MAX_BOOST_ZONES \in Nat
BY SnakeAssumption, Zenon

\* A coordinate that goes around the board comes back, and is not where it was.
LEMMA AroundBack ==
  ASSUME NEW n \in Nat \ {0, 1}, NEW x \in 1 .. n
  PROVE  /\ Around(x, n) = x
         /\ Around(x - 1, n) \in 1 .. n /\ Around(x - 1, n) # x
         /\ Around(Around(x - 1, n) + 1, n) = x
         /\ Around(x + 1, n) \in 1 .. n /\ Around(x + 1, n) # x
         /\ Around(Around(x + 1, n) - 1, n) = x
BY DEF Around

LEMMA MovedTo ==
  ASSUME NEW r, NEW c
  PROVE  /\ Moved(<<r, c>>, "Up") = <<r - 1, c>> /\ Moved(<<r, c>>, "Down") = <<r + 1, c>>
         /\ Moved(<<r, c>>, "Left") = <<r, c - 1>> /\ Moved(<<r, c>>, "Right") = <<r, c + 1>>
<1>1. <<r, c>>[1] = r /\ <<r, c>>[2] = c
  OBVIOUS
<1>. QED  BY <1>1, Zenon DEF Moved

LEMMA CellIs ==
  ASSUME NEW p \in Cells
  PROVE  \E r \in 1 .. BOARD_ROWS, c \in 1 .. BOARD_COLS : p = <<r, c>>
BY DEF Cells

\* The way back from a neighbour.
LEMMA NeighbourBack ==
  ASSUME NEW p \in Cells, NEW d \in Dirs
  PROVE  Neighbour(p, d) # p /\ Near(Neighbour(p, d), p)
<1>1. PICK r \in 1 .. BOARD_ROWS, c \in 1 .. BOARD_COLS : p = <<r, c>>
  BY CellIs, Zenon
<1>0. BOARD_ROWS \in Nat \ {0, 1} /\ BOARD_COLS \in Nat \ {0, 1}
  BY Sizes, Zenon
<1>2. PICK up, down, left, right :
        /\ up = Neighbour(p, "Up") /\ down = Neighbour(p, "Down")
        /\ left = Neighbour(p, "Left") /\ right = Neighbour(p, "Right")
  BY Zenon
<1>3. /\ up # p /\ Neighbour(up, "Down") = p /\ down # p /\ Neighbour(down, "Up") = p
      /\ left # p /\ Neighbour(left, "Right") = p /\ right # p /\ Neighbour(right, "Left") = p
  <2>1. CASE wrapMode
    <3>1. ASSUME NEW x, NEW y
          PROVE  /\ Neighbour(<<x, y>>, "Up") = <<Around(x - 1, BOARD_ROWS), Around(y, BOARD_COLS)>>
                 /\ Neighbour(<<x, y>>, "Down") = <<Around(x + 1, BOARD_ROWS), Around(y, BOARD_COLS)>>
                 /\ Neighbour(<<x, y>>, "Left") = <<Around(x, BOARD_ROWS), Around(y - 1, BOARD_COLS)>>
                 /\ Neighbour(<<x, y>>, "Right") = <<Around(x, BOARD_ROWS), Around(y + 1, BOARD_COLS)>>
      <4>1. \A q, e : Neighbour(q, e)
                        = <<Around(Moved(q, e)[1], BOARD_ROWS), Around(Moved(q, e)[2], BOARD_COLS)>>
        BY <2>1, Zenon DEF Neighbour
      <4>2. /\ Moved(<<x, y>>, "Up") = <<x - 1, y>> /\ Moved(<<x, y>>, "Down") = <<x + 1, y>>
            /\ Moved(<<x, y>>, "Left") = <<x, y - 1>> /\ Moved(<<x, y>>, "Right") = <<x, y + 1>>
        BY MovedTo, Zenon
      <4>. QED  BY <4>1, <4>2
    <3>2. /\ Around(r, BOARD_ROWS) = r
          /\ Around(r - 1, BOARD_ROWS) # r /\ Around(r + 1, BOARD_ROWS) # r
          /\ Around(Around(r - 1, BOARD_ROWS) + 1, BOARD_ROWS) = r
          /\ Around(Around(r + 1, BOARD_ROWS) - 1, BOARD_ROWS) = r
      BY <1>0, AroundBack
    <3>3. /\ Around(c, BOARD_COLS) = c
          /\ Around(c - 1, BOARD_COLS) # c /\ Around(c + 1, BOARD_COLS) # c
          /\ Around(Around(c - 1, BOARD_COLS) + 1, BOARD_COLS) = c
          /\ Around(Around(c + 1, BOARD_COLS) - 1, BOARD_COLS) = c
      BY <1>0, AroundBack
    <3>4. /\ up = <<Around(r - 1, BOARD_ROWS), c>> /\ down = <<Around(r + 1, BOARD_ROWS), c>>
          /\ left = <<r, Around(c - 1, BOARD_COLS)>> /\ right = <<r, Around(c + 1, BOARD_COLS)>>
      BY <1>1, <1>2, <3>1, <3>2, <3>3
    <3>5. up # p /\ down # p /\ left # p /\ right # p
      BY <1>1, <3>2, <3>3, <3>4
    <3>. QED  BY <1>1, <3>1, <3>2, <3>3, <3>4, <3>5
  <2>2. CASE ~wrapMode
    <3>1. \A q, e : Neighbour(q, e) = Moved(q, e)
      BY <2>2, Zenon DEF Neighbour
    <3>2. up = <<r - 1, c>> /\ down = <<r + 1, c>> /\ left = <<r, c - 1>> /\ right = <<r, c + 1>>
      BY <1>1, <1>2, <3>1, MovedTo, Zenon
    <3>3. up # p /\ down # p /\ left # p /\ right # p
      BY <1>1, <3>2
    <3>4. r - 1 + 1 = r /\ r + 1 - 1 = r /\ c - 1 + 1 = c /\ c + 1 - 1 = c
      OBVIOUS
    <3>. QED  BY <1>1, <3>1, <3>2, <3>3, <3>4, MovedTo
  <2>. QED  BY <2>1, <2>2
<1>. QED  BY <1>2, <1>3, Zenon DEF Near, Dirs

-----------------------------------------------------------------------------
(* The ring buffer.                                                        *)

\* The index of the i-th cell from the head.
LEMMA SlotOf ==
  ASSUME NEW h \in 0 .. SNAKE_MAX - 1, NEW i \in 1 .. SNAKE_MAX + 1
  PROVE  (h - (i - 1) + SNAKE_MAX) % SNAKE_MAX
           = IF i <= h + 1 THEN h - i + 1 ELSE h - i + 1 + SNAKE_MAX
<1>1. PICK m \in Nat \ {0} : m = SNAKE_MAX
  BY Sizes
<1>2. PICK a \in 0 .. 2 * m - 1 : a = h - (i - 1) + m
  BY <1>1
<1>3. a % m = IF a < m THEN a ELSE a - m
  OBVIOUS
<1>. QED  BY <1>1, <1>2, <1>3

LEMMA HeadAfter ==
  ASSUME NEW h \in 0 .. SNAKE_MAX - 1
  PROVE  (h + 1) % SNAKE_MAX = IF h + 1 < SNAKE_MAX THEN h + 1 ELSE 0
<1>1. PICK m \in Nat \ {0} : m = SNAKE_MAX
  BY Sizes
<1>2. PICK a \in 0 .. 2 * m - 1 : a = h + 1
  BY <1>1
<1>3. a % m = IF a < m THEN a ELSE a - m
  OBVIOUS
<1>. QED  BY <1>1, <1>2, <1>3

Arrays == [0 .. SNAKE_MAX - 1 -> Cells \cup {<<0, 0>>}]

\* Cell p is put in front of the snake, which grows or not.
Push(arr, h, len, p, arr2, h2, len2) ==
  /\ arr \in Arrays /\ h \in 0 .. SNAKE_MAX - 1 /\ len \in 1 .. SNAKE_MAX /\ p \in Cells
  /\ h2 = (h + 1) % SNAKE_MAX /\ arr2 = [arr EXCEPT ![h2] = p] /\ len2 \in {len, len + 1}

\* The new head is the first of s2, and the cells of s move up by one.
Ahead(s, len, p, arr2, h2, s2, len2) ==
  /\ h2 \in 0 .. SNAKE_MAX - 1 /\ arr2 \in Arrays
  /\ DOMAIN s2 = 1 .. len2 /\ s2[1] = p /\ arr2[h2] = p
  /\ len2 <= SNAKE_MAX => \A i \in 2 .. len2 : i - 1 \in 1 .. len /\ s2[i] = s[i - 1]

LEMMA Pushed ==
  ASSUME NEW arr, NEW h, NEW len, NEW p, NEW arr2, NEW h2, NEW len2,
         Push(arr, h, len, p, arr2, h2, len2)
  PROVE  Ahead(Snake(arr, h, len), len, p, arr2, h2, Snake(arr2, h2, len2), len2)
<1>. DEFINE At(x, i) == (x - (i - 1) + SNAKE_MAX) % SNAKE_MAX
            s == Snake(arr, h, len)
            s2 == Snake(arr2, h2, len2)
<1>1. /\ SNAKE_MAX \in Nat \ {0} /\ h \in 0 .. SNAKE_MAX - 1
      /\ len \in 1 .. SNAKE_MAX /\ len2 \in {len, len + 1}
  BY Sizes, Zenon DEF Push
<1>2. h2 = IF h + 1 < SNAKE_MAX THEN h + 1 ELSE 0
  BY <1>1, HeadAfter DEF Push
<1>3. h2 \in 0 .. SNAKE_MAX - 1
  BY <1>1, <1>2
<1>4. arr2 \in Arrays /\ arr2[h2] = p /\ \A j \in 0 .. SNAKE_MAX - 1 : j # h2 => arr2[j] = arr[j]
  <2>1. arr \in Arrays /\ p \in Cells /\ arr2 = [arr EXCEPT ![h2] = p]
    BY Zenon DEF Push
  <2>. QED  BY <1>3, <2>1 DEF Arrays
<1>5. /\ DOMAIN s2 = 1 .. len2
      /\ \A i \in 1 .. len : s[i] = arr[At(h, i)]
      /\ \A i \in 1 .. len2 : s2[i] = arr2[At(h2, i)]
  BY DEF Snake
<1>6. \A i \in 1 .. SNAKE_MAX + 1 :
        /\ At(h, i) = IF i <= h + 1 THEN h - i + 1 ELSE h - i + 1 + SNAKE_MAX
        /\ At(h2, i) = IF i <= h2 + 1 THEN h2 - i + 1 ELSE h2 - i + 1 + SNAKE_MAX
  BY <1>1, <1>3, SlotOf
<1>. HIDE DEF At, s, s2
<1>7. s2[1] = p
  <2>1. At(h2, 1) = h2
    BY <1>1, <1>3, <1>6
  <2>2. 1 \in 1 .. len2
    BY <1>1
  <2>. QED  BY <1>4, <1>5, <2>1, <2>2, Zenon
<1>8. ASSUME len2 <= SNAKE_MAX, NEW i \in 2 .. len2
      PROVE  i - 1 \in 1 .. len /\ s2[i] = s[i - 1]
  <2>1. i - 1 \in 1 .. len /\ i \in 1 .. len2 /\ i \in 1 .. SNAKE_MAX /\ i - 1 \in 1 .. SNAKE_MAX + 1
        /\ i \in 1 .. SNAKE_MAX + 1
    BY <1>1, <1>8
  <2>2. At(h2, i) = At(h, i - 1) /\ At(h2, i) # h2 /\ At(h2, i) \in 0 .. SNAKE_MAX - 1
    BY <1>1, <1>2, <1>3, <1>6, <1>8, <2>1
  <2>. QED  BY <1>4, <1>5, <2>1, <2>2, Zenon
<1>9. Ahead(s, len, p, arr2, h2, s2, len2)
  BY <1>3, <1>4, <1>5, <1>7, <1>8, Zenon DEF Ahead
<1>. QED  BY <1>9, Zenon DEF s, s2

-----------------------------------------------------------------------------
(* Placing things.                                                         *)

LEMMA CellsFinite == IsFiniteSet(Cells) /\ Cardinality(Cells) = BOARD_ROWS * BOARD_COLS
<1>1. /\ IsFiniteSet(1 .. BOARD_ROWS) /\ Cardinality(1 .. BOARD_ROWS) = BOARD_ROWS
      /\ IsFiniteSet(1 .. BOARD_COLS) /\ Cardinality(1 .. BOARD_COLS) = BOARD_COLS
  BY Sizes, FS_Interval
<1>2. PICK R, C : R = 1 .. BOARD_ROWS /\ C = 1 .. BOARD_COLS
  BY Zenon
<1>3. IsFiniteSet(R \X C) /\ Cardinality(R \X C) = Cardinality(R) * Cardinality(C)
  BY <1>1, <1>2, FS_Product, Zenon
<1>. QED  BY <1>1, <1>2, <1>3, Zenon DEF Cells

\* What a game can have on the board leaves a cell free.
LEMMA FreeCell ==
  ASSUME NEW X, IsFiniteSet(X), Cardinality(X) <= SNAKE_MAX + MAX_OBSTACLES + 1
  PROVE  Cells \ X # {}
<1>1. SUFFICES ASSUME Cells \ X = {} PROVE FALSE
  OBVIOUS
<1>2. Cells \in SUBSET X
  BY <1>1
<1>3. Cardinality(Cells) <= Cardinality(X)
  BY <1>2, FS_Subset, Zenon
<1>4. Cardinality(X) \in Nat /\ Cardinality(Cells) \in Nat
  BY CellsFinite, FS_CardinalityType
<1>5. PICK area : area = BOARD_ROWS * BOARD_COLS
  BY Zenon
<1>6. SNAKE_MAX + MAX_OBSTACLES + 1 < area /\ Cardinality(Cells) = area
  BY <1>5, CellsFinite, SnakeAssumption, Zenon
<1>. QED  BY <1>3, <1>4, <1>6, Sizes

\* The buffer has no more cells than places.
LEMMA SnakeSmall ==
  ASSUME NEW arr \in Arrays, NEW h \in 0 .. SNAKE_MAX - 1, NEW len \in 1 .. SNAKE_MAX + 1
  PROVE  LET S == Range(Snake(arr, h, len)) IN IsFiniteSet(S) /\ Cardinality(S) <= SNAKE_MAX
<1>. DEFINE S == Range(Snake(arr, h, len))
            I == 0 .. SNAKE_MAX - 1
            T == Range(arr)
<1>1. IsFiniteSet(I) /\ Cardinality(I) = SNAKE_MAX
  BY Sizes, FS_Interval
<1>2. arr \in Surjection(I, T)
  BY DEF Surjection, Arrays, Range
<1>3. IsFiniteSet(T) /\ Cardinality(T) <= SNAKE_MAX
  BY <1>1, <1>2, FS_Surjection
<1>4. S \in SUBSET T
  <2>1. \A i \in 1 .. len : (h - (i - 1) + SNAKE_MAX) % SNAKE_MAX \in I
    <3>1. SUFFICES ASSUME NEW i \in 1 .. len
                   PROVE  (h - (i - 1) + SNAKE_MAX) % SNAKE_MAX \in I
      OBVIOUS
    <3>2. i \in 1 .. SNAKE_MAX + 1
      BY Sizes
    <3>. QED  BY <3>2, Sizes, SlotOf
  <2>2. DOMAIN arr = I /\ DOMAIN Snake(arr, h, len) = 1 .. len
    BY DEF Arrays, Snake
  <2>. QED  BY <2>1, <2>2 DEF Snake, Range
<1>5. IsFiniteSet(S) /\ Cardinality(S) <= Cardinality(T)
  BY <1>3, <1>4, FS_Subset
<1>6. Cardinality(S) \in Nat /\ Cardinality(T) \in Nat
  BY <1>3, <1>5, FS_CardinalityType
<1>. QED  BY <1>3, <1>5, <1>6, Sizes

LEMMA MinOfTwo ==
  ASSUME NEW a \in Int, NEW b \in Int
  PROVE  Min({a, b}) \in {a, b} /\ Min({a, b}) <= a
<1>1. \E x \in {a, b} : \A y \in {a, b} : x =< y
  OBVIOUS
<1>2. Min({a, b}) \in {a, b} /\ \A y \in {a, b} : Min({a, b}) =< y
  BY <1>1 DEF Min
<1>. QED  BY <1>2

LEMMA PlacedOK ==
  ASSUME NEW taken, NEW n \in Nat, NEW S \in Placements(taken, n)
  PROVE  /\ S \subseteq Cells /\ S \cap taken = {}
         /\ IsFiniteSet(S) /\ Cardinality(S) \in Nat /\ Cardinality(S) <= n
<1>. DEFINE free == Cells \ taken
<1>1. IsFiniteSet(free) /\ Cardinality(free) \in Nat
  <2>1. IsFiniteSet(free)
    BY CellsFinite, FS_Difference, Zenon
  <2>. QED  BY <2>1, FS_CardinalityType, Zenon
<1>2. S \in SUBSET free /\ Cardinality(S) = Min({n, Cardinality(free)})
  <2>1. PICK k : k = Min({n, Cardinality(free)})
    BY Zenon
  <2>2. S \in kSubset(k, free)
    BY <2>1, Zenon DEF Placements
  <2>. QED  BY <2>1, <2>2 DEF kSubset
<1>3. IsFiniteSet(S) /\ Cardinality(S) \in Nat
  BY <1>1, <1>2, FS_Subset, FS_CardinalityType
<1>4. Cardinality(S) <= n
  BY <1>1, <1>2, MinOfTwo
<1>. QED  BY <1>2, <1>3, <1>4

\* placeFood and placeBonusFood find a free cell.
LEMMA FoodPlaced ==
  ASSUME NEW snake, IsFiniteSet(snake), Cardinality(snake) <= SNAKE_MAX,
         NEW walls, IsFiniteSet(walls), Cardinality(walls) <= MAX_OBSTACLES, NEW fd
  PROVE  /\ PlaceFood(snake, walls) = Cells \ (snake \cup walls)
         /\ PlaceBonusFood(snake, walls, fd) = Cells \ (snake \cup walls \cup {fd})
<1>1. Cardinality(snake) \in Nat /\ Cardinality(walls) \in Nat
  BY FS_CardinalityType
<1>2. IsFiniteSet(snake \cup walls) /\ Cardinality(snake \cup walls) <= SNAKE_MAX + MAX_OBSTACLES
  <2>1. IsFiniteSet(snake \cap walls) /\ Cardinality(snake \cap walls) \in Nat
    <3>1. IsFiniteSet(snake \cap walls)
      BY FS_Intersection, Zenon
    <3>. QED  BY <3>1, FS_CardinalityType, Zenon
  <2>2. /\ IsFiniteSet(snake \cup walls)
        /\ Cardinality(snake \cup walls)
             = Cardinality(snake) + Cardinality(walls) - Cardinality(snake \cap walls)
    BY FS_Union, Zenon
  <2>. QED  BY <1>1, <2>1, <2>2, Sizes
<1>3. Cardinality(snake \cup walls) \in Nat
  BY <1>2, FS_CardinalityType
<1>4. Cells \ (snake \cup walls) # {}
  BY <1>2, <1>3, Sizes, FreeCell
<1>5. Cells \ (snake \cup walls \cup {fd}) # {}
  <2>1. PICK X : X = snake \cup walls
    BY Zenon
  <2>2. /\ IsFiniteSet(X) /\ Cardinality(X) \in Nat
        /\ Cardinality(X) <= SNAKE_MAX + MAX_OBSTACLES
    BY <1>2, <1>3, <2>1, Zenon
  <2>3. /\ IsFiniteSet(X \cup {fd})
        /\ Cardinality(X \cup {fd}) = IF fd \in X THEN Cardinality(X) ELSE Cardinality(X) + 1
    BY <2>2, FS_AddElement, Zenon
  <2>4. Cardinality(X \cup {fd}) <= SNAKE_MAX + MAX_OBSTACLES + 1
    BY <2>2, <2>3, Sizes
  <2>. QED  BY <2>1, <2>3, <2>4, FreeCell, Zenon
<1>. QED  BY <1>4, <1>5, Zenon DEF PlaceFood, PlaceBonusFood

-----------------------------------------------------------------------------
(* The invariant.                                                          *)

\* The cells of s are a path on the board, beside the obstacles.
Path(s, len, walls) ==
  /\ \A i \in 1 .. len : s[i] \in Cells \ walls
  /\ \A i, j \in 1 .. len : s[i] = s[j] => i = j
  /\ \A i \in 1 .. len - 1 : Near(s[i], s[i + 1])

\* The fields of the timers, of which TypeOK only says what runs.
TimersOK ==
  /\ bonus \in [active : BOOLEAN, pos : Cells \cup {<<0, 0>>}, remaining : Nat, elapsed : Nat]
  /\ boost \in [active : BOOLEAN, timer : Nat, cooldown : Nat]

\* The three properties hold together.  Before the game starts the snake is its
\* head, and the boost zones are not on obstacles, so that drawBoard hides none.
SnakeInv ==
  /\ BodyIsPath /\ FoodIsFree /\ DangerIsVisible /\ TimersOK
  /\ phase = "choose" => length = 1 /\ ~paused /\ zones \cap obstacles = {}
  /\ phase = "paused" => paused

LEMMA CenterIsCell == Center \in Cells
<1>1. 1 + BOARD_ROWS \div 2 \in 1 .. BOARD_ROWS /\ 1 + BOARD_COLS \div 2 \in 1 .. BOARD_COLS
  BY Sizes
<1>. QED  BY <1>1 DEF Center, CENTER_ROW, Cells

\* The snake from the head on.
LEMMA SnakeIs ==
  ASSUME TypeOK
  PROVE  /\ DOMAIN Snake(body, head, length) = 1 .. length
         /\ Snake(body, head, length)[1] = body[head]
         /\ Body = {Snake(body, head, length)[i] : i \in 1 .. length}
<1>1. /\ head \in 0 .. SNAKE_MAX - 1 /\ length \in 1 .. SNAKE_MAX + 1
  BY Zenon DEF TypeOK
<1>2. (head - (1 - 1) + SNAKE_MAX) % SNAKE_MAX = head
  BY <1>1, Sizes, SlotOf
<1>3. DOMAIN Snake(body, head, length) = 1 .. length
  BY Zenon DEF Snake
<1>4. Snake(body, head, length)[1] = body[head]
  <2>1. 1 \in 1 .. length
    BY <1>1, Sizes
  <2>. QED  BY <1>2, <2>1, Zenon DEF Snake
<1>. QED  BY <1>3, <1>4, Zenon DEF Body, Range

LEMMA PathDef ==
  ASSUME TypeOK
  PROVE  BodyIsPath <=> (length <= SNAKE_MAX => Path(Snake(body, head, length), length, obstacles))
<1>1. PICK s : s = Snake(body, head, length)
  BY Zenon
<1>2. DOMAIN s = 1 .. length /\ Body = {s[i] : i \in 1 .. length}
  BY <1>1, SnakeIs, Zenon
<1>3. Body \subseteq Cells \ obstacles <=> \A i \in 1 .. length : s[i] \in Cells \ obstacles
  BY <1>2, Zenon
<1>4. IsInjective(s) <=> \A i, j \in 1 .. length : s[i] = s[j] => i = j
  BY <1>2, Zenon DEF IsInjective
<1>. QED  BY <1>1, <1>3, <1>4, Zenon DEF BodyIsPath, Path

-----------------------------------------------------------------------------
(* A step of the game.                                                     *)

Ate == NextCell = food
AteBonus == NextCell \in BonusCells(bonus)
TailCell == Snake(body, head, length)[length]
Eats == IF Ate /\ Cardinality(obstacles) < MAX_OBSTACLES
          THEN eatsSinceObstacle + 1 ELSE eatsSinceObstacle
Left == zones \ {NextCell}
Respawn(dt) == Left = {} /\ boost.cooldown + dt >= BOOST_RESPAWN_MS
NewSnake == Range(Snake(body', head', length'))
NewObstacles == IF Eats >= OBSTACLE_STEP_INTERVAL THEN SpawnObstacle(NewSnake) ELSE {{}}

LEMMA StepMoves ==
  ASSUME NEW dt, Step(dt)
  PROVE  /\ phase = "play" /\ ~Collision(NextCell) /\ length <= SNAKE_MAX /\ steps < MaxSteps
         /\ head' = (head + 1) % SNAKE_MAX /\ body' = [body EXCEPT ![head'] = NextCell]
         /\ length' = IF Ate THEN length + 1 ELSE length
         /\ score' = score + (IF Ate THEN 1 ELSE 0) + (IF AteBonus THEN BONUS_POINTS ELSE 0)
         /\ steps' = steps + 1
         /\ UNCHANGED <<phase, wrapMode, dir, paused>>
BY Zenon DEF Step, Ate, AteBonus

LEMMA StepPlaces ==
  ASSUME NEW dt, Step(dt)
  PROVE  /\ eatsSinceObstacle' = IF Eats >= OBSTACLE_STEP_INTERVAL THEN 0 ELSE Eats
         /\ \E new \in NewObstacles : obstacles' = obstacles \cup new
         /\ food' \in IF Ate THEN PlaceFood(NewSnake, obstacles') ELSE {food}
         /\ zones' \in IF Respawn(dt)
                         THEN Placements(NewSnake \cup obstacles' \cup {food'}
                                           \cup (BonusCells(bonus) \ {NextCell}), MAX_BOOST_ZONES)
                         ELSE {Left}
BY Zenon DEF Step, Ate, Eats, Left, Respawn, NewSnake, NewObstacles

LEMMA StepTimers ==
  ASSUME NEW dt, Step(dt)
  PROVE  /\ boost' = [BoostAfter(NextCell \in zones, dt) EXCEPT
                        !.cooldown = IF Left # {} THEN @ ELSE IF Respawn(dt) THEN 0 ELSE @ + dt]
         /\ IF ~BonusAfter(AteBonus, dt).active
                 /\ BonusAfter(AteBonus, dt).elapsed >= BONUS_INTERVAL_MS
              THEN \E p \in PlaceBonusFood(NewSnake, obstacles', food') :
                     bonus' = [active |-> TRUE, pos |-> p, elapsed |-> 0,
                               remaining |-> BonusDuration(length')]
              ELSE bonus' = BonusAfter(AteBonus, dt)
BY Zenon DEF Step, AteBonus, Left, Respawn, NewSnake

\* What a step draws, the last first.
LEMMA StepDraws ==
  ASSUME NEW dt, Step(dt), NEW p \in Cells
  PROVE  screen'[p] =
           IF bonus'.active /\ ~BonusAfter(AteBonus, dt).active /\ p = bonus'.pos THEN "bonus"
           ELSE IF bonus.active /\ ~AteBonus /\ ~BonusAfter(AteBonus, dt).active /\ p = bonus.pos
             THEN "empty"
           ELSE IF Respawn(dt) /\ p \in zones' THEN "boost"
           ELSE IF Ate /\ p = food' THEN "food"
           ELSE IF length' > 1 /\ p = body[head] THEN "body"
           ELSE IF p = NextCell THEN "head"
           ELSE IF p \in obstacles' \ obstacles THEN "obstacle"
           ELSE IF ~Ate /\ p = TailCell THEN "empty"
           ELSE screen[p]
<1>. DEFINE s0 == EraseAt(screen, IF Ate THEN {} ELSE {TailCell})
            s1 == Draw(s0, obstacles' \ obstacles, "obstacle")
            s2 == Draw(s1, {NextCell}, "head")
            s3 == Draw(s2, IF length' > 1 THEN {body[head]} ELSE {}, "body")
            s4 == Draw(s3, IF Ate THEN {food'} ELSE {}, "food")
            s5 == Draw(s4, IF Respawn(dt) THEN zones' ELSE {}, "boost")
            b == BonusAfter(AteBonus, dt)
            s6 == EraseAt(s5, IF bonus.active /\ ~AteBonus /\ ~b.active THEN {bonus.pos} ELSE {})
            s7 == Draw(s6, IF bonus'.active /\ ~b.active THEN {bonus'.pos} ELSE {}, "bonus")
<1>1. screen' = s7
  BY Zenon DEF Step, Ate, AteBonus, Left, Respawn, TailErased, TailCell
<1>2. ASSUME NEW s, NEW S, NEW g
      PROVE  Draw(s, S, g)[p] = IF p \in S THEN g ELSE s[p]
  BY Zenon DEF Draw
<1>3. ASSUME NEW s, NEW S
      PROVE  EraseAt(s, S)[p] = IF p \in S THEN "empty" ELSE s[p]
  BY Zenon DEF Draw, EraseAt
<1>. HIDE DEF b
<1>4. s0[p] = IF ~Ate /\ p = TailCell THEN "empty" ELSE screen[p]
  BY <1>3
<1>5. s1[p] = IF p \in obstacles' \ obstacles THEN "obstacle" ELSE s0[p]
  BY <1>2
<1>6. s2[p] = IF p = NextCell THEN "head" ELSE s1[p]
  BY <1>2
<1>7. s3[p] = IF length' > 1 /\ p = body[head] THEN "body" ELSE s2[p]
  BY <1>2
<1>8. s4[p] = IF Ate /\ p = food' THEN "food" ELSE s3[p]
  BY <1>2
<1>9. s5[p] = IF Respawn(dt) /\ p \in zones' THEN "boost" ELSE s4[p]
  BY <1>2
<1>10. s6[p] = IF bonus.active /\ ~AteBonus /\ ~b.active /\ p = bonus.pos THEN "empty" ELSE s5[p]
  BY <1>3
<1>11. s7[p] = IF bonus'.active /\ ~b.active /\ p = bonus'.pos THEN "bonus" ELSE s6[p]
  BY <1>2
<1>. HIDE DEF s0, s1, s2, s3, s4, s5, s6, s7
<1>. QED  BY <1>1, <1>4, <1>5, <1>6, <1>7, <1>8, <1>9, <1>10, <1>11, Zenon DEF b

\* Where the snake goes is on the board, free of obstacles and of the snake.
LEMMA NextIsFree ==
  ASSUME SnakeInv, NEW dt, Step(dt)
  PROVE  /\ TypeOK /\ NextCell \in Cells /\ NextCell \notin obstacles /\ NextCell \notin Body
         /\ body[head] \in Cells /\ NextCell # body[head] /\ Near(NextCell, body[head])
<1>1. TypeOK /\ length <= SNAKE_MAX /\ ~Collision(NextCell) /\ dir \in Dirs
  BY StepMoves, Zenon DEF SnakeInv, BodyIsPath, TypeOK
<1>2. NextCell \in Cells /\ NextCell \notin obstacles /\ ~SelfCollision(NextCell)
  BY <1>1, Zenon DEF Collision
<1>3. PICK s : s = Snake(body, head, length)
  BY Zenon
<1>4. s[1] = body[head] /\ Body = {s[i] : i \in 1 .. length} /\ length \in Nat \ {0}
  BY <1>1, <1>3, SnakeIs, Sizes DEF TypeOK
<1>5. body[head] \in Body
  <2>1. 1 \in 1 .. length
    BY <1>4
  <2>. QED  BY <1>4, <2>1
<1>6. body[head] \in Cells
  BY <1>1, <1>5, Zenon DEF SnakeInv, BodyIsPath
<1>7. NextCell # body[head] /\ Near(NextCell, body[head])
  BY <1>1, <1>6, NeighbourBack, Zenon DEF NextCell
<1>8. NextCell \notin Body
  <2>1. \A i \in 2 .. length : s[i] # NextCell
    BY <1>2, <1>3, Zenon DEF SelfCollision
  <2>2. \A i \in 1 .. length : i = 1 \/ i \in 2 .. length
    BY <1>4
  <2>. QED  BY <1>4, <1>7, <2>1, <2>2, Zenon
<1>. QED  BY <1>1, <1>2, <1>6, <1>7, <1>8

\* The buffer after a step: the head goes ahead, and the others follow.
LEMMA Follows ==
  ASSUME SnakeInv, NEW dt, Step(dt)
  PROVE  LET s == Snake(body, head, length)
             s2 == Snake(body', head', length')
         IN /\ head' \in 0 .. SNAKE_MAX - 1 /\ body' \in Arrays
            /\ length' \in 1 .. SNAKE_MAX + 1 /\ length \in 1 .. SNAKE_MAX
            /\ s[1] = body[head] /\ s2[1] = NextCell /\ body'[head'] = NextCell
            /\ Body = {s[i] : i \in 1 .. length} /\ NewSnake = {s2[i] : i \in 1 .. length'}
            /\ length' <= SNAKE_MAX =>
                 \A i \in 2 .. length' : i - 1 \in 1 .. length /\ s2[i] = s[i - 1]
<1>1. /\ TypeOK /\ NextCell \in Cells
  BY NextIsFree, Zenon
<1>2. /\ length <= SNAKE_MAX /\ head' = (head + 1) % SNAKE_MAX
      /\ body' = [body EXCEPT ![head'] = NextCell]
      /\ length' = IF Ate THEN length + 1 ELSE length
  BY StepMoves, Zenon
<1>3. /\ length \in 1 .. SNAKE_MAX + 1 /\ head \in 0 .. SNAKE_MAX - 1 /\ body \in Arrays
  BY <1>1, Zenon DEF TypeOK, Arrays
<1>4. /\ length \in 1 .. SNAKE_MAX /\ length' \in {length, length + 1}
      /\ length' \in 1 .. SNAKE_MAX + 1
  BY <1>2, <1>3, Sizes
<1>5. PICK s, s2 : s = Snake(body, head, length) /\ s2 = Snake(body', head', length')
  BY Zenon
<1>6. /\ head' \in 0 .. SNAKE_MAX - 1 /\ body' \in Arrays
      /\ DOMAIN s2 = 1 .. length' /\ s2[1] = NextCell /\ body'[head'] = NextCell
      /\ length' <= SNAKE_MAX =>
           \A i \in 2 .. length' : i - 1 \in 1 .. length /\ s2[i] = s[i - 1]
  <2>1. Push(body, head, length, NextCell, body', head', length')
    BY <1>1, <1>2, <1>3, <1>4, Zenon DEF Push
  <2>2. Ahead(s, length, NextCell, body', head', s2, length')
    BY <1>5, <2>1, Pushed, Zenon
  <2>. QED  BY <2>2, Zenon DEF Ahead
<1>7. NewSnake = {s2[i] : i \in 1 .. length'}
  BY <1>5, <1>6, Zenon DEF NewSnake, Range
<1>8. s[1] = body[head] /\ Body = {s[i] : i \in 1 .. length}
  BY <1>1, <1>5, SnakeIs, Zenon
<1>. QED  BY <1>4, <1>5, <1>6, <1>7, <1>8, Zenon

\* The new snake is the old one with the new head, without the tail.
LEMMA SnakeMoves ==
  ASSUME SnakeInv, NEW dt, Step(dt)
  PROVE  /\ NextCell \in NewSnake /\ IsFiniteSet(NewSnake) /\ Cardinality(NewSnake) <= SNAKE_MAX
         /\ length' <= SNAKE_MAX =>
              /\ NewSnake \subseteq Body \cup {NextCell}
              /\ length' > 1 => body[head] \in NewSnake
              /\ Path(Snake(body', head', length'), length', obstacles)
<1>1. PICK s, s2 : s = Snake(body, head, length) /\ s2 = Snake(body', head', length')
  BY Zenon
<1>2. /\ head' \in 0 .. SNAKE_MAX - 1 /\ body' \in Arrays
      /\ length' \in 1 .. SNAKE_MAX + 1 /\ length \in 1 .. SNAKE_MAX
      /\ s[1] = body[head] /\ s2[1] = NextCell
      /\ Body = {s[i] : i \in 1 .. length} /\ NewSnake = {s2[i] : i \in 1 .. length'}
      /\ length' <= SNAKE_MAX =>
           \A i \in 2 .. length' : i - 1 \in 1 .. length /\ s2[i] = s[i - 1]
  BY <1>1, Follows, Zenon
<1>3. 1 \in 1 .. length' /\ NextCell \in NewSnake
  BY <1>2, Sizes
<1>4. IsFiniteSet(NewSnake) /\ Cardinality(NewSnake) <= SNAKE_MAX
  BY <1>2, SnakeSmall, Zenon DEF NewSnake
<1>5. /\ NextCell \in Cells \ obstacles /\ NextCell \notin Body /\ Near(NextCell, body[head])
  BY NextIsFree, Zenon
<1>6. ASSUME length' <= SNAKE_MAX
      PROVE  /\ NewSnake \subseteq Body \cup {NextCell}
             /\ length' > 1 => body[head] \in NewSnake
             /\ Path(s2, length', obstacles)
  <2>1. PICK n \in Nat, k \in Nat :
          n = length /\ k = length' /\ n \in 1 .. SNAKE_MAX /\ k \in 1 .. SNAKE_MAX
    BY <1>2, <1>6, Sizes
  <2>2. \A i \in 2 .. k : i - 1 \in 1 .. n /\ s2[i] = s[i - 1]
    BY <1>2, <1>6, <2>1, Zenon
  <2>3. \A i \in 1 .. k : i = 1 \/ i \in 2 .. k
    BY <2>1
  <2>4. \A i \in 2 .. k : s2[i] \in Body /\ s2[i] \in Cells \ obstacles
    <3>1. Body \subseteq Cells \ obstacles
      BY <1>2, <2>1, Sizes DEF SnakeInv, BodyIsPath
    <3>. QED  BY <1>2, <2>1, <2>2, <3>1, Zenon
  <2>5. NewSnake \subseteq Body \cup {NextCell}
    <3>1. SUFFICES ASSUME NEW x \in NewSnake PROVE x \in Body \cup {NextCell}
      BY Zenon
    <3>2. PICK i \in 1 .. k : x = s2[i]
      BY <1>2, <2>1, <3>1, Zenon
    <3>. QED  BY <1>2, <2>3, <2>4, <3>2, Zenon
  <2>6. length' > 1 => body[head] \in NewSnake
    <3>1. SUFFICES ASSUME length' > 1 PROVE body[head] \in NewSnake
      OBVIOUS
    <3>2. 2 \in 2 .. k /\ 2 \in 1 .. k /\ 2 - 1 = 1
      BY <2>1, <3>1, Sizes
    <3>. QED  BY <1>2, <2>1, <2>2, <3>2
  <2>7. /\ \A i, j \in 1 .. n : s[i] = s[j] => i = j
        /\ \A i \in 1 .. n - 1 : Near(s[i], s[i + 1])
    <3>1. length <= SNAKE_MAX
      BY <2>1, Sizes
    <3>2. TypeOK /\ BodyIsPath
      BY Zenon DEF SnakeInv, BodyIsPath
    <3>. QED  BY <1>1, <2>1, <3>1, <3>2, PathDef, Zenon DEF Path
  <2>8. \A i \in 1 .. k : s2[i] \in Cells \ obstacles
    BY <1>2, <1>5, <2>3, <2>4, Zenon
  <2>9. \A i, j \in 1 .. k : s2[i] = s2[j] => i = j
    <3>1. \A i \in 2 .. k : s2[i] # s2[1]
      BY <1>2, <1>5, <2>4, Zenon
    <3>2. \A i, j \in 2 .. k : s2[i] = s2[j] => i = j
      <4>1. \A i, j \in 2 .. k : s2[i] = s2[j] => i - 1 = j - 1
        BY <2>2, <2>7, Zenon
      <4>2. \A i, j \in 2 .. k : i - 1 = j - 1 => i = j
        BY <2>1
      <4>. QED  BY <4>1, <4>2, Zenon
    <3>. QED  BY <2>3, <3>1, <3>2, Zenon
  <2>10. \A i \in 1 .. k - 1 : Near(s2[i], s2[i + 1])
    <3>1. SUFFICES ASSUME NEW i \in 1 .. k - 1 PROVE Near(s2[i], s2[i + 1])
      OBVIOUS
    <3>2. i + 1 \in 2 .. k /\ i + 1 - 1 = i
      BY <3>1
    <3>3. s2[i + 1] = s[i] /\ i \in 1 .. n
      BY <2>2, <3>2
    <3>4. CASE i = 1
      BY <1>2, <1>5, <3>3, <3>4, Zenon
    <3>5. CASE i # 1
      <4>1. i \in 2 .. k /\ i - 1 \in 1 .. n - 1 /\ i - 1 + 1 = i
        BY <3>1, <3>3, <3>5
      <4>2. s2[i] = s[i - 1]
        BY <2>2, <4>1, Zenon
      <4>3. Near(s[i - 1], s[i - 1 + 1])
        BY <2>7, <4>1, Zenon
      <4>. QED  BY <3>3, <4>1, <4>2, <4>3, Zenon
    <3>. QED  BY <3>4, <3>5
  <2>11. Path(s2, k, obstacles)
    BY <2>8, <2>9, <2>10, Zenon DEF Path
  <2>. QED  BY <2>1, <2>5, <2>6, <2>11, Zenon
<1>. QED  BY <1>1, <1>3, <1>4, <1>6, Zenon

\* spawnObstacle puts an obstacle where nothing is that the snake may go to, and
\* only after the snake ate.
LEMMA ObstaclesStep ==
  ASSUME SnakeInv, NEW dt, Step(dt)
  PROVE  /\ obstacles \subseteq obstacles' /\ obstacles' \subseteq Cells
         /\ IsFiniteSet(obstacles') /\ Cardinality(obstacles') <= MAX_OBSTACLES
         /\ eatsSinceObstacle' \in 0 .. OBSTACLE_STEP_INTERVAL - 1
         /\ (obstacles' \ obstacles) \cap (NewSnake \cup {food} \cup BonusCells(bonus)) = {}
         /\ ~Ate => obstacles' = obstacles
<1>1. /\ obstacles \subseteq Cells /\ Cardinality(obstacles) <= MAX_OBSTACLES
      /\ eatsSinceObstacle \in 0 .. OBSTACLE_STEP_INTERVAL - 1
  BY Zenon DEF SnakeInv, BodyIsPath, TypeOK
<1>2. IsFiniteSet(obstacles) /\ Cardinality(obstacles) \in Nat
  <2>1. IsFiniteSet(obstacles)
    BY <1>1, CellsFinite, FS_Subset
  <2>. QED  BY <2>1, FS_CardinalityType, Zenon
<1>3. PICK new \in NewObstacles : obstacles' = obstacles \cup new
  BY StepPlaces, Zenon
<1>4. eatsSinceObstacle' \in 0 .. OBSTACLE_STEP_INTERVAL - 1
  BY <1>1, StepPlaces, Sizes DEF Eats
<1>5. CASE Eats >= OBSTACLE_STEP_INTERVAL
  <2>1. Ate /\ Cardinality(obstacles) < MAX_OBSTACLES
    BY <1>1, <1>5, Sizes DEF Eats
  <2>2. PICK X : X = NewSnake \cup {food} \cup BonusCells(bonus) \cup obstacles
    BY Zenon
  <2>3. new \in Placements(X, 1)
    BY <1>3, <1>5, <2>2, Zenon DEF NewObstacles, SpawnObstacle
  <2>4. /\ new \subseteq Cells /\ new \cap X = {}
        /\ IsFiniteSet(new) /\ Cardinality(new) \in Nat /\ Cardinality(new) <= 1
    BY <2>3, PlacedOK
  <2>5. /\ IsFiniteSet(obstacles \cup new)
        /\ Cardinality(obstacles \cup new)
             = Cardinality(obstacles) + Cardinality(new) - Cardinality(obstacles \cap new)
    BY <1>2, <2>4, FS_Union, Zenon
  <2>6. Cardinality(obstacles \cap new) = 0
    <3>1. obstacles \cap new = {}
      BY <2>2, <2>4
    <3>. QED  BY <3>1, FS_EmptySet, Zenon
  <2>7. Cardinality(obstacles \cup new) <= MAX_OBSTACLES
    BY <1>2, <2>1, <2>4, <2>5, <2>6, Sizes
  <2>8. (obstacles' \ obstacles) \cap (NewSnake \cup {food} \cup BonusCells(bonus)) = {}
    BY <1>3, <2>2, <2>4, Zenon
  <2>. QED  BY <1>1, <1>3, <1>4, <2>1, <2>4, <2>5, <2>7, <2>8, Zenon
<1>6. CASE ~(Eats >= OBSTACLE_STEP_INTERVAL)
  <2>1. new = {}
    BY <1>3, <1>6, Zenon DEF NewObstacles
  <2>2. obstacles' = obstacles
    BY <1>3, <2>1, Zenon
  <2>. QED  BY <1>1, <1>2, <1>4, <2>2, Zenon
<1>. QED  BY <1>5, <1>6

\* placeFood puts the food beside the snake and the obstacles.
LEMMA FoodStep ==
  ASSUME SnakeInv, NEW dt, Step(dt)
  PROVE  /\ food' \in Cells
         /\ Ate => food' \notin NewSnake /\ food' \notin obstacles'
         /\ ~Ate => food' = food
<1>1. food \in Cells
  BY Zenon DEF SnakeInv, BodyIsPath, TypeOK
<1>2. food' \in IF Ate THEN PlaceFood(NewSnake, obstacles') ELSE {food}
  BY StepPlaces, Zenon
<1>3. PlaceFood(NewSnake, obstacles') = Cells \ (NewSnake \cup obstacles')
  <2>1. IsFiniteSet(NewSnake) /\ Cardinality(NewSnake) <= SNAKE_MAX
    BY SnakeMoves, Zenon
  <2>2. IsFiniteSet(obstacles') /\ Cardinality(obstacles') <= MAX_OBSTACLES
    BY ObstaclesStep, Zenon
  <2>. QED  BY <2>1, <2>2, FoodPlaced, Zenon
<1>4. CASE Ate
  BY <1>2, <1>3, <1>4, Zenon
<1>5. CASE ~Ate
  BY <1>1, <1>2, <1>5, Zenon
<1>. QED  BY <1>4, <1>5, Zenon

\* A boost zone is never under the snake.
LEMMA ZonesStep ==
  ASSUME SnakeInv, NEW dt, Step(dt)
  PROVE  /\ zones' \subseteq Cells /\ Cardinality(zones') <= MAX_BOOST_ZONES
         /\ length' <= SNAKE_MAX => zones' \cap NewSnake = {}
         /\ Respawn(dt) => zones' \cap (NewSnake \cup obstacles') = {}
<1>1. zones \subseteq Cells /\ Cardinality(zones) <= MAX_BOOST_ZONES /\ zones \cap Body = {}
  BY StepMoves, Zenon DEF SnakeInv, BodyIsPath, TypeOK, FoodIsFree
<1>2. zones' \in IF Respawn(dt)
                   THEN Placements(NewSnake \cup obstacles' \cup {food'}
                                     \cup (BonusCells(bonus) \ {NextCell}), MAX_BOOST_ZONES)
                   ELSE {Left}
  BY StepPlaces, Zenon
<1>3. CASE Respawn(dt)
  <2>1. PICK X : X = NewSnake \cup obstacles' \cup {food'} \cup (BonusCells(bonus) \ {NextCell})
    BY Zenon
  <2>2. zones' \in Placements(X, MAX_BOOST_ZONES)
    BY <1>2, <1>3, <2>1, Zenon
  <2>3. zones' \subseteq Cells /\ zones' \cap X = {} /\ Cardinality(zones') <= MAX_BOOST_ZONES
    BY <2>2, PlacedOK, Sizes, Zenon
  <2>. QED  BY <2>1, <2>3, Zenon
<1>4. CASE ~Respawn(dt)
  <2>1. zones' = zones \ {NextCell}
    BY <1>2, <1>4, Zenon DEF Left
  <2>2. Cardinality(zones') <= MAX_BOOST_ZONES
    <3>1. IsFiniteSet(zones)
      BY <1>1, CellsFinite, FS_Subset
    <3>2. IsFiniteSet(zones') /\ Cardinality(zones') <= Cardinality(zones)
      BY <2>1, <3>1, FS_Subset
    <3>3. Cardinality(zones) \in Nat /\ Cardinality(zones') \in Nat
      BY <3>1, <3>2, FS_CardinalityType, Zenon
    <3>. QED  BY <1>1, <3>2, <3>3, Sizes
  <2>3. length' <= SNAKE_MAX => zones' \cap NewSnake = {}
    <3>1. SUFFICES ASSUME length' <= SNAKE_MAX PROVE zones' \cap NewSnake = {}
      OBVIOUS
    <3>2. NewSnake \subseteq Body \cup {NextCell}
      BY <3>1, SnakeMoves, Zenon
    <3>. QED  BY <1>1, <2>1, <3>2
  <2>4. zones' \subseteq Cells
    BY <1>1, <2>1, Zenon
  <2>. QED  BY <1>4, <2>2, <2>3, <2>4, Zenon
<1>. QED  BY <1>3, <1>4

LEMMA MaxOfTwo ==
  ASSUME NEW a \in Int, NEW b \in Int
  PROVE  Max({a, b}) \in {a, b} /\ Max({a, b}) >= a
<1>1. \E x \in {a, b} : \A y \in {a, b} : x >= y
  OBVIOUS
<1>2. Max({a, b}) \in {a, b} /\ \A y \in {a, b} : Max({a, b}) >= y
  BY <1>1 DEF Max
<1>. QED  BY <1>2

\* A bonus is placed with time left.
LEMMA BonusHasTime ==
  ASSUME NEW len \in Nat
  PROVE  BonusDuration(len) \in Nat \ {0}
<1>1. PICK x : x = BONUS_INTERVAL_MS - len * BONUS_PER_CELL
  BY Zenon
<1>2. x \in Int /\ BONUS_DURATION_MIN_MS \in Nat \ {0}
  BY <1>1, SnakeAssumption
<1>3. BonusDuration(len) = Max({BONUS_DURATION_MIN_MS, x})
  BY <1>1, Zenon DEF BonusDuration
<1>4. PICK m : m = Max({BONUS_DURATION_MIN_MS, x})
  BY Zenon
<1>5. BONUS_DURATION_MIN_MS \in Int
  BY <1>2
<1>6. m \in {BONUS_DURATION_MIN_MS, x} /\ m >= BONUS_DURATION_MIN_MS
  BY <1>2, <1>4, <1>5, MaxOfTwo, Zenon
<1>7. m \in Nat \ {0}
  BY <1>2, <1>6
<1>. QED  BY <1>3, <1>4, <1>7, Zenon

Bonuses == [active : BOOLEAN, pos : Cells \cup {<<0, 0>>}, remaining : Nat, elapsed : Nat]

\* A bonus that outlives the step was there before, was not eaten, and has time
\* left.
LEMMA BonusRuns ==
  ASSUME TimersOK, NEW dt \in Nat, NEW eaten \in BOOLEAN,
         bonus.active => bonus.pos \in Cells /\ bonus.remaining > 0
  PROVE  /\ BonusAfter(eaten, dt) \in Bonuses
         /\ BonusAfter(eaten, dt).active =>
              /\ bonus.active /\ ~eaten /\ BonusAfter(eaten, dt).pos = bonus.pos
              /\ BonusAfter(eaten, dt).pos \in Cells /\ BonusAfter(eaten, dt).remaining > 0
<1>1. bonus \in Bonuses
  BY Zenon DEF TimersOK, Bonuses
<1>2. PICK b : b = [bonus EXCEPT !.active = @ /\ ~eaten]
  BY Zenon
<1>3. /\ b \in Bonuses /\ b.pos = bonus.pos /\ b.remaining = bonus.remaining
      /\ b.active => bonus.active /\ ~eaten
  BY <1>1, <1>2, Zenon DEF Bonuses
<1>4. PICK r : r = BonusAfter(eaten, dt)
  BY Zenon
<1>5. CASE ~b.active
  <2>1. r = [b EXCEPT !.elapsed = b.elapsed + dt]
    BY <1>2, <1>4, <1>5, Zenon DEF BonusAfter
  <2>2. r \in Bonuses /\ ~r.active
    BY <1>3, <1>5, <2>1 DEF Bonuses
  <2>. QED  BY <1>4, <2>2, Zenon
<1>6. CASE b.active /\ dt >= b.remaining
  <2>1. r = [b EXCEPT !.active = FALSE, !.elapsed = b.elapsed + dt - b.remaining]
    BY <1>2, <1>4, <1>6, Zenon DEF BonusAfter
  <2>2. b.elapsed + dt - b.remaining \in Nat
    BY <1>3, <1>6 DEF Bonuses
  <2>3. r \in Bonuses /\ ~r.active
    BY <1>3, <2>1, <2>2, Zenon DEF Bonuses
  <2>. QED  BY <1>4, <2>3, Zenon
<1>7. CASE b.active /\ ~(dt >= b.remaining)
  <2>1. r = [b EXCEPT !.remaining = b.remaining - dt, !.elapsed = b.elapsed + dt]
    BY <1>2, <1>4, <1>7, Zenon DEF BonusAfter, Countdown
  <2>2. b.remaining - dt \in Nat \ {0} /\ b.elapsed + dt \in Nat
    BY <1>3, <1>7 DEF Bonuses
  <2>3. r \in Bonuses /\ r.pos = b.pos /\ r.remaining = b.remaining - dt
    BY <1>3, <2>1, <2>2, Zenon DEF Bonuses
  <2>4. r.remaining > 0
    BY <2>2, <2>3
  <2>. QED  BY <1>3, <1>4, <1>7, <2>3, <2>4, Zenon
<1>. QED  BY <1>5, <1>6, <1>7, Zenon

\* The bonus after a step: the one there was, or a new one on a free cell.
LEMMA BonusStep ==
  ASSUME SnakeInv, NEW dt \in Nat, Step(dt)
  PROVE  /\ bonus' \in Bonuses
         /\ bonus'.active => bonus'.pos \in Cells /\ bonus'.remaining > 0
         /\ bonus'.active =>
              \/ /\ BonusAfter(AteBonus, dt).active
                 /\ bonus.active /\ ~AteBonus /\ bonus'.pos = bonus.pos
              \/ bonus'.pos \notin NewSnake /\ bonus'.pos \notin obstacles'
<1>1. TimersOK /\ (bonus.active => bonus.pos \in Cells /\ bonus.remaining > 0)
  BY Zenon DEF SnakeInv, BodyIsPath, TypeOK
<1>2. AteBonus \in BOOLEAN
  BY DEF AteBonus
<1>3. PICK b : b = BonusAfter(AteBonus, dt)
  BY Zenon
<1>4. /\ b \in Bonuses
      /\ b.active =>
           /\ bonus.active /\ ~AteBonus /\ b.pos = bonus.pos
           /\ b.pos \in Cells /\ b.remaining > 0
  BY <1>1, <1>2, <1>3, BonusRuns, Zenon
<1>5. IF ~b.active /\ b.elapsed >= BONUS_INTERVAL_MS
        THEN \E p \in PlaceBonusFood(NewSnake, obstacles', food') :
               bonus' = [active |-> TRUE, pos |-> p, elapsed |-> 0,
                         remaining |-> BonusDuration(length')]
        ELSE bonus' = b
  BY <1>3, StepTimers, Zenon
<1>6. CASE bonus' = b
  BY <1>3, <1>4, <1>6, Zenon
<1>7. CASE bonus' # b
  <2>1. PICK p \in PlaceBonusFood(NewSnake, obstacles', food') :
          bonus' = [active |-> TRUE, pos |-> p, elapsed |-> 0,
                    remaining |-> BonusDuration(length')]
    BY <1>5, <1>7, Zenon
  <2>2. p \in Cells /\ p \notin NewSnake /\ p \notin obstacles'
    <3>1. IsFiniteSet(NewSnake) /\ Cardinality(NewSnake) <= SNAKE_MAX
      BY SnakeMoves, Zenon
    <3>2. IsFiniteSet(obstacles') /\ Cardinality(obstacles') <= MAX_OBSTACLES
      BY ObstaclesStep, Zenon
    <3>3. PICK S, W, fd : S = NewSnake /\ W = obstacles' /\ fd = food'
      BY Zenon
    <3>4. PlaceBonusFood(S, W, fd) = Cells \ (S \cup W \cup {fd})
      <4>1. /\ IsFiniteSet(S) /\ Cardinality(S) <= SNAKE_MAX
            /\ IsFiniteSet(W) /\ Cardinality(W) <= MAX_OBSTACLES
        BY <3>1, <3>2, <3>3, Zenon
      <4>. QED  BY <4>1, FoodPlaced
    <3>. QED  BY <2>1, <3>3, <3>4, Zenon
  <2>3. BonusDuration(length') \in Nat \ {0}
    <3>1. length' \in 1 .. SNAKE_MAX + 1
      BY Follows, Zenon
    <3>2. length' \in Nat
      BY <3>1, Sizes
    <3>. QED  BY <3>2, BonusHasTime, Zenon
  <2>4. PICK d \in Nat \ {0} : d = BonusDuration(length')
    BY <2>3, Zenon
  <2>5. bonus' = [active |-> TRUE, pos |-> p, elapsed |-> 0, remaining |-> d]
    BY <2>1, <2>4, Zenon
  <2>6. bonus' \in Bonuses /\ bonus'.pos = p /\ bonus'.remaining = d
    BY <2>2, <2>5 DEF Bonuses
  <2>7. bonus'.remaining > 0
    BY <2>4, <2>6
  <2>. QED  BY <2>2, <2>6, <2>7, Zenon
<1>. QED  BY <1>6, <1>7

\* A boost that outlives the step has time left, and zones come back in time.
LEMMA BoostStep ==
  ASSUME SnakeInv, NEW dt \in Nat, Step(dt)
  PROVE  /\ boost' \in [active : BOOLEAN, timer : Nat, cooldown : Nat]
         /\ boost'.active => boost'.timer > 0
         /\ boost'.cooldown \in 0 .. BOOST_RESPAWN_MS - 1
<1>1. /\ boost \in [active : BOOLEAN, timer : Nat, cooldown : Nat]
      /\ boost.cooldown \in 0 .. BOOST_RESPAWN_MS - 1
  BY Zenon DEF SnakeInv, BodyIsPath, TypeOK, TimersOK
<1>2. BOOST_DURATION_MS \in Nat /\ BOOST_RESPAWN_MS \in Nat \ {0}
  BY SnakeAssumption, Zenon
<1>3. PICK timer : timer = IF NextCell \in zones THEN BOOST_DURATION_MS ELSE boost.timer
  BY Zenon
<1>4. timer \in Nat
  BY <1>1, <1>2, <1>3
<1>5. PICK on : on = ((boost.active \/ NextCell \in zones) /\ dt < timer)
  BY Zenon
<1>6. BoostAfter(NextCell \in zones, dt)
        = [boost EXCEPT !.active = on, !.timer = Countdown(timer, dt)]
  BY <1>3, <1>5, Zenon DEF BoostAfter
<1>7. PICK t : t = Countdown(timer, dt)
  BY Zenon
<1>8. t \in Nat /\ (on => t > 0) /\ on \in BOOLEAN
  <2>1. t \in Nat /\ (dt < timer => t > 0)
    BY <1>4, <1>7 DEF Countdown
  <2>. QED  BY <1>5, <2>1, Zenon
<1>9. PICK c : c = IF Left # {} THEN boost.cooldown
                   ELSE IF Respawn(dt) THEN 0 ELSE boost.cooldown + dt
  BY Zenon
<1>10. c \in 0 .. BOOST_RESPAWN_MS - 1
  <2>1. boost.cooldown \in Nat
    BY <1>1, Zenon
  <2>. QED  BY <1>1, <1>2, <1>9, <2>1 DEF Respawn
<1>11. c \in Nat
  BY <1>2, <1>10
<1>12. /\ boost' \in [active : BOOLEAN, timer : Nat, cooldown : Nat]
       /\ boost'.active = on /\ boost'.timer = t /\ boost'.cooldown = c
  <2>1. PICK r : r = [boost EXCEPT !.active = on, !.timer = t]
    BY Zenon
  <2>2. /\ r \in [active : BOOLEAN, timer : Nat, cooldown : Nat]
        /\ r.active = on /\ r.timer = t /\ r.cooldown = boost.cooldown
    BY <1>1, <1>8, <2>1, Zenon
  <2>3. boost' = [BoostAfter(NextCell \in zones, dt) EXCEPT
                    !.cooldown = IF Left # {} THEN @ ELSE IF Respawn(dt) THEN 0 ELSE @ + dt]
    BY StepTimers, Zenon
  <2>4. boost' = [r EXCEPT !.cooldown = IF Left # {} THEN r.cooldown ELSE IF Respawn(dt) THEN 0
                                        ELSE r.cooldown + dt]
    BY <1>6, <1>7, <2>1, <2>3, Zenon
  <2>5. boost' = [r EXCEPT !.cooldown = c]
    BY <1>9, <2>2, <2>4, Zenon
  <2>. QED  BY <1>11, <2>2, <2>5, Zenon
<1>. QED  BY <1>8, <1>10, <1>12, Zenon

-----------------------------------------------------------------------------
(* A step keeps the invariant.                                             *)

LEMMA BodyAfter == Body' = NewSnake
BY Zenon DEF Body, NewSnake

LEMMA BonusCellsAre ==
  ASSUME NEW b
  PROVE  \A p : p \in BonusCells(b) <=> b.active /\ p = b.pos
BY Zenon DEF BonusCells

LEMMA StepTypes ==
  ASSUME SnakeInv, NEW dt \in Nat, Step(dt)
  PROVE  TypeOK' /\ TimersOK'
<1>1. TypeOK
  BY Zenon DEF SnakeInv, BodyIsPath
<1>2. /\ phase' \in {"choose", "play", "paused", "over", "exit"}
      /\ wrapMode' \in BOOLEAN /\ paused' \in BOOLEAN /\ dir' \in Dirs
  BY <1>1, StepMoves, Zenon DEF TypeOK
<1>3. /\ body' \in [0 .. SNAKE_MAX - 1 -> Cells \cup {<<0, 0>>}]
      /\ head' \in 0 .. SNAKE_MAX - 1 /\ length' \in 1 .. SNAKE_MAX + 1
  BY Follows, Zenon DEF Arrays
<1>4. score' \in Nat /\ steps' \in 0 .. MaxSteps
  <2>1. /\ score \in Nat /\ steps \in 0 .. MaxSteps /\ steps < MaxSteps
        /\ score' = score + (IF Ate THEN 1 ELSE 0) + (IF AteBonus THEN BONUS_POINTS ELSE 0)
        /\ steps' = steps + 1
    BY <1>1, StepMoves, Zenon DEF TypeOK
  <2>2. BONUS_POINTS \in Nat /\ MaxSteps \in Nat
    BY SnakeAssumption, Zenon
  <2>. QED  BY <2>1, <2>2
<1>5. screen' \in [Cells -> Glyphs]
  <2>1. PICK s :
          screen' = Draw(s, IF bonus'.active /\ ~BonusAfter(AteBonus, dt).active
                              THEN {bonus'.pos} ELSE {}, "bonus")
    BY Zenon DEF Step, AteBonus
  <2>2. \A p \in Cells : screen'[p] \in Glyphs
    <3>1. SUFFICES ASSUME NEW p \in Cells PROVE screen'[p] \in Glyphs
      OBVIOUS
    <3>2. screen[p] \in Glyphs
      BY <1>1, <3>1 DEF TypeOK
    <3>3. /\ screen'[p] \in {"bonus", "empty", "boost", "food", "body", "head", "obstacle"}
             \/ screen'[p] = screen[p]
      BY <3>1, StepDraws, Zenon
    <3>. QED  BY <3>2, <3>3, Zenon DEF Glyphs
  <2>3. screen' = [p \in Cells |-> screen'[p]]
    BY <2>1 DEF Draw
  <2>. QED  BY <2>2, <2>3, Zenon
<1>6. TimersOK'
  BY BonusStep, BoostStep, Zenon DEF TimersOK, Bonuses
<1>7. /\ food' \in Cells /\ obstacles' \subseteq Cells /\ Cardinality(obstacles') <= MAX_OBSTACLES
      /\ eatsSinceObstacle' \in 0 .. OBSTACLE_STEP_INTERVAL - 1
      /\ zones' \subseteq Cells /\ Cardinality(zones') <= MAX_BOOST_ZONES
  BY FoodStep, ObstaclesStep, ZonesStep, Zenon
<1>8. /\ bonus'.active => bonus'.pos \in Cells /\ bonus'.remaining > 0
      /\ boost'.active => boost'.timer > 0
      /\ boost'.cooldown \in 0 .. BOOST_RESPAWN_MS - 1
  BY BonusStep, BoostStep, Zenon
<1>9. TypeOK'
  BY <1>2, <1>3, <1>4, <1>5, <1>7, <1>8, Zenon DEF TypeOK
<1>. QED  BY <1>6, <1>9

\* The snake is a path after the step.
LEMMA StepPath ==
  ASSUME SnakeInv, NEW dt \in Nat, Step(dt)
  PROVE  BodyIsPath'
<1>1. TypeOK' /\ wrapMode' = wrapMode
  BY StepTypes, StepMoves, Zenon
<1>2. ASSUME length' <= SNAKE_MAX
      PROVE  Path(Snake(body', head', length'), length', obstacles')
  <2>1. PICK s2, n : s2 = Snake(body', head', length') /\ n = length'
    BY Zenon
  <2>2. Path(s2, n, obstacles)
    BY <1>2, <2>1, SnakeMoves, Zenon
  <2>3. NewSnake = {s2[i] : i \in 1 .. n}
    BY <2>1, Follows, Zenon
  <2>4. (obstacles' \ obstacles) \cap NewSnake = {}
    BY ObstaclesStep, Zenon
  <2>5. \A i \in 1 .. n : s2[i] \in Cells \ obstacles'
    <3>1. SUFFICES ASSUME NEW i \in 1 .. n PROVE s2[i] \in Cells \ obstacles'
      OBVIOUS
    <3>2. s2[i] \in Cells \ obstacles
      BY <2>2, <3>1, Zenon DEF Path
    <3>3. s2[i] \in NewSnake
      BY <2>3, <3>1, Zenon
    <3>. QED  BY <2>4, <3>2, <3>3
  <2>. QED  BY <2>1, <2>2, <2>5, Zenon DEF Path
<1>3. (length <= SNAKE_MAX => Path(Snake(body, head, length), length, obstacles))'
  BY <1>2, <1>1, Zenon DEF Path, Near, Neighbour
<1>. QED  BY <1>1, <1>3, PathDef, PTL

\* Food, bonus and zones are still beside the snake.
LEMMA StepFood ==
  ASSUME SnakeInv, NEW dt \in Nat, Step(dt)
  PROVE  FoodIsFree'
<1>1. SUFFICES ASSUME length' <= SNAKE_MAX
               PROVE  /\ food' \notin NewSnake
                      /\ food' \in obstacles' => length' = 1
                      /\ \A p \in BonusCells(bonus') : p \notin NewSnake /\ p \notin obstacles'
                      /\ zones' \cap NewSnake = {}
  BY BodyAfter, Zenon DEF FoodIsFree
<1>2. /\ food \notin Body /\ (food \in obstacles => length = 1)
      /\ BonusCells(bonus) \cap (Body \cup obstacles) = {}
  BY StepMoves, Zenon DEF SnakeInv, FoodIsFree
<1>3. NewSnake \subseteq Body \cup {NextCell}
  BY <1>1, SnakeMoves, Zenon
<1>4. food' \notin NewSnake
  <2>1. CASE Ate
    BY <2>1, FoodStep, Zenon
  <2>2. CASE ~Ate
    BY <1>2, <1>3, <2>2, FoodStep, Zenon DEF Ate
  <2>. QED  BY <2>1, <2>2
<1>5. food' \in obstacles' => length' = 1
  <2>1. CASE Ate
    BY <2>1, FoodStep, Zenon
  <2>2. CASE ~Ate
    <3>1. food' = food /\ obstacles' = obstacles
      BY <2>2, FoodStep, ObstaclesStep, Zenon
    <3>2. length' = length
      BY <2>2, StepMoves, Zenon
    <3>. QED  BY <1>2, <3>1, <3>2, Zenon
  <2>. QED  BY <2>1, <2>2
<1>6. ASSUME NEW p \in BonusCells(bonus')
      PROVE  p \notin NewSnake /\ p \notin obstacles'
  <2>1. bonus'.active /\ p = bonus'.pos
    BY <1>6, BonusCellsAre, Zenon
  <2>2. CASE bonus'.pos \notin NewSnake /\ bonus'.pos \notin obstacles'
    BY <2>1, <2>2, Zenon
  <2>3. CASE bonus.active /\ ~AteBonus /\ bonus'.pos = bonus.pos
    <3>1. p \in BonusCells(bonus)
      BY <2>1, <2>3, BonusCellsAre, Zenon
    <3>2. p # NextCell
      BY <2>3, <3>1, Zenon DEF AteBonus
    <3>3. p \notin Body /\ p \notin obstacles
      BY <1>2, <3>1, Zenon
    <3>4. (obstacles' \ obstacles) \cap (NewSnake \cup {food} \cup BonusCells(bonus)) = {}
      BY ObstaclesStep, Zenon
    <3>5. p \notin obstacles'
      BY <3>1, <3>3, <3>4, Zenon
    <3>. QED  BY <1>3, <3>2, <3>3, <3>5, Zenon
  <2>. QED  BY <2>1, <2>2, <2>3, BonusStep, Zenon
<1>7. zones' \cap NewSnake = {}
  BY <1>1, ZonesStep, Zenon
<1>. QED  BY <1>4, <1>5, <1>6, <1>7, Zenon

\* Nothing is drawn or erased over the snake or over an obstacle.
LEMMA NothingCovers ==
  ASSUME SnakeInv, NEW dt \in Nat, Step(dt), length' <= SNAKE_MAX,
         NEW p \in Cells, p \in NewSnake \/ p \in obstacles'
  PROVE  /\ ~(bonus'.active /\ ~BonusAfter(AteBonus, dt).active /\ p = bonus'.pos)
         /\ ~(bonus.active /\ ~AteBonus /\ ~BonusAfter(AteBonus, dt).active /\ p = bonus.pos)
         /\ ~(Respawn(dt) /\ p \in zones')
         /\ ~(Ate /\ p = food')
<1>1. ~(bonus'.active /\ ~BonusAfter(AteBonus, dt).active /\ p = bonus'.pos)
  BY BonusStep, Zenon
<1>2. ~(bonus.active /\ ~AteBonus /\ ~BonusAfter(AteBonus, dt).active /\ p = bonus.pos)
  <2>1. SUFFICES ASSUME bonus.active, ~AteBonus, p = bonus.pos PROVE FALSE
    BY Zenon
  <2>2. p \in BonusCells(bonus)
    BY <2>1, BonusCellsAre, Zenon
  <2>3. p # NextCell
    BY <2>1, <2>2, Zenon DEF AteBonus
  <2>4. BonusCells(bonus) \cap (Body \cup obstacles) = {}
    BY StepMoves, Zenon DEF SnakeInv, FoodIsFree
  <2>5. NewSnake \subseteq Body \cup {NextCell}
    BY SnakeMoves, Zenon
  <2>6. (obstacles' \ obstacles) \cap (NewSnake \cup {food} \cup BonusCells(bonus)) = {}
    BY ObstaclesStep, Zenon
  <2>. QED  BY <2>2, <2>3, <2>4, <2>5, <2>6, Zenon
<1>3. ~(Respawn(dt) /\ p \in zones')
  <2>1. Respawn(dt) => zones' \cap (NewSnake \cup obstacles') = {}
    BY ZonesStep, Zenon
  <2>. QED  BY <2>1, Zenon
<1>4. ~(Ate /\ p = food')
  BY FoodStep, Zenon
<1>. QED  BY <1>1, <1>2, <1>3, <1>4, Zenon

\* The snake and the obstacles are drawn after the step.
LEMMA StepScreen ==
  ASSUME SnakeInv, NEW dt \in Nat, Step(dt)
  PROVE  DangerIsVisible'
<1>1. SUFFICES ASSUME phase' = "play", ~paused', length' <= SNAKE_MAX
               PROVE  /\ \A p \in obstacles' : screen'[p] = "obstacle"
                      /\ \A p \in NewSnake :
                           screen'[p] = IF p = body'[head'] THEN "head" ELSE "body"
  BY BodyAfter, Zenon DEF DangerIsVisible
<1>2. /\ \A p \in obstacles : screen[p] = "obstacle"
      /\ \A p \in Body : screen[p] = IF p = body[head] THEN "head" ELSE "body"
  BY <1>1, StepMoves, Zenon DEF SnakeInv, DangerIsVisible
<1>3. PICK s, s2 : s = Snake(body, head, length) /\ s2 = Snake(body', head', length')
  BY Zenon
<1>4. PICK n \in Nat, k \in Nat :
        /\ n = length /\ k = length' /\ n \in 1 .. SNAKE_MAX /\ k \in 1 .. SNAKE_MAX
        /\ k = IF Ate THEN n + 1 ELSE n
  BY <1>1, Follows, StepMoves, Sizes
<1>5. /\ s[1] = body[head] /\ body'[head'] = NextCell /\ s2[1] = NextCell
      /\ Body = {s[i] : i \in 1 .. n} /\ NewSnake = {s2[i] : i \in 1 .. k}
      /\ \A i \in 2 .. k : i - 1 \in 1 .. n /\ s2[i] = s[i - 1]
  BY <1>1, <1>3, <1>4, Follows, Zenon
<1>6. /\ \A i \in 1 .. n : s[i] \in Cells \ obstacles
      /\ \A i, j \in 1 .. n : s[i] = s[j] => i = j
  <2>1. length <= SNAKE_MAX /\ TypeOK /\ BodyIsPath
    BY StepMoves, Zenon DEF SnakeInv, BodyIsPath
  <2>. QED  BY <1>3, <1>4, <2>1, PathDef, Zenon DEF Path
<1>7. TailCell = s[n] /\ n \in 1 .. n /\ 1 \in 1 .. n
  <2>1. TailCell = s[n]
    BY <1>3, <1>4, Zenon DEF TailCell
  <2>2. n \in 1 .. n /\ 1 \in 1 .. n
    BY <1>4
  <2>. QED  BY <2>1, <2>2
<1>8. /\ NextCell \in Cells /\ NextCell \notin obstacles /\ NextCell \notin Body
      /\ NextCell # body[head]
  BY NextIsFree, Zenon
<1>9. ASSUME NEW p \in obstacles'
      PROVE  screen'[p] = "obstacle"
  <2>1. p \in Cells /\ obstacles' \subseteq Cells
    BY <1>9, ObstaclesStep, Zenon
  <2>2. p \notin NewSnake
    <3>1. Path(s2, k, obstacles)
      BY <1>1, <1>3, <1>4, SnakeMoves, Zenon
    <3>2. \A i \in 1 .. k : s2[i] \notin obstacles
      BY <3>1, Zenon DEF Path
    <3>3. (obstacles' \ obstacles) \cap NewSnake = {}
      BY ObstaclesStep, Zenon
    <3>. QED  BY <1>5, <1>9, <3>2, <3>3, Zenon
  <2>3. p # NextCell /\ ~(length' > 1 /\ p = body[head])
    BY <1>1, <2>2, SnakeMoves, Zenon
  <2>4. p \in obstacles => p # TailCell
    BY <1>6, <1>7, Zenon
  <2>5. screen'[p] = IF p \in obstacles' \ obstacles THEN "obstacle"
                     ELSE IF ~Ate /\ p = TailCell THEN "empty"
                     ELSE screen[p]
    <3>1. /\ ~(bonus'.active /\ ~BonusAfter(AteBonus, dt).active /\ p = bonus'.pos)
          /\ ~(bonus.active /\ ~AteBonus /\ ~BonusAfter(AteBonus, dt).active /\ p = bonus.pos)
          /\ ~(Respawn(dt) /\ p \in zones')
          /\ ~(Ate /\ p = food')
      BY <1>1, <1>9, <2>1, NothingCovers, Zenon
    <3>. QED  BY <2>1, <2>3, <3>1, StepDraws, Zenon
  <2>. QED  BY <1>2, <1>9, <2>4, <2>5, Zenon
<1>10. ASSUME NEW p \in NewSnake
       PROVE  screen'[p] = IF p = body'[head'] THEN "head" ELSE "body"
  <2>1. PICK i \in 1 .. k : p = s2[i]
    BY <1>5, <1>10, Zenon
  <2>2. p \in Cells /\ p \notin obstacles' \ obstacles
    <3>1. NewSnake \subseteq Body \cup {NextCell}
      BY <1>1, SnakeMoves, Zenon
    <3>2. (obstacles' \ obstacles) \cap NewSnake = {}
      BY ObstaclesStep, Zenon
    <3>3. Body \subseteq Cells
      BY StepMoves, Zenon DEF SnakeInv, BodyIsPath
    <3>. QED  BY <1>8, <1>10, <3>1, <3>2, <3>3, Zenon
  <2>3. screen'[p] = IF length' > 1 /\ p = body[head] THEN "body"
                     ELSE IF p = NextCell THEN "head"
                     ELSE IF ~Ate /\ p = TailCell THEN "empty"
                     ELSE screen[p]
    <3>1. /\ ~(bonus'.active /\ ~BonusAfter(AteBonus, dt).active /\ p = bonus'.pos)
          /\ ~(bonus.active /\ ~AteBonus /\ ~BonusAfter(AteBonus, dt).active /\ p = bonus.pos)
          /\ ~(Respawn(dt) /\ p \in zones')
          /\ ~(Ate /\ p = food')
      BY <1>1, <1>10, <2>2, NothingCovers, Zenon
    <3>. QED  BY <2>2, <3>1, StepDraws, Zenon
  <2>4. CASE i = 1
    BY <1>5, <1>8, <2>1, <2>3, <2>4, Zenon
  <2>5. CASE i # 1
    <3>1. PICK j \in Nat : /\ i \in 2 .. k /\ j = i - 1 /\ j \in 1 .. n /\ k > 1
                           /\ j = n => k # n
      BY <1>4, <2>1, <2>5
    <3>2. p = s[j] /\ p \in Body /\ p # NextCell
      BY <1>5, <1>8, <2>1, <3>1, Zenon
    <3>3. CASE j = 1
      BY <1>4, <1>5, <2>3, <3>1, <3>2, <3>3, Zenon
    <3>4. CASE j # 1
      <4>1. p # body[head]
        BY <1>5, <1>6, <1>7, <3>1, <3>2, <3>4, Zenon
      <4>2. ~Ate => p # TailCell
        BY <1>4, <1>6, <1>7, <3>1, <3>2, Zenon
      <4>. QED  BY <1>2, <1>5, <2>3, <3>2, <4>1, <4>2, Zenon
    <3>. QED  BY <3>3, <3>4
  <2>. QED  BY <2>4, <2>5
<1>. QED  BY <1>9, <1>10, Zenon

LEMMA StepInv ==
  ASSUME SnakeInv, NEW dt \in Nat, Step(dt)
  PROVE  SnakeInv'
<1>1. BodyIsPath' /\ FoodIsFree' /\ DangerIsVisible' /\ TimersOK'
  BY StepTypes, StepPath, StepFood, StepScreen, Zenon
<1>2. phase' = "play"
  BY StepMoves, Zenon
<1>. QED  BY <1>1, <1>2 DEF SnakeInv

-----------------------------------------------------------------------------
(* The start of the game, and the keys.                                    *)

LEMMA DrawTypes ==
  ASSUME NEW s \in [Cells -> Glyphs], NEW S, NEW g \in Glyphs
  PROVE  Draw(s, S, g) \in [Cells -> Glyphs]
<1>1. \A p \in Cells : (IF p \in S THEN g ELSE s[p]) \in Glyphs
  BY Zenon
<1>. QED  BY <1>1, Zenon DEF Draw

LEMMA GlyphsAre ==
  /\ "empty" \in Glyphs /\ "head" \in Glyphs /\ "food" \in Glyphs /\ "bonus" \in Glyphs
  /\ "obstacle" \in Glyphs /\ "boost" \in Glyphs /\ "text" \in Glyphs
BY DEF Glyphs

LEMMA BoardIsDrawn ==
  ASSUME NEW s \in [Cells -> Glyphs]
  PROVE  /\ DrawBoard(s) \in [Cells -> Glyphs]
         /\ \A p \in Cells :
              DrawBoard(s)[p] = IF p \in zones THEN "boost"
                                ELSE IF p \in obstacles THEN "obstacle"
                                ELSE IF p \in BonusCells(bonus) THEN "bonus"
                                ELSE IF p = food THEN "food"
                                ELSE IF p = body[head] THEN "head"
                                ELSE s[p]
<1>1. PICK a : a = Draw(s, {body[head]}, "head")
  BY Zenon
<1>2. PICK b : b = Draw(a, {food}, "food")
  BY Zenon
<1>3. PICK c : c = Draw(b, BonusCells(bonus), "bonus")
  BY Zenon
<1>4. PICK d : d = Draw(c, obstacles, "obstacle")
  BY Zenon
<1>5. DrawBoard(s) = Draw(d, zones, "boost")
  BY <1>1, <1>2, <1>3, <1>4, Zenon DEF DrawBoard
<1>6. a \in [Cells -> Glyphs]
  BY <1>1, DrawTypes, GlyphsAre, Zenon
<1>7. b \in [Cells -> Glyphs]
  BY <1>2, <1>6, DrawTypes, GlyphsAre, Zenon
<1>8. c \in [Cells -> Glyphs]
  BY <1>3, <1>7, DrawTypes, GlyphsAre, Zenon
<1>9. d \in [Cells -> Glyphs]
  BY <1>4, <1>8, DrawTypes, GlyphsAre, Zenon
<1>10. DrawBoard(s) \in [Cells -> Glyphs]
  <2>1. Draw(d, zones, "boost") \in [Cells -> Glyphs]
    BY <1>9, DrawTypes, GlyphsAre, Zenon
  <2>. QED  BY <1>5, <2>1, Zenon
<1>11. ASSUME NEW p \in Cells
       PROVE  /\ a[p] = IF p = body[head] THEN "head" ELSE s[p]
              /\ b[p] = IF p = food THEN "food" ELSE a[p]
              /\ c[p] = IF p \in BonusCells(bonus) THEN "bonus" ELSE b[p]
              /\ d[p] = IF p \in obstacles THEN "obstacle" ELSE c[p]
              /\ DrawBoard(s)[p] = IF p \in zones THEN "boost" ELSE d[p]
  <2>1. ASSUME NEW t, NEW S, NEW g
        PROVE  Draw(t, S, g)[p] = IF p \in S THEN g ELSE t[p]
    BY <1>11, Zenon DEF Draw
  <2>2. /\ a[p] = IF p \in {body[head]} THEN "head" ELSE s[p]
        /\ b[p] = IF p \in {food} THEN "food" ELSE a[p]
    BY <1>1, <1>2, <2>1
  <2>3. /\ c[p] = IF p \in BonusCells(bonus) THEN "bonus" ELSE b[p]
        /\ d[p] = IF p \in obstacles THEN "obstacle" ELSE c[p]
    BY <1>3, <1>4, <2>1
  <2>4. DrawBoard(s)[p] = IF p \in zones THEN "boost" ELSE d[p]
    BY <1>5, <2>1
  <2>. QED  BY <2>2, <2>3, <2>4, Zenon
<1>. QED  BY <1>10, <1>11

\* Init: the snake is its head, in the middle, and nothing but food lies on an
\* obstacle.
LEMMA InitInv ==
  ASSUME Init
  PROVE  SnakeInv
<1>1. /\ food \in Cells \ {Center}
      /\ obstacles \in Placements({Center}, OBSTACLE_INIT_COUNT)
      /\ zones \in Placements({Center, food} \cup obstacles, MAX_BOOST_ZONES)
  BY Zenon DEF Init
<1>2. obstacles \subseteq Cells /\ Center \notin obstacles /\ Cardinality(obstacles) <= MAX_OBSTACLES
  <2>1. OBSTACLE_INIT_COUNT \in Nat /\ OBSTACLE_INIT_COUNT <= MAX_OBSTACLES /\ MAX_OBSTACLES \in Nat
    BY SnakeAssumption
  <2>2. /\ obstacles \subseteq Cells /\ obstacles \cap {Center} = {}
        /\ Cardinality(obstacles) \in Nat /\ Cardinality(obstacles) <= OBSTACLE_INIT_COUNT
    BY <1>1, <2>1, PlacedOK
  <2>3. Cardinality(obstacles) <= MAX_OBSTACLES
    BY <2>1, <2>2
  <2>. QED  BY <2>2, <2>3, Zenon
<1>3. /\ zones \subseteq Cells /\ Cardinality(zones) <= MAX_BOOST_ZONES
      /\ Center \notin zones /\ zones \cap obstacles = {}
  <2>1. PICK X : X = {Center, food} \cup obstacles
    BY Zenon
  <2>2. zones \subseteq Cells /\ zones \cap X = {} /\ Cardinality(zones) <= MAX_BOOST_ZONES
    BY <1>1, <2>1, PlacedOK, Sizes, Zenon
  <2>. QED  BY <2>1, <2>2, Zenon
<1>4. /\ body \in [0 .. SNAKE_MAX - 1 -> Cells \cup {<<0, 0>>}] /\ body[0] = Center
      /\ head = 0 /\ length = 1 /\ 0 \in 0 .. SNAKE_MAX - 1 /\ 1 \in 1 .. SNAKE_MAX + 1
  <2>1. 0 \in 0 .. SNAKE_MAX - 1 /\ 1 \in 1 .. SNAKE_MAX + 1
    BY Sizes
  <2>2. body = [i \in 0 .. SNAKE_MAX - 1 |-> IF i = 0 THEN Center ELSE <<0, 0>>]
    BY Zenon DEF Init
  <2>. QED  BY <2>1, <2>2, CenterIsCell, Zenon DEF Init
<1>5. /\ bonus = [active |-> FALSE, pos |-> <<0, 0>>, remaining |-> 0, elapsed |-> 0]
      /\ boost = [active |-> FALSE, timer |-> 0, cooldown |-> 0]
      /\ eatsSinceObstacle = 0 /\ score = 0 /\ steps = 0
  BY Zenon DEF Init
<1>6. /\ bonus \in Bonuses /\ ~bonus.active
      /\ boost \in [active : BOOLEAN, timer : Nat, cooldown : Nat] /\ ~boost.active
      /\ boost.cooldown \in 0 .. BOOST_RESPAWN_MS - 1
      /\ eatsSinceObstacle \in 0 .. OBSTACLE_STEP_INTERVAL - 1
      /\ score \in Nat /\ steps \in 0 .. MaxSteps
  <2>1. /\ 0 \in 0 .. BOOST_RESPAWN_MS - 1 /\ 0 \in 0 .. OBSTACLE_STEP_INTERVAL - 1
        /\ 0 \in 0 .. MaxSteps /\ 0 \in Nat
    BY SnakeAssumption
  <2>. QED  BY <1>5, <2>1, Zenon DEF Bonuses
<1>7. screen \in [Cells -> Glyphs]
  <2>1. PICK s : s = [p \in Cells |-> "empty"]
    BY Zenon
  <2>2. s \in [Cells -> Glyphs]
    BY <2>1, GlyphsAre, Zenon
  <2>3. screen = DrawBoard(s)
    BY <2>1, Zenon DEF Init
  <2>. QED  BY <2>2, <2>3, BoardIsDrawn, Zenon
<1>8. phase = "choose" /\ wrapMode = FALSE /\ paused = FALSE /\ dir \in Dirs
  BY Zenon DEF Init, Dirs
<1>9. TypeOK
  BY <1>1, <1>2, <1>3, <1>4, <1>6, <1>7, <1>8, Zenon DEF TypeOK
<1>10. \A x : x \in Body <=> x = Center
  <2>1. PICK s : s = Snake(body, head, length)
    BY Zenon
  <2>2. Body = {s[i] : i \in 1 .. length} /\ s[1] = Center
    BY <1>4, <1>9, <2>1, SnakeIs, Zenon
  <2>3. 1 \in 1 .. length /\ \A i \in 1 .. length : i = 1
    BY <1>4
  <2>4. \A x \in Body : x = Center
    BY <2>2, <2>3, Zenon
  <2>5. Center \in Body
    BY <2>2, <2>3
  <2>. QED  BY <2>4, <2>5, Zenon
<1>11. BodyIsPath
  <2>1. PICK s : s = Snake(body, head, length)
    BY Zenon
  <2>2. s[1] = Center
    BY <1>4, <1>9, <2>1, SnakeIs, Zenon
  <2>3. /\ \A i \in 1 .. length : i = 1
        /\ \A i \in 1 .. length - 1 : FALSE
    BY <1>4
  <2>4. Path(s, length, obstacles)
    BY <1>2, <2>2, <2>3, CenterIsCell, Zenon DEF Path
  <2>. QED  BY <1>9, <2>1, <2>4, PathDef, Zenon
<1>12. FoodIsFree
  BY <1>1, <1>3, <1>4, <1>6, <1>10, Zenon DEF FoodIsFree, BonusCells
<1>13. TimersOK /\ DangerIsVisible
  BY <1>6, <1>8 DEF TimersOK, Bonuses, DangerIsVisible
<1>. QED  BY <1>3, <1>4, <1>8, <1>11, <1>12, <1>13 DEF SnakeInv

\* What only draws, or turns the snake, leaves everything where it is.  The
\* mode of the board can change while the snake is its head.
LEMMA NothingMoves ==
  ASSUME SnakeInv, UNCHANGED <<things, steps>>, wrapMode' = wrapMode \/ length = 1,
         phase' \in {"choose", "play", "paused", "over", "exit"},
         wrapMode' \in BOOLEAN, paused' \in BOOLEAN, dir' \in Dirs,
         screen' \in [Cells -> Glyphs]
  PROVE  BodyIsPath' /\ FoodIsFree' /\ TimersOK' /\ Body' = Body
<1>1. /\ body' = body /\ head' = head /\ length' = length /\ score' = score /\ food' = food
      /\ obstacles' = obstacles /\ eatsSinceObstacle' = eatsSinceObstacle /\ bonus' = bonus
      /\ zones' = zones /\ boost' = boost /\ steps' = steps
  BY Zenon DEF things
<1>2. TypeOK
  BY Zenon DEF SnakeInv, BodyIsPath
<1>3. TypeOK'
  BY <1>1, <1>2, Zenon DEF TypeOK
<1>4. Body' = Body
  BY <1>1, Zenon DEF Body
<1>5. FoodIsFree'
  BY <1>1, <1>4, Zenon DEF SnakeInv, FoodIsFree
<1>6. TimersOK'
  BY <1>1, Zenon DEF SnakeInv, TimersOK
<1>7. BodyIsPath'
  <2>1. CASE wrapMode' = wrapMode
    BY <1>1, <1>3, <1>4, <2>1, Zenon DEF SnakeInv, BodyIsPath, Near, Neighbour
  <2>2. CASE length = 1
    <3>1. \A i \in 1 .. length - 1 : FALSE
      BY <2>2
    <3>. QED  BY <1>1, <1>3, <1>4, <3>1, Zenon DEF SnakeInv, BodyIsPath
  <2>. QED  BY <2>1, <2>2
<1>. QED  BY <1>4, <1>5, <1>6, <1>7

\* chooseMode and countDown: drawBoard covers neither the head nor an obstacle.
LEMMA ChooseModeInv ==
  ASSUME SnakeInv, ChooseMode
  PROVE  SnakeInv'
<1>1. /\ phase = "choose" /\ phase' = "play" /\ wrapMode' \in BOOLEAN
      /\ UNCHANGED <<dir, things, paused, steps>>
      /\ length = 1 /\ ~paused /\ zones \cap obstacles = {}
  BY Zenon DEF ChooseMode, SnakeInv
<1>2. TypeOK
  BY Zenon DEF SnakeInv, BodyIsPath
<1>3. PICK t : t = EraseAt(EraseAt(screen, {p \in Cells : p[1] = BOARD_ROWS}), Overlay)
  BY Zenon
<1>4. t \in [Cells -> Glyphs]
  <2>1. PICK u : u = EraseAt(screen, {p \in Cells : p[1] = BOARD_ROWS})
    BY Zenon
  <2>2. screen \in [Cells -> Glyphs]
    BY <1>2, Zenon DEF TypeOK
  <2>3. u \in [Cells -> Glyphs]
    BY <2>1, <2>2, DrawTypes, GlyphsAre, Zenon DEF EraseAt
  <2>. QED  BY <1>3, <2>1, <2>3, DrawTypes, GlyphsAre, Zenon DEF EraseAt
<1>5. screen' = DrawBoard(t)
  BY <1>3, Zenon DEF ChooseMode
<1>6. /\ screen' \in [Cells -> Glyphs]
      /\ \A p \in Cells :
           screen'[p] = IF p \in zones THEN "boost"
                        ELSE IF p \in obstacles THEN "obstacle"
                        ELSE IF p \in BonusCells(bonus) THEN "bonus"
                        ELSE IF p = food THEN "food"
                        ELSE IF p = body[head] THEN "head"
                        ELSE t[p]
  BY <1>4, <1>5, BoardIsDrawn, Zenon
<1>7. BodyIsPath' /\ FoodIsFree' /\ TimersOK' /\ Body' = Body
  BY <1>1, <1>2, <1>6, NothingMoves, Zenon DEF TypeOK
<1>8. body' = body /\ head' = head /\ obstacles' = obstacles
  BY <1>1, Zenon DEF things
<1>9. \A p \in Body : p = body[head]
  <2>1. PICK s : s = Snake(body, head, length)
    BY Zenon
  <2>2. Body = {s[i] : i \in 1 .. length} /\ s[1] = body[head]
    BY <1>2, <2>1, SnakeIs, Zenon
  <2>3. \A i \in 1 .. length : i = 1
    BY <1>1
  <2>. QED  BY <2>2, <2>3, Zenon
<1>10. length <= SNAKE_MAX
  BY <1>1, Sizes
<1>11. /\ Body \subseteq Cells \ obstacles /\ food \notin Body
       /\ BonusCells(bonus) \cap (Body \cup obstacles) = {} /\ zones \cap Body = {}
       /\ obstacles \subseteq Cells
  BY <1>2, <1>10, Zenon DEF SnakeInv, BodyIsPath, FoodIsFree, TypeOK
<1>12. \A p \in obstacles : screen'[p] = "obstacle"
  BY <1>1, <1>6, <1>11, Zenon
<1>13. ASSUME NEW p \in Body
       PROVE  screen'[p] = "head" /\ p = body[head]
  <2>1. p \in Cells /\ p \notin obstacles /\ p # food /\ p \notin BonusCells(bonus) /\ p \notin zones
    BY <1>11, <1>13, Zenon
  <2>. QED  BY <1>6, <1>9, <1>13, <2>1, Zenon
<1>14. DangerIsVisible'
  BY <1>7, <1>8, <1>12, <1>13, Zenon DEF DangerIsVisible
<1>15. phase' # "choose" /\ phase' # "paused"
  BY <1>1
<1>. QED  BY <1>7, <1>14, <1>15, Zenon DEF SnakeInv

\* Pausing, and what ends the game.
LEMMA OtherKeysInv ==
  ASSUME SnakeInv, Pause \/ Resume \/ Quit \/ Die \/ \E d \in Dirs : SetDir(d)
  PROVE  SnakeInv'
<1>1. TypeOK
  BY Zenon DEF SnakeInv, BodyIsPath
<1>2. screen \in [Cells -> Glyphs] /\ dir \in Dirs /\ paused \in BOOLEAN /\ wrapMode \in BOOLEAN
  BY <1>1, Zenon DEF TypeOK
<1>3. /\ UNCHANGED <<things, steps>> /\ wrapMode' = wrapMode /\ dir' \in Dirs
  BY <1>2, Zenon DEF Pause, Resume, Quit, Die, SetDir
<1>4. /\ phase' \in {"play", "paused", "over", "exit"} /\ paused' \in BOOLEAN
      /\ phase' = "paused" => paused'
      /\ phase' = "play" => paused' \/ (screen' = screen /\ phase = "play" /\ paused' = paused)
  <2>1. CASE Pause
    BY <2>1 DEF Pause
  <2>2. CASE Resume
    <3>1. phase = "paused" /\ phase' = "play" /\ paused' = paused
      BY <2>2, Zenon DEF Resume
    <3>2. paused
      BY <3>1, Zenon DEF SnakeInv
    <3>. QED  BY <1>2, <3>1, <3>2
  <2>3. CASE Quit
    BY <1>2, <2>3 DEF Quit
  <2>4. CASE Die
    BY <1>2, <2>4 DEF Die
  <2>5. CASE \E d \in Dirs : SetDir(d)
    BY <1>2, <2>5 DEF SetDir
  <2>. QED  BY <2>1, <2>2, <2>3, <2>4, <2>5
<1>5. screen' \in [Cells -> Glyphs]
  <2>1. screen' = screen \/ screen' = Draw(screen, Overlay, "text")
          \/ screen' = Draw(screen, Overlay, "empty")
    BY Zenon DEF Pause, Resume, Quit, Die, SetDir, EraseAt
  <2>2. /\ Draw(screen, Overlay, "text") \in [Cells -> Glyphs]
        /\ Draw(screen, Overlay, "empty") \in [Cells -> Glyphs]
    BY <1>2, DrawTypes, GlyphsAre, Zenon
  <2>. QED  BY <1>2, <2>1, <2>2, Zenon
<1>6. phase' \in {"choose", "play", "paused", "over", "exit"} /\ wrapMode' \in BOOLEAN
  BY <1>2, <1>3, <1>4, Zenon
<1>7. BodyIsPath' /\ FoodIsFree' /\ TimersOK' /\ Body' = Body
  BY <1>3, <1>4, <1>5, <1>6, NothingMoves, Zenon
<1>8. DangerIsVisible'
  <2>1. body' = body /\ head' = head /\ length' = length /\ obstacles' = obstacles
    BY <1>3, Zenon DEF things
  <2>2. CASE phase' = "play" /\ ~paused'
    <3>1. screen' = screen /\ phase = "play" /\ ~paused
      BY <1>2, <1>4, <2>2
    <3>. QED  BY <1>7, <2>1, <3>1, Zenon DEF SnakeInv, DangerIsVisible
  <2>. QED  BY <2>2, Zenon DEF DangerIsVisible
<1>9. phase' # "choose"
  BY <1>4
<1>. QED  BY <1>4, <1>7, <1>8, <1>9, Zenon DEF SnakeInv

LEMMA NextInv ==
  ASSUME SnakeInv, [Next]_vars
  PROVE  SnakeInv'
<1>1. CASE ChooseMode
  BY <1>1, ChooseModeInv
<1>2. CASE Pause \/ Resume \/ Quit \/ Die \/ \E d \in Dirs : SetDir(d)
  BY <1>2, OtherKeysInv
<1>3. CASE \E dt \in Dts : Step(dt)
  <2>1. PICK dt \in Dts : Step(dt)
    BY <1>3
  <2>2. dt \in Nat
    BY SnakeAssumption
  <2>. QED  BY <2>1, <2>2, StepInv
<1>4. CASE UNCHANGED vars
  <2>1. UNCHANGED <<things, steps>> /\ UNCHANGED <<phase, wrapMode, dir, paused, screen>>
    BY <1>4, Zenon DEF vars, things
  <2>2. TypeOK
    BY Zenon DEF SnakeInv, BodyIsPath
  <2>3. BodyIsPath' /\ FoodIsFree' /\ TimersOK' /\ Body' = Body
    BY <2>1, <2>2, NothingMoves, Zenon DEF TypeOK
  <2>. QED  BY <2>1, <2>3, Zenon DEF SnakeInv, DangerIsVisible, things
<1>. QED  BY <1>1, <1>2, <1>3, <1>4, Zenon DEF Next

LEMMA SnakeInvariant == Spec => []SnakeInv
BY InitInv, NextInv, PTL DEF Spec

-----------------------------------------------------------------------------
(* The theorems.                                                           *)

\* For a board and a buffer of any size, whatever time passes between two steps
\* and wherever things are placed: the ring buffer holds a snake, whose cells
\* are on the board, each next to the one before, no cell twice and none of them
\* an obstacle, until it is longer than the buffer.
THEOREM SnakeIsPath == Spec => []BodyIsPath
<1>1. SnakeInv => BodyIsPath
  BY Zenon DEF SnakeInv
<1>. QED  BY <1>1, SnakeInvariant, PTL

\* No food, no bonus and no boost zone is ever under the snake, and only the
\* first food can be on an obstacle.
THEOREM FoodStaysFree == Spec => []FoodIsFree
<1>1. SnakeInv => FoodIsFree
  BY Zenon DEF SnakeInv
<1>. QED  BY <1>1, SnakeInvariant, PTL

\* In a game that was never paused, what step erases and draws in one step never
\* hides a cell of the snake or an obstacle.
THEOREM DangerStaysVisible == Spec => []DangerIsVisible
<1>1. SnakeInv => DangerIsVisible
  BY Zenon DEF SnakeInv
<1>. QED  BY <1>1, SnakeInvariant, PTL
=============================================================================
