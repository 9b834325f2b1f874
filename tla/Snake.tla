-------------------------------- MODULE Snake --------------------------------
(***************************************************************************)
(* The game snake (user/snake/Game.cc and main.cc): the body in a ring     *)
(* buffer, food, bonus food, obstacles, boost zones, their timers, and     *)
(* what is on the screen.                                                  *)
(*                                                                         *)
(* The pseudo-random placements choose any free cell, and fail only when   *)
(* there is none: their attempts are at least twice as many as the cells.  *)
(* The time between two steps is any element of Dts.                       *)
(***************************************************************************)
EXTENDS Integers, FiniteSetsExt

CONSTANTS
  BOARD_ROWS, BOARD_COLS, SNAKE_MAX,
  MAX_OBSTACLES, OBSTACLE_INIT_COUNT, OBSTACLE_STEP_INTERVAL, MAX_BOOST_ZONES,
  BONUS_INTERVAL_MS, BONUS_DURATION_MIN_MS, BONUS_PER_CELL,
  BONUS_POINTS, BOOST_DURATION_MS, BOOST_RESPAWN_MS,
  Dts,       \* what a step may find for dtMs
  MaxSteps,  \* bound: steps of a game, and no key changes direction after the last
  PauseAt    \* bound: the steps after which a game may be paused

\* A snake that fills body_, all obstacles and the food leave a cell free.
ASSUME SnakeAssumption ==
  /\ BOARD_ROWS \in Nat \ {0, 1} /\ BOARD_COLS \in Nat \ {0, 1} /\ SNAKE_MAX \in Nat \ {0}
  /\ MAX_OBSTACLES \in Nat /\ OBSTACLE_INIT_COUNT \in 0 .. MAX_OBSTACLES
  /\ OBSTACLE_STEP_INTERVAL \in Nat \ {0} /\ MAX_BOOST_ZONES \in Nat
  /\ SNAKE_MAX + MAX_OBSTACLES + 1 < BOARD_ROWS * BOARD_COLS
  /\ BONUS_INTERVAL_MS \in Nat /\ BONUS_DURATION_MIN_MS \in Nat \ {0}
  /\ BONUS_PER_CELL \in Nat /\ BONUS_POINTS \in Nat
  /\ BOOST_DURATION_MS \in Nat /\ BOOST_RESPAWN_MS \in Nat \ {0}
  /\ Dts \subseteq Nat /\ MaxSteps \in Nat

VARIABLES
  phase,      \* "choose", "play", "paused", "over", "exit"
  wrapMode, dir, body, head, length, score,
  food, obstacles, eatsSinceObstacle,
  bonus,      \* [active, pos, remaining, elapsed]
  zones,      \* boostZones_, without the order
  boost,      \* [active, timer, cooldown]
  screen,     \* what is drawn on the cells of the board
  paused,     \* history: the game was paused before
  steps       \* steps so far

vars == <<phase, wrapMode, dir, body, head, length, score, food, obstacles,
          eatsSinceObstacle, bonus, zones, boost, screen, paused, steps>>
things == <<body, head, length, score, food, obstacles, eatsSinceObstacle, bonus, zones, boost>>

Cells == (1 .. BOARD_ROWS) \X (1 .. BOARD_COLS)
CENTER_ROW == 1 + BOARD_ROWS \div 2
Center == <<CENTER_ROW, 1 + BOARD_COLS \div 2>>
Dirs == {"Up", "Down", "Left", "Right"}

\* The cells of the snake, from the head on.
Snake(arr, h, len) == [i \in 1 .. len |-> arr[(h - (i - 1) + SNAKE_MAX) % SNAKE_MAX]]
Body == Range(Snake(body, head, length))

BonusCells(b) == IF b.active THEN {b.pos} ELSE {}

-----------------------------------------------------------------------------
(* The screen.                                                             *)

Draw(s, S, glyph) == [p \in Cells |-> IF p \in S THEN glyph ELSE s[p]]
EraseAt(s, S) == Draw(s, S, "empty")

\* drawBoard draws the head, but not the rest of the snake: it is called only
\* when there is no rest.
DrawBoard(s) ==
  LET a == Draw(Draw(s, {body[head]}, "head"), {food}, "food")
      b == Draw(Draw(a, BonusCells(bonus), "bonus"), obstacles, "obstacle")
  IN Draw(b, zones, "boost")

\* drawPause writes into the middle row, and clearOverlay empties all of it.
Overlay == {p \in Cells : p[1] = CENTER_ROW}

-----------------------------------------------------------------------------
(* Placing things.                                                         *)

\* placeObstacles, placeBoostZones: n cells outside of taken, or all there are.
Placements(taken, n) ==
  LET free == Cells \ taken IN kSubset(Min({n, Cardinality(free)}), free)

\* spawnObstacle, which does not look at the boost zones.
SpawnObstacle(snake) ==
  Placements(snake \cup {food} \cup BonusCells(bonus) \cup obstacles, 1)

\* Mutant: the obstacles are not looked at.
PlaceFood_OnObstacle(snake, walls) ==
  LET free == Cells \ snake IN IF free = {} THEN {food} ELSE free

\* placeFood, which looks neither at the bonus food nor at the boost zones.
PlaceFood(snake, walls) ==
  LET free == Cells \ (snake \cup walls) IN IF free = {} THEN {food} ELSE free

\* placeBonusFood, which does not look at the boost zones.
PlaceBonusFood(snake, walls, fd) ==
  LET free == Cells \ (snake \cup walls \cup {fd})
  IN IF free = {} THEN {bonus.pos} ELSE free

\* init: the obstacles do not avoid the food, which is placed first.
Init ==
  /\ phase = "choose" /\ wrapMode = FALSE /\ dir = "Right"
  /\ body = [i \in 0 .. SNAKE_MAX - 1 |-> IF i = 0 THEN Center ELSE <<0, 0>>]
  /\ head = 0 /\ length = 1 /\ score = 0
  /\ food \in Cells \ {Center}
  /\ obstacles \in Placements({Center}, OBSTACLE_INIT_COUNT)
  /\ eatsSinceObstacle = 0
  /\ bonus = [active |-> FALSE, pos |-> <<0, 0>>, remaining |-> 0, elapsed |-> 0]
  /\ zones \in Placements({Center, food} \cup obstacles, MAX_BOOST_ZONES)
  /\ boost = [active |-> FALSE, timer |-> 0, cooldown |-> 0]
  /\ screen = DrawBoard([p \in Cells |-> "empty"])
  /\ paused = FALSE /\ steps = 0

-----------------------------------------------------------------------------
(* The keys.                                                               *)

\* chooseMode, which empties the row of its prompt, and countDown, which
\* empties the middle row and draws the board again.
ChooseMode ==
  /\ phase = "choose" /\ phase' = "play"
  /\ wrapMode' \in BOOLEAN
  /\ screen' = DrawBoard(EraseAt(EraseAt(screen, {p \in Cells : p[1] = BOARD_ROWS}), Overlay))
  /\ UNCHANGED <<dir, things, paused, steps>>

Pause ==
  /\ phase = "play" /\ phase' = "paused" /\ steps \in PauseAt
  /\ screen' = Draw(screen, Overlay, "text")
  /\ paused' = TRUE
  /\ UNCHANGED <<wrapMode, dir, things, steps>>

Resume ==
  /\ phase = "paused" /\ phase' = "play"
  /\ screen' = EraseAt(screen, Overlay)
  /\ UNCHANGED <<wrapMode, dir, things, paused, steps>>

\* 'q', in the game and after it.
Quit ==
  /\ phase \in {"play", "paused", "over"} /\ phase' = "exit"
  /\ UNCHANGED <<wrapMode, dir, things, screen, paused, steps>>

IsOpposite(cur, next) == {cur, next} \in {{"Up", "Down"}, {"Left", "Right"}}

\* Any number of direction keys between two steps.
SetDir(d) ==
  /\ phase = "play" /\ ~IsOpposite(dir, d) /\ steps < MaxSteps
  /\ dir' = d
  /\ UNCHANGED <<phase, wrapMode, things, screen, paused, steps>>

-----------------------------------------------------------------------------
(* step(dt).                                                               *)

Moved(p, d) ==
  CASE d = "Up" -> <<p[1] - 1, p[2]>>
    [] d = "Down" -> <<p[1] + 1, p[2]>>
    [] d = "Left" -> <<p[1], p[2] - 1>>
    [] d = "Right" -> <<p[1], p[2] + 1>>

Around(x, n) == IF x < 1 THEN n ELSE IF x > n THEN 1 ELSE x

\* The cell next to p, across the edge of the board when the game wraps.
Neighbour(p, d) ==
  LET n == Moved(p, d)
  IN IF wrapMode THEN <<Around(n[1], BOARD_ROWS), Around(n[2], BOARD_COLS)>> ELSE n

NextCell == Neighbour(body[head], dir)

\* Mutant: the cell next to the head is left out.
SelfCollision_NotNeck(p) == \E i \in 3 .. length : Snake(body, head, length)[i] = p

\* selfCollision: the cell the tail is about to leave counts.
SelfCollision(p) == \E i \in 2 .. length : Snake(body, head, length)[i] = p

\* The end of the game: a wall, the snake or an obstacle is in the way.
Collision(p) == p \notin Cells \/ SelfCollision(p) \/ p \in obstacles

Die ==
  /\ phase = "play" /\ Collision(NextCell)
  /\ phase' = "over"
  /\ screen' = Draw(screen, Overlay, "text")
  /\ UNCHANGED <<wrapMode, dir, things, paused, steps>>

\* A countdown by dt, which stops at 0.
Countdown(t, dt) == IF dt >= t THEN 0 ELSE t - dt

\* bonusDurationMs, for a length that leaves something of the interval.
BonusDuration(len) ==
  Max({BONUS_DURATION_MIN_MS, BONUS_INTERVAL_MS - len * BONUS_PER_CELL})

\* The boost timer; a zone was eaten or not.
BoostAfter(eaten, dt) ==
  LET timer == IF eaten THEN BOOST_DURATION_MS ELSE boost.timer
  IN [boost EXCEPT !.active = (@ \/ eaten) /\ dt < timer, !.timer = Countdown(timer, dt)]

\* The bonus timer, when the bonus was eaten or not.
BonusAfter(eaten, dt) ==
  LET b == [bonus EXCEPT !.active = @ /\ ~eaten]
  IN IF ~b.active THEN [b EXCEPT !.elapsed = @ + dt]
     ELSE IF dt >= b.remaining
       THEN [b EXCEPT !.active = FALSE, !.elapsed = @ + dt - b.remaining]
     ELSE [b EXCEPT !.remaining = Countdown(@, dt), !.elapsed = @ + dt]

\* Mutant: the cell is emptied although the snake has grown.
TailErased_Always(next, ate, tail) == EraseAt(screen, {tail})

\* The cell that the tail leaves.
TailErased(next, ate, tail) == EraseAt(screen, IF ate THEN {} ELSE {tail})

Step(dt) ==
  LET next == NextCell
      ate == next = food
      ateBonus == next \in BonusCells(bonus)
      tail == Snake(body, head, length)[length]
      spawn == ate /\ Cardinality(obstacles) < MAX_OBSTACLES
      eats == IF spawn THEN eatsSinceObstacle + 1 ELSE eatsSinceObstacle
      left == zones \ {next}
      respawn == left = {} /\ boost.cooldown + dt >= BOOST_RESPAWN_MS
      b == BonusAfter(ateBonus, dt)
      snake == Range(Snake(body', head', length'))
  IN /\ phase = "play" /\ ~Collision(next)
     /\ length <= SNAKE_MAX /\ steps < MaxSteps
     /\ head' = (head + 1) % SNAKE_MAX
     /\ body' = [body EXCEPT ![head'] = next]
     /\ length' = IF ate THEN length + 1 ELSE length
     /\ score' = score + (IF ate THEN 1 ELSE 0) + (IF ateBonus THEN BONUS_POINTS ELSE 0)
     /\ eatsSinceObstacle' = IF eats >= OBSTACLE_STEP_INTERVAL THEN 0 ELSE eats
     /\ \E new \in IF eats >= OBSTACLE_STEP_INTERVAL THEN SpawnObstacle(snake) ELSE {{}} :
          obstacles' = obstacles \cup new
     /\ food' \in IF ate THEN PlaceFood(snake, obstacles') ELSE {food}
     /\ zones' \in IF respawn
                     THEN Placements(snake \cup obstacles' \cup {food'}
                                       \cup (BonusCells(bonus) \ {next}), MAX_BOOST_ZONES)
                     ELSE {left}
     /\ boost' = [BoostAfter(next \in zones, dt) EXCEPT
                    !.cooldown = IF left # {} THEN @ ELSE IF respawn THEN 0 ELSE @ + dt]
     /\ IF ~b.active /\ b.elapsed >= BONUS_INTERVAL_MS
          THEN \E p \in PlaceBonusFood(snake, obstacles', food') :
                 bonus' = [active |-> TRUE, pos |-> p, elapsed |-> 0,
                           remaining |-> BonusDuration(length')]
          ELSE bonus' = b
     /\ screen' =
          LET s1 == Draw(TailErased(next, ate, tail), obstacles' \ obstacles, "obstacle")
              s2 == Draw(s1, {next}, "head")
              s3 == Draw(s2, IF length' > 1 THEN {body[head]} ELSE {}, "body")
              s4 == Draw(s3, IF ate THEN {food'} ELSE {}, "food")
              s5 == Draw(s4, IF respawn THEN zones' ELSE {}, "boost")
              expired == bonus.active /\ ~ateBonus /\ ~b.active
              s6 == EraseAt(s5, IF expired THEN {bonus.pos} ELSE {})
          IN Draw(s6, IF bonus'.active /\ ~b.active THEN {bonus'.pos} ELSE {}, "bonus")
     /\ steps' = steps + 1
     /\ UNCHANGED <<phase, wrapMode, dir, paused>>

Next ==
  \/ ChooseMode \/ Pause \/ Resume \/ Quit \/ Die
  \/ \E d \in Dirs : SetDir(d)
  \/ \E dt \in Dts : Step(dt)

Spec == Init /\ [][Next]_vars

-----------------------------------------------------------------------------
(* Properties.                                                             *)

Glyphs == {"empty", "head", "body", "food", "bonus", "obstacle", "boost", "text"}

\* The state has the types of SnakeGame's fields, and a timer that runs has
\* time left: no bonus and no boost outlives the step that its time ends in.
TypeOK ==
  /\ phase \in {"choose", "play", "paused", "over", "exit"}
  /\ wrapMode \in BOOLEAN /\ paused \in BOOLEAN /\ dir \in Dirs
  /\ body \in [0 .. SNAKE_MAX - 1 -> Cells \cup {<<0, 0>>}]
  /\ head \in 0 .. SNAKE_MAX - 1 /\ length \in 1 .. SNAKE_MAX + 1 /\ score \in Nat
  /\ food \in Cells
  /\ obstacles \subseteq Cells /\ Cardinality(obstacles) <= MAX_OBSTACLES
  /\ eatsSinceObstacle \in 0 .. OBSTACLE_STEP_INTERVAL - 1
  /\ bonus.active => bonus.pos \in Cells /\ bonus.remaining > 0
  /\ zones \subseteq Cells /\ Cardinality(zones) <= MAX_BOOST_ZONES
  /\ boost.active => boost.timer > 0
  /\ boost.cooldown \in 0 .. BOOST_RESPAWN_MS - 1
  /\ screen \in [Cells -> Glyphs] /\ steps \in 0 .. MaxSteps

Near(p, q) == \E d \in Dirs : q = Neighbour(p, d)

\* The ring buffer holds a snake: as long as it is not longer than the buffer,
\* its cells are on the board, each next to the one before, no cell twice, and
\* none of them an obstacle (step, selfCollision, spawnObstacle).
BodyIsPath ==
  /\ TypeOK
  /\ length <= SNAKE_MAX =>
       LET s == Snake(body, head, length)
       IN /\ Body \subseteq Cells \ obstacles
          /\ IsInjective(s)
          /\ \A i \in 1 .. length - 1 : Near(s[i], s[i + 1])

\* Food can be reached: it is never under the snake, and never on an obstacle
\* except for the first food, which placeObstacles does not look at.  An active
\* bonus is on neither, and no boost zone is under the snake.
FoodIsFree ==
  length <= SNAKE_MAX =>
    /\ food \notin Body
    /\ food \in obstacles => length = 1
    /\ BonusCells(bonus) \cap (Body \cup obstacles) = {}
    /\ zones \cap Body = {}

\* What ends the game can be seen: in a game that was never paused each cell of
\* the snake and each obstacle is drawn as one, whatever was drawn and erased
\* there before (step's order of eraseAt and drawAt).
DangerIsVisible ==
  phase = "play" /\ ~paused /\ length <= SNAKE_MAX =>
    /\ \A p \in obstacles : screen[p] = "obstacle"
    /\ \A p \in Body : screen[p] = IF p = body[head] THEN "head" ELSE "body"
=============================================================================
