------------------------------- MODULE Tetris -------------------------------
(***************************************************************************)
(* The game of tetris/main.hh on a Grid3 (kstd/math/grid3.hh).  A cell is   *)
(* <<row, col, layer>>, layer 0 on top.  Time is abstracted to whether the  *)
(* move timer elapsed, the camera to the quarter turn it is nearest to, and *)
(* the projection of blocks to which solid cells hide the falling body.     *)
(***************************************************************************)
EXTENDS Integers, FiniteSets, Sequences, SequencesExt, FiniteSetsExt

CONSTANTS
    ROWS, COLS, LAYERS,
    available_bodies,   \* sequence of sets of cells
    OrbitAngles,        \* camera angles, in eighths of a turn
    MAX_KEYS            \* bound on the keys pressed in one frame

Cells == (0 .. ROWS - 1) \X (0 .. COLS - 1) \X (0 .. LAYERS - 1)
Layer(l) == {c \in Cells : c[3] = l}

ASSUME TetrisAssumption ==
    /\ ROWS \in Nat \ {0} /\ COLS \in Nat \ {0} /\ LAYERS \in Nat \ {0}
    /\ \A i \in DOMAIN available_bodies : available_bodies[i] # {} /\ available_bodies[i] \subseteq Cells

VARIABLE
    game,       \* the fields of Game, with the blocks of the falling body as a set
    screen      \* "playing", "over" (the loop after game over) or "off"

tetrisVars == <<game, screen>>

-----------------------------------------------------------------------------
(* Grid3.                                                                   *)
set(f, cells, value) == [c \in Cells |-> IF c \in cells THEN value ELSE f[c]]
layer_filled_with(grid, l, value) == \A c \in Layer(l) : grid[c] = value
can_move_lower(grid, c) == c[3] + 1 < LAYERS /\ grid[<<c[1], c[2], c[3] + 1>>] = "EMPTY"

Below(c) == <<c[1], c[2], c[3] + 1>>
Place(g, blocks) ==
    [g EXCEPT !.grid = set(@, blocks, "FALLING"),
              !.body_indices = set(@, blocks, g.falling_body_index),
              !.blocks = blocks]
Lift(g) == [g EXCEPT !.grid = set(@, g.blocks, "EMPTY")]

-----------------------------------------------------------------------------
(* A body appears at the top, unless something is in its way.               *)
produce_new_falling_body(g, random) ==
    LET index == g.next_falling_body_index
        blocks == available_bodies[index]
        free == \A c \in blocks : g.grid[c] = "EMPTY"
        h == [g EXCEPT !.next_falling_body_index = random, !.game_over = ~free] IN
    IF free THEN Place([h EXCEPT !.falling_body_index = index], blocks) ELSE h

falling_body_can_go_lower(g) ==
    \A c \in g.blocks : can_move_lower(g.grid, c) \/ Below(c) \in g.blocks

(* One block after the other, the lowest first (layer_sort).                *)
LowestFirst(blocks) == SetToSortSeq(blocks, LAMBDA a, b : a[3] > b[3])

Move1(g, c) ==
    [g EXCEPT !.grid = set(set(@, {c}, "EMPTY"), {Below(c)}, "FALLING"),
              !.body_indices = set(@, {Below(c)}, g.falling_body_index),
              !.blocks = (@ \ {c}) \cup {Below(c)}]

move_falling_body_lower_HighestFirst(g) ==
    FoldLeft(Move1, g, Reverse(LowestFirst(g.blocks)))

move_falling_body_lower(g) == FoldLeft(Move1, g, LowestFirst(g.blocks))

(* The moves that put the whole body somewhere else or leave it alone.      *)
Fits_IgnoringSolid(g, blocks) == blocks \subseteq Cells
Fits(g, blocks) == blocks \subseteq Cells /\ \A c \in blocks : g.grid[c] = "EMPTY" \/ c \in g.blocks
TryPlace(g, blocks) == IF Fits(g, blocks) THEN Place(Lift(g), blocks) ELSE g

try_moving_falling_body(g, delta) ==
    TryPlace(g, {<<c[1] + delta[1], c[2] + delta[2], c[3]>> : c \in g.blocks})

CenterTwice(blocks) ==
    [i \in 1 .. 3 |-> Min({c[i] : c \in blocks}) + Max({c[i] : c \in blocks})]

rotate_90_doubled(c, center, axis) ==
    LET d == [i \in 1 .. 3 |-> 2 * c[i] - center[i]] IN
    CASE axis = "X" -> <<center[1] + d[1], center[2] - d[3], center[3] + d[2]>>
      [] axis = "Y" -> <<center[1] + d[3], center[2] + d[2], center[3] - d[1]>>

(* Half a cell off the grid: the body does not turn.                        *)
try_rotating_falling_body(g, axis) ==
    LET center == CenterTwice(g.blocks)
        turned == {rotate_90_doubled(c, center, axis) : c \in g.blocks} IN
    IF \E p \in turned, i \in 1 .. 3 : p[i] % 2 # 0 THEN g
    ELSE TryPlace(g, {<<p[1] \div 2, p[2] \div 2, p[3] \div 2>> : p \in turned})

(* The arrow keys follow the camera: angles round to the nearest quarter    *)
(* turn, halves away from zero.                                             *)
Sector(angle) ==
    LET nearest == IF angle >= 0 THEN (angle + 1) \div 2 ELSE -((1 - angle) \div 2) IN nearest % 4

camera_relative_move_delta(angle, x, y) ==
    LET right == << <<1, 0>>, <<0, 1>>, <<-1, 0>>, <<0, -1>> >>[Sector(angle) + 1]
        up == << <<0, -1>>, <<1, 0>>, <<0, 1>>, <<-1, 0>> >>[Sector(angle) + 1] IN
    <<x * right[1] + y * up[1], x * right[2] + y * up[2]>>

-----------------------------------------------------------------------------
(* Layers scheduled for destruction go, the others sink.  Cells of the new  *)
(* falling body are skipped as sources and when the top is cleared.         *)
DestroyLayers(g) ==
    LET kept == (0 .. LAYERS - 1) \ Range(g.layers_to_destroy)
        To(l) == LAYERS - 1 - Cardinality({k \in kept : k > l})
        top == LAYERS - 1 - Cardinality(kept)
        Source(c) == <<c[1], c[2], CHOOSE k \in kept : To(k) = c[3]>>
        Sink(f, default) ==
            [c \in Cells |->
                IF c[3] <= top
                THEN IF g.grid[c] = "FALLING" THEN f[c] ELSE default
                ELSE IF Source(c) = c \/ g.grid[Source(c)] = "FALLING" THEN f[c] ELSE f[Source(c)]] IN
    IF g.layers_to_destroy = <<>> THEN g
    ELSE [g EXCEPT !.grid = Sink(@, "EMPTY"), !.body_indices = Sink(@, 0), !.layers_to_destroy = <<>>]

FilledLayers(grid) ==
    SelectSeq([i \in 1 .. LAYERS |-> LAYERS - i], LAMBDA l : layer_filled_with(grid, l, "SOLID"))

Solidify(g, random) ==
    LET grid == set(g.grid, g.blocks, "SOLID") IN
    produce_new_falling_body([g EXCEPT !.grid = grid, !.layers_to_destroy = FilledLayers(grid)], random)

Drop(g) ==
    FoldLeft(LAMBDA h, i : IF falling_body_can_go_lower(h) THEN move_falling_body_lower(h) ELSE h,
             g, [i \in 1 .. LAYERS |-> i])

Fall(g, keys, elapsed, random) ==
    CASE "SPACE" \in keys -> Solidify(Drop(g), random)
      [] "SPACE" \notin keys /\ elapsed ->
            IF falling_body_can_go_lower(g) THEN move_falling_body_lower(g) ELSE Solidify(g, random)
      [] OTHER -> g

Rotate(g, keys) ==
    IF keys \cap {"W", "S"} # {} THEN try_rotating_falling_body(g, "X")
    ELSE IF keys \cap {"A", "D"} # {} THEN try_rotating_falling_body(g, "Y")
    ELSE g

Arrows == << <<"LEFT", -1, 0>>, <<"RIGHT", 1, 0>>, <<"UP", 0, -1>>, <<"DOWN", 0, 1>> >>
Steer(g, keys, angle) ==
    FoldLeft(LAMBDA h, a : IF a[1] \in keys
                           THEN try_moving_falling_body(h, camera_relative_move_delta(angle, a[2], a[3]))
                           ELSE h,
             g, Arrows)

update(g, keys, angle, elapsed, random) ==
    Fall(Steer(Rotate(DestroyLayers(g), keys), keys, angle), keys, elapsed, random)

-----------------------------------------------------------------------------
(* How far the shadow is drawn below the body.                              *)
tetris_shadow_layer_offset(g) ==
    LET Blocked(c, o) == LET n == <<c[1], c[2], c[3] + o>> IN g.grid[n] # "EMPTY" /\ n \notin g.blocks
        Room(c) == LET most == LAYERS - 1 - c[3]
                       stops == {o \in 1 .. most : Blocked(c, o)} IN
                   IF stops = {} THEN most ELSE Min(stops) - 1 IN
    Min({LAYERS} \cup {Room(c) : c \in g.blocks})

(* The faces of the shadow mesh: those between the body and what is not.    *)
Neighbours(c) ==
    {<<c[1], c[2], c[3] - 1>>, <<c[1] + 1, c[2], c[3]>>, <<c[1], c[2], c[3] + 1>>,
     <<c[1] - 1, c[2], c[3]>>, <<c[1], c[2] + 1, c[3]>>, <<c[1], c[2] - 1, c[3]>>}
update_tetris_shadow_mesh(blocks) ==
    {f \in UNION {{<<c, n>> : n \in Neighbours(c)} : c \in blocks} : f[2] \notin blocks}

(* draw(): the cells of each pass.  hidden is what would hide the falling   *)
(* body or its shadow from the camera.                                      *)
tetris_block_occludes(g, c, hiding) == ~g.game_over /\ c \in hiding

draw(g, hiding) ==
    LET solid == {c \in Cells : g.grid[c] = "SOLID"}
        opaque == {c \in solid : ~tetris_block_occludes(g, c, hiding)} IN
    IF g.game_over THEN <<opaque>>
    ELSE <<opaque, g.blocks, {c \in solid : tetris_block_occludes(g, c, hiding)}>>

-----------------------------------------------------------------------------
(* tetris_main.                                                             *)
NewGame ==
    produce_new_falling_body(
        [grid |-> [c \in Cells |-> "EMPTY"], body_indices |-> [c \in Cells |-> 0],
         blocks |-> {}, falling_body_index |-> 0, next_falling_body_index |-> 1,
         game_over |-> FALSE, layers_to_destroy |-> <<>>], 1)

TetrisInit == screen = "playing" /\ game = NewGame

Controls == {"W", "A", "LEFT", "RIGHT", "UP", "DOWN", "SPACE"}

Frame(keys, angle, elapsed, random) ==
    /\ screen = "playing"
    /\ game' = update(game, keys, angle, elapsed, random)
    /\ screen' = IF game'.game_over THEN "over" ELSE "playing"

Escape ==
    /\ screen # "off"
    /\ screen' = "off"
    /\ UNCHANGED game

TetrisNext ==
    \/ \E keys \in {k \in SUBSET Controls : Cardinality(k) <= MAX_KEYS}, angle \in OrbitAngles,
          elapsed \in BOOLEAN, random \in DOMAIN available_bodies : Frame(keys, angle, elapsed, random)
    \/ Escape

TetrisSpec == TetrisInit /\ [][TetrisNext]_tetrisVars

-----------------------------------------------------------------------------
TetrisTypeOK ==
    /\ game.grid \in [Cells -> {"EMPTY", "SOLID", "FALLING"}]
    /\ game.body_indices \in [Cells -> 0 .. Len(available_bodies)]
    /\ game.blocks \subseteq Cells
    /\ game.falling_body_index \in DOMAIN available_bodies
    /\ game.next_falling_body_index \in DOMAIN available_bodies
    /\ game.game_over \in BOOLEAN
    /\ Range(game.layers_to_destroy) \subseteq 0 .. LAYERS - 1
    /\ screen \in {"playing", "over", "off"}

(* The falling body keeps its number of blocks and their distances through  *)
(* moves, drops, rotations and the sinking of layers.                       *)
SquaredDistance(a, b) == (a[1] - b[1]) * (a[1] - b[1]) + (a[2] - b[2]) * (a[2] - b[2])
                         + (a[3] - b[3]) * (a[3] - b[3])
Shape(blocks) ==
    [d \in {SquaredDistance(a, b) : a, b \in blocks} |->
        Cardinality({p \in blocks \X blocks : SquaredDistance(p[1], p[2]) = d})]
BodyKeepsShape == screen # "off" => Shape(game.blocks) = Shape(available_bodies[game.falling_body_index])

(* No cell is left FALLING behind the body.                                 *)
NoGhostBlocks ==
    ~game.game_over => \A c \in Cells : game.grid[c] = "FALLING" => c \in game.blocks

(* Whatever the keys do to the falling body, the tower keeps its blocks     *)
(* until a full layer goes.                                                 *)
TowerStands ==
    [][game.layers_to_destroy = <<>> =>
         \A c \in Cells : game.grid[c] = "SOLID" => game'.grid[c] = "SOLID"]_tetrisVars

(* When full layers are taken out below a body that is well above the tower, *)
(* every other block sinks by the number of them that were below it.        *)
Column(grid, r, c) == {l \in 0 .. LAYERS - 1 : grid[<<r, c, l>>] = "SOLID"}
SinkingKeepsTower ==
    LET gone == Range(game.layers_to_destroy)
        lowest == Max({c[3] : c \in game.blocks})
        after == DestroyLayers(game).grid IN
    (~game.game_over /\ \A c \in Cells : game.grid[c] = "SOLID" => c[3] > lowest + Cardinality(gone)) =>
        \A r \in 0 .. ROWS - 1, c \in 0 .. COLS - 1 :
            Column(after, r, c) = {l + Cardinality({d \in gone : d > l}) : l \in Column(game.grid, r, c) \ gone}

(* The shadow is drawn where a drop would put the body.                     *)
ShadowWhereItLands ==
    screen = "playing" =>
        Drop(game).blocks =
            {<<c[1], c[2], c[3] + tetris_shadow_layer_offset(game)>> : c \in game.blocks}

(* Every solid block is drawn exactly once, in front of the body or not,    *)
(* also on the final screen.                                                *)
EverySolidDrawnOnce ==
    screen # "off" =>
    \A hiding \in {Cells, {}} \cup {Layer(l) : l \in 0 .. LAYERS - 1} :
        \A c \in Cells : game.grid[c] = "SOLID" =>
            Cardinality({i \in DOMAIN draw(game, hiding) : c \in draw(game, hiding)[i]}) = 1

\* The game's invariant: the body keeps its shape and leaves nothing behind, the
\* tower sinks as a whole, and the picture shows where the body will land.
GameSound ==
    /\ TetrisTypeOK
    /\ BodyKeepsShape
    /\ NoGhostBlocks
    /\ SinkingKeepsTower
    /\ ShadowWhereItLands
    /\ EverySolidDrawnOnce
=============================================================================
