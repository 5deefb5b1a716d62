------------------------------- MODULE Raster -------------------------------
(***************************************************************************)
(* gameos/gfx.hh: what each drawing operation puts on the screen.  A       *)
(* behaviour asks for one shape; drawn is the set of the set_pixel calls   *)
(* made for it.  Depth, blending and frames are in Frames.                 *)
(*                                                                         *)
(* The floats of triangles are integers in units of half a pixel, so that  *)
(* the centre of pixel x is 2 x + 1, and their ratios are kept multiplied  *)
(* out.  Sizes are small enough not to wrap in 32 bits.                    *)
(***************************************************************************)
EXTENDS Integers, Sequences, FiniteSets, SequencesExt

CONSTANTS
    WIDTH, HEIGHT,              \* of the screen
    GLYPH_WIDTH, GLYPH_HEIGHT,
    AA_RES,                     \* samples of a pixel, in each direction
    FIXED_POINT_ONE,
    NEWLINE, Texts,             \* sequences of characters and NEWLINE
    Textures,                   \* <<width, height>>
    Splits,                     \* <<x1, x2, y1, y2>> of nine patches
    Margins, Positions, Extents,  \* numbers
    Corners,                    \* points, in half pixels
    ClipPoints,                 \* <<x, y, z, w>> after projection, w a divisor of z
    Attributes, TEXTURE_SIZE,   \* what a triangle's vertices carry, in 0 .. 1
    CHANNEL_BITS, Channels,     \* of a colour, and values of one
    Formats                     \* the first bits of red, green and blue

VARIABLES
    shape,      \* what was asked for
    drawn       \* <<x, y, colour>>: the colour tells where it was taken from

rasterVars == <<shape, drawn>>

Screen == (0 .. WIDTH - 1) \X (0 .. HEIGHT - 1)
Lesser(a, b) == IF a < b THEN a ELSE b
Greater(a, b) == IF a > b THEN a ELSE b
abs_diff(a, b) == IF a > b THEN a - b ELSE b - a
clamp(a, low, high) == Lesser(Greater(a, low), high)
\* Division as C++ rounds it.
Quotient(a, b) == IF a >= 0 THEN a \div b ELSE -((-a) \div b)
-----------------------------------------------------------------------------
\* Colours.  A Pixel is a word with a field for each channel; the alpha field is
\* above the others.
CHANNEL_MAX == 2^CHANNEL_BITS - 1
Packed(colour, fmt) ==
    colour[1] * 2^fmt[1] + colour[2] * 2^fmt[2] + colour[3] * 2^fmt[3] + CHANNEL_MAX * 2^(3 * CHANNEL_BITS)

\* A channel of a pixel.
Unpacked(raw, pos) == (raw \div 2^pos) % 2^CHANNEL_BITS

lerp(a, b, pos, max) == a + Quotient((b - a) * pos, max)

\* Pixel::blend_with.
blend_with(raw, fg, a, fmt) ==
    IF a = 0 THEN raw
    ELSE IF a = CHANNEL_MAX THEN Packed(fg, fmt)
    ELSE Packed([i \in 1 .. 3 |-> lerp(Unpacked(raw, fmt[i]), fg[i], a, CHANNEL_MAX)], fmt)

\* blend_colors of a texel and what is under it.
blend_colors(bg, fg, a) ==
    IF a = 0 THEN bg
    ELSE IF a = CHANNEL_MAX THEN fg
    ELSE [i \in 1 .. 3 |-> (bg[i] * (CHANNEL_MAX - a) + fg[i] * a) \div CHANNEL_MAX]

modulate(a, b) == [i \in 1 .. 3 |-> (a[i] * b[i]) \div CHANNEL_MAX]
-----------------------------------------------------------------------------
\* inner_draw_char: the k-th glyph of a text, cut off at the screen's edges.
inner_draw_char(x, y, k) ==
    {<<x + col, y + row, [glyph |-> k, col |-> col, row |-> row]>> :
        col \in 0 .. Lesser(GLYPH_WIDTH, WIDTH - x) - 1, row \in 0 .. Lesser(GLYPH_HEIGHT, HEIGHT - y) - 1}

\* inner_draw_text: a line that reaches the edge goes on below, and the text
\* stops at the bottom.
inner_draw_text(x, y, text) ==
    LET Start == [cx |-> x, cy |-> y, done |-> FALSE, pixels |-> {}]
        Below(at) == [at EXCEPT !.cx = x, !.cy = @ + GLYPH_HEIGHT]
        Put(at, k) ==
            IF at.cy + GLYPH_HEIGHT > HEIGHT THEN [at EXCEPT !.done = TRUE]
            ELSE [at EXCEPT !.pixels = @ \cup inner_draw_char(at.cx, at.cy, k), !.cx = @ + GLYPH_WIDTH]
        Step(at, k) ==
            IF at.done THEN at
            ELSE IF text[k] = NEWLINE THEN Below(at)
            ELSE Put(IF at.cx + GLYPH_WIDTH > WIDTH THEN Below(at) ELSE at, k)
    IN FoldLeft(Step, Start, [k \in 1 .. Len(text) |-> k]).pixels

measure_text(text) ==
    LET Step(at, c) ==
            IF c = NEWLINE THEN [line |-> 0, max |-> Greater(at.max, at.line), count |-> at.count + 1]
            ELSE [at EXCEPT !.line = @ + 1]
        end == FoldLeft(Step, [line |-> 0, max |-> 0, count |-> 1], text)
    IN [width |-> Greater(end.max, end.line) * GLYPH_WIDTH, height |-> end.count * GLYPH_HEIGHT]
-----------------------------------------------------------------------------
\* The samples of a pixel that lie in the circle.
InCircle(x, y, r, px, py) ==
    LET res1 == AA_RES + 1
        Off(p, off, c) == abs_diff(p * res1 * 2 + off * 2 + 2, c * res1 * 2 + res1)
    IN Cardinality({s \in (0 .. AA_RES - 1) \X (0 .. AA_RES - 1) :
           LET dx == Off(px, s[1], x)  dy == Off(py, s[2], y)
           IN dx * dx + dy * dy <= r * r * res1 * res1 * 4})

\* inner_draw_circle: the colour is the number of samples covered.
inner_draw_circle(x, y, r) ==
    LET inner_r == IF r > 1 THEN (r - 1) * (r - 1) ELSE 0
        outer_r == (r + 1) * (r + 1)
        From(c) == IF c > r THEN c - r ELSE 0
        D2(p) == abs_diff(p[1], x) * abs_diff(p[1], x) + abs_diff(p[2], y) * abs_diff(p[2], y)
        box == {p \in Screen : p[1] \in From(x) .. x + r /\ p[2] \in From(y) .. y + r}
    IN {<<p[1], p[2], IF D2(p) <= inner_r THEN AA_RES * AA_RES ELSE InCircle(x, y, r, p[1], p[2])>> :
            p \in {p \in box : D2(p) <= inner_r \/ D2(p) < outer_r}}
-----------------------------------------------------------------------------
\* A line turned so that it runs rightwards and is not steep.
Oriented(x1, y1, x2, y2) ==
    LET steep == abs_diff(y1, y2) > abs_diff(x1, x2)
        a == IF steep THEN <<y1, x1>> ELSE <<x1, y1>>
        b == IF steep THEN <<y2, x2>> ELSE <<x2, y2>>
        swapped == a[1] > b[1]
        from == IF swapped THEN b ELSE a
        to == IF swapped THEN a ELSE b
    IN [steep |-> steep, swapped |-> swapped, x1 |-> from[1], y1 |-> from[2], x2 |-> to[1], y2 |-> to[2],
        dx |-> to[1] - from[1], dy |-> to[2] - from[2]]

Pixel(line, x, y, colour) == IF line.steep THEN <<y, x, colour>> ELSE <<x, y, colour>>

fractional_part(x) == x % FIXED_POINT_ONE
alpha(x) == (x * 255) \div FIXED_POINT_ONE

\* The two pixels beside a point of a line, weighted by its distance to them.
Beside(line, x, curr_y) ==
    LET y == curr_y \div FIXED_POINT_ONE
    IN {Pixel(line, x, y, alpha(FIXED_POINT_ONE - fractional_part(curr_y))),
        Pixel(line, x, y + 1, alpha(fractional_part(curr_y)))}

\* inner_draw_line: both endpoints, then the pixels between them.
inner_draw_line(x1, y1, x2, y2) ==
    LET line == Oriented(x1, y1, x2, y2)
        gradient == IF line.dx # 0 THEN Quotient(line.dy * FIXED_POINT_ONE, line.dx) ELSE 0
    IN Beside(line, line.x1, line.y1 * FIXED_POINT_ONE) \cup Beside(line, line.x2, line.y2 * FIXED_POINT_ONE)
       \cup UNION {Beside(line, x, line.y1 * FIXED_POINT_ONE + (x - line.x1) * gradient) : x \in line.x1 + 1 .. line.x2 - 1}

\* The error with which a raw line starts, and none.
FirstError_Zero(dx) == 0
FirstError(dx) == dx \div 2

\* The loop of inner_draw_raw_line, which inner_draw_raw_line_3d shares.  The
\* colour is the depth, times dx: z1 at the start, to z2 at the end.
RawLine(line, z1, z2) ==
    LET y_step == IF line.y1 < line.y2 THEN 1 ELSE -1
        dy == abs_diff(line.y1, line.y2)
        z(x) == IF line.dx = 0 THEN z1 ELSE z1 * line.dx + (x - line.x1) * (z2 - z1)
        Step(at, x) ==
            LET down == at.error - dy < 0
            IN [y |-> at.y + (IF down THEN y_step ELSE 0),
                error |-> at.error - dy + (IF down THEN line.dx ELSE 0),
                pixels |-> at.pixels \cup {Pixel(line, x, at.y, z(x))}]
    IN FoldLeft(Step, [y |-> line.y1, error |-> FirstError(line.dx), pixels |-> {}],
                [i \in 1 .. line.dx + 1 |-> line.x1 + i - 1]).pixels

inner_draw_raw_line(x1, y1, x2, y2) == RawLine(Oriented(x1, y1, x2, y2), 0, 0)

\* Where inner_draw_raw_line_3d draws, of points in half pixels: endpoints off
\* the screen are moved to its edge.
OnScreen(p) == <<clamp(Quotient(p[1], 2), 0, WIDTH - 1), clamp(Quotient(p[2], 2), 0, HEIGHT - 1)>>
MissesScreen(p, q) ==
    \/ p[1] < 0 /\ q[1] < 0
    \/ p[2] < 0 /\ q[2] < 0
    \/ p[1] >= 2 * WIDTH /\ q[1] >= 2 * WIDTH
    \/ p[2] >= 2 * HEIGHT /\ q[2] >= 2 * HEIGHT

inner_draw_raw_line_3d(p, q) ==
    IF MissesScreen(p, q) THEN {}
    ELSE LET a == OnScreen(p)  b == OnScreen(q)
             line == Oriented(a[1], a[2], b[1], b[2])
         IN IF line.swapped THEN RawLine(line, q[3], p[3]) ELSE RawLine(line, p[3], q[3])
-----------------------------------------------------------------------------
\* The part of a row of length w from x that is on the screen.
Clipped(x, w, limit) == IF x + w >= limit THEN limit - x ELSE w

inner_draw_rect(x, y, w, h) ==
    {<<p[1], p[2], "fill">> :
        p \in (x .. x + Clipped(x, w, WIDTH) - 1) \X (y .. y + Clipped(y, h, HEIGHT) - 1)}

\* Each pixel of a sprite or a nine patch is a texel.
Textured(x, y, w, h, source_x, source_y) ==
    {<<x + p[1], y + p[2], <<source_x[p[1]], source_y[p[2]]>>>> :
        p \in (0 .. Clipped(x, w, WIDTH) - 1) \X (0 .. Clipped(y, h, HEIGHT) - 1)}

inner_draw_sprite(res, x, y, w, h) ==
    Textured(x, y, w, h, [px \in 0 .. w - 1 |-> (px * res[1]) \div w], [py \in 0 .. h - 1 |-> (py * res[2]) \div h])

\* map_nine_patch_coordinate: the margins keep their size, unless the
\* destination is too small for both.
map_nine_patch_coordinate(coordinate, source, split1, split2, destination) ==
    LET right == source - split2
        tight == split1 + right > destination
        to_left == IF tight THEN (split1 * destination) \div (split1 + right) ELSE split1
        to_right == IF tight THEN destination - to_left ELSE right
        middle_end == destination - to_right
    IN IF coordinate < to_left THEN (coordinate * split1) \div to_left
       ELSE IF coordinate < middle_end
       THEN split1 + ((coordinate - to_left) * (split2 - split1)) \div (middle_end - to_left)
       ELSE IF to_right = 0 THEN split2
       ELSE split2 + ((coordinate - middle_end) * right) \div to_right

\* The guard of every nine patch operation.
SplitsFit(res, splits) ==
    splits[1] <= splits[2] /\ splits[3] <= splits[4] /\ splits[2] <= res[1] /\ splits[4] <= res[2]

inner_draw_nine_patch(res, splits, x, y, w, h) ==
    Textured(x, y, w, h, [px \in 0 .. w - 1 |-> map_nine_patch_coordinate(px, res[1], splits[1], splits[2], w)],
                         [py \in 0 .. h - 1 |-> map_nine_patch_coordinate(py, res[2], splits[3], splits[4], h)])

measure_nine_patch_text(res, splits, text, margin) ==
    LET bounds == measure_text(text)
    IN [width |-> bounds.width + splits[1] + res[1] - splits[2] + margin * 2,
        height |-> bounds.height + splits[3] + res[2] - splits[4] + margin * 2]
-----------------------------------------------------------------------------
\* Triangles, of points <<x, y, ...>> in half pixels.
det_xy(o, a, b) == (a[1] - o[1]) * (b[2] - o[2]) - (a[2] - o[2]) * (b[1] - o[1])
Centre(p) == <<2 * p[1] + 1, 2 * p[2] + 1>>

is_top_left(a, b) == b[2] > a[2] \/ (b[2] = a[2] /\ b[1] < a[1])

\* A pixel on an edge of two triangles is in both.
is_inside_Closed(e, top_left) == e >= 0
is_inside(e, top_left) == e > 0 \/ (e = 0 /\ top_left)

\* Rect of a triangle and its clip, in one coordinate: its pixels there.  A
\* coordinate below 0 becomes a huge u32, clipped to the far edge, so that a
\* triangle that reaches over the left or upper edge has no pixels.
Rect(a, b, c, i, limit) ==
    LET low == Lesser(Lesser(a[i], b[i]), c[i]) \div 2
        high == (Greater(Greater(a[i], b[i]), c[i]) + 1) \div 2
        Clip(n) == IF n < 0 THEN limit ELSE Lesser(n, limit)
    IN Clip(low) .. Clip(high) - 1

\* The pixels of a triangle turned so that its determinant is positive.
Inside(a, b, c) ==
    LET In(p, v, w) == is_inside(det_xy(v, w, Centre(p)), is_top_left(v, w))
    IN {p \in Rect(a, b, c, 1, WIDTH) \X Rect(a, b, c, 2, HEIGHT) : In(p, a, b) /\ In(p, b, c) /\ In(p, c, a)}

\* draw_triangle culls the triangles that do not turn counter-clockwise.
inner_draw_triangle(a, b, c) == IF det_xy(a, b, c) < 0 THEN Inside(a, c, b) ELSE {}

\* make_plane, times the triangle's determinant.
make_plane(a1, a2, a3, v1, v2, v3) ==
    [dx |-> (a2 - a1) * (v3[2] - v1[2]) - (a3 - a1) * (v2[2] - v1[2]),
     dy |-> (a3 - a1) * (v2[1] - v1[1]) - (a2 - a1) * (v3[1] - v1[1])]

\* sample_texture of u = num / den, the texel of one coordinate.
sample_texture(num, den) == (clamp(num, 0, den) * (TEXTURE_SIZE - 1)) \div den

\* inner_draw_triangle_3d: its pixels, what is interpolated at them (times the
\* determinant) and the texel, whose coordinate is interpolated over w.
inner_draw_triangle_3d(v1, v2, v3, at) ==
    LET iw == <<v2[4] * v3[4], v3[4] * v1[4], v1[4] * v2[4]>>
        area == det_xy(v1, v3, v2)
        Value(k, p) ==
            LET plane == make_plane(k[1], k[3], k[2], v1, v3, v2)
            IN k[1] * area + plane.dx * (Centre(p)[1] - v1[1]) + plane.dy * (Centre(p)[2] - v1[2])
    IN {<<p[1], p[2], [value |-> Value(at, p),
                       texel |-> sample_texture(Value([i \in 1 .. 3 |-> at[i] * iw[i]], p), Value(iw, p))]>> :
            p \in inner_draw_triangle(v1, v2, v3)}

\* clip_to_screen, in half pixels; project maps a point whose w is 0 to zero.
clip_to_screen(clip) ==
    IF clip[4] = 0 THEN <<0, 0, 0, 0>>
    ELSE <<((clip[1] + clip[4]) * WIDTH) \div clip[4], ((clip[4] - clip[2]) * HEIGHT) \div clip[4],
           clip[3] \div clip[4], clip[4]>>
-----------------------------------------------------------------------------
Draw(request, pixels) == shape' = request /\ drawn' = pixels

StartsInside(x, y) == x < WIDTH /\ y < HEIGHT

draw_char(x, y) ==
    /\ StartsInside(x, y)
    /\ Draw([type |-> "char", x |-> x, y |-> y], inner_draw_char(x, y, 1))

draw_text(x, y, text) ==
    Draw([type |-> "text", x |-> x, y |-> y, text |-> text], inner_draw_text(x, y, text))

draw_circle(x, y, r) ==
    /\ StartsInside(x, y)
    /\ Draw([type |-> "circle", x |-> x, y |-> y, r |-> r], inner_draw_circle(x, y, r))

\* Lines stay a pixel away from the far edges, where Beside draws its second.
LineTo(p) == <<Lesser(p[1], WIDTH - 2), Lesser(p[2], HEIGHT - 2)>>

draw_line(p, q) ==
    LET a == LineTo(p)  b == LineTo(q)
    IN Draw([type |-> "line", line |-> Oriented(a[1], a[2], b[1], b[2])], inner_draw_line(a[1], a[2], b[1], b[2]))

draw_raw_line(p, q) ==
    LET a == LineTo(p)  b == LineTo(q)
    IN Draw([type |-> "raw line", line |-> Oriented(a[1], a[2], b[1], b[2])], inner_draw_raw_line(a[1], a[2], b[1], b[2]))

draw_rect(x, y, w, h) ==
    /\ StartsInside(x, y)
    /\ Draw([type |-> "rect", x |-> x, y |-> y, w |-> w, h |-> h], inner_draw_rect(x, y, w, h))

draw_sprite_scaled(res, x, y, w, h) ==
    /\ StartsInside(x, y) /\ w > 0 /\ h > 0
    /\ Draw([type |-> "sprite", res |-> res, x |-> x, y |-> y, w |-> w, h |-> h], inner_draw_sprite(res, x, y, w, h))

draw_sprite(res, x, y) == draw_sprite_scaled(res, x, y, res[1], res[2])

draw_nine_patch(res, splits, x, y, w, h) ==
    /\ StartsInside(x, y) /\ w > 0 /\ h > 0 /\ SplitsFit(res, splits)
    /\ Draw([type |-> "nine patch", res |-> res, splits |-> splits, x |-> x, y |-> y, w |-> w, h |-> h],
            inner_draw_nine_patch(res, splits, x, y, w, h))

\* The text of a box, which is drawn over it.
draw_nine_patch_text(res, splits, text, x, y, margin) ==
    LET box == measure_nine_patch_text(res, splits, text, margin)
    IN /\ StartsInside(x, y) /\ SplitsFit(res, splits)
       /\ Draw([type |-> "box", res |-> res, splits |-> splits, text |-> text, x |-> x, y |-> y,
                w |-> box.width, h |-> box.height, margin |-> margin],
               inner_draw_text(x + splits[1] + margin, y + splits[3] + margin, text))

\* A quadrilateral is two triangles of its corners, as in the plane and the cube.
draw_triangle(a, b, c, d) ==
    Draw([type |-> "triangles", corners |-> <<a, b, c, d>>],
         {<<p[1], p[2], 1>> : p \in inner_draw_triangle(a, b, c)} \cup {<<p[1], p[2], 2>> : p \in inner_draw_triangle(a, c, d)})

\* inner_draw_mesh: a triangle with a vertex behind the camera is left out.
draw_mesh(p, at) ==
    LET v == [i \in 1 .. 3 |-> clip_to_screen(p[i])]
    IN Draw([type |-> "mesh", vertices |-> v, at |-> at],
            IF \E i \in 1 .. 3 : v[i][4] <= 0 THEN {} ELSE inner_draw_triangle_3d(v[1], v[2], v[3], at))

\* An edge of inner_draw_wireframe.
draw_wireframe(p, q) ==
    LET a == clip_to_screen(p)  b == clip_to_screen(q)
    IN /\ a[4] > 0 /\ b[4] > 0
       /\ Draw([type |-> "edge", from |-> a, to |-> b], inner_draw_raw_line_3d(a, b))

\* set_pixel's blending of one pixel, which holds a colour already.
Blend(bg, fg, a, fmt) ==
    Draw([type |-> "blend", bg |-> bg, fg |-> fg, a |-> a, fmt |-> fmt,
          pixel |-> blend_with(Packed(bg, fmt), fg, a, fmt), texel |-> blend_colors(bg, fg, a),
          modulated |-> modulate(bg, fg)], {})

RasterInit == shape = [type |-> "none"] /\ drawn = {}

RasterNext ==
    /\ shape.type = "none"
    /\ \/ \E x, y \in Positions :
           \/ draw_char(x, y)
           \/ \E text \in Texts : draw_text(x, y, text)
           \/ \E r \in Extents : draw_circle(x, y, r)
           \/ \E w, h \in Extents : draw_rect(x, y, w, h)
           \/ \E res \in Textures :
               \/ draw_sprite(res, x, y)
               \/ \E w, h \in Extents : draw_sprite_scaled(res, x, y, w, h)
               \/ \E splits \in Splits : \E w, h \in Extents : draw_nine_patch(res, splits, x, y, w, h)
               \/ \E splits \in Splits : \E text \in Texts, margin \in Margins : draw_nine_patch_text(res, splits, text, x, y, margin)
       \/ \E p, q \in Screen : draw_line(p, q) \/ draw_raw_line(p, q)
       \/ \E a, b, c, d \in Corners : draw_triangle(a, b, c, d)
       \/ \E p \in [1 .. 3 -> ClipPoints], at \in Attributes : draw_mesh(p, at)
       \/ \E p, q \in ClipPoints : draw_wireframe(p, q)
       \/ \E bg, fg \in [1 .. 3 -> Channels], a \in Channels, fmt \in Formats : Blend(bg, fg, a, fmt)
-----------------------------------------------------------------------------
Places == {<<d[1], d[2]>> : d \in drawn}

\* No shape, wherever it starts and however large it is, sets a pixel off the
\* screen, which set_pixel asserts.
RasterTypeOK == Places \subseteq Screen

\* No shape sets a pixel to two colours, which would show where a translucent
\* one is drawn, as the shared edge of two triangles.
EachPixelOnce == Cardinality(Places) = Cardinality(drawn)

\* A circle covers the pixels that lie in it and none that lie outside, is the
\* same in every direction, and covers no less where it is nearer to its centre.
CircleIsRound ==
    shape.type = "circle" /\ shape.r > 0 =>
        LET Off(d) == <<abs_diff(d[1], shape.x), abs_diff(d[2], shape.y)>>
            D2(o) == o[1] * o[1] + o[2] * o[2]
            \* The pixel's farthest and nearest corner, in half pixels.
            Far(o) == D2(<<2 * o[1] + 1, 2 * o[2] + 1>>)
            Near(o) == D2(<<Greater(2 * o[1] - 1, 0), Greater(2 * o[2] - 1, 0)>>)
        IN /\ \A p \in Screen : Far(Off(p)) <= 4 * shape.r * shape.r => <<p[1], p[2], AA_RES * AA_RES>> \in drawn
           /\ \A d \in drawn : Near(Off(d)) > 4 * shape.r * shape.r => d[3] = 0
           /\ \A d, e \in drawn :
                /\ Off(d) \in {Off(e), Reverse(Off(e))} => d[3] = e[3]
                /\ D2(Off(d)) < D2(Off(e)) => d[3] >= e[3]

\* The pixels of a column of a line, turned.
Columns(line) == {IF line.steep THEN <<d[2], d[1], d[3]>> ELSE <<d[1], d[2], d[3]>> : d \in drawn}

\* The line of a shape that is one without weights.
LineOf ==
    IF shape.type = "raw line" THEN shape.line
    ELSE LET a == OnScreen(shape.from)  b == OnScreen(shape.to) IN Oriented(a[1], a[2], b[1], b[2])

\* A raw line has one pixel in each column from one end to the other, none
\* further from the line than half a pixel, so that neighbours touch; in three
\* dimensions its depth runs from the one end's to the other's.
LinesConnect ==
    shape.type \in {"raw line", "edge"} /\ drawn # {} =>
        LET line == LineOf
        IN /\ {d[1] : d \in Columns(line)} = line.x1 .. line.x2
           /\ \A d \in Columns(line) :
                2 * abs_diff((d[2] - line.y1) * line.dx, line.dy * (d[1] - line.x1)) <= line.dx
           /\ \A d \in drawn : shape.type = "edge" /\ line.dx # 0 =>
                /\ <<d[1], d[2]>> = OnScreen(shape.from) => d[3] = shape.from[3] * line.dx
                /\ <<d[1], d[2]>> = OnScreen(shape.to) => d[3] = shape.to[3] * line.dx

\* A smooth line has two pixels in each column, whose weights make up one, and
\* the heavier is the nearer to the line.
LineWeights ==
    shape.type = "line" =>
        LET line == shape.line
        IN \A x \in line.x1 .. line.x2 :
            LET here == {d \in Columns(line) : d[1] = x}
            IN \E d, e \in here :
                /\ here = {d, e} /\ e[2] = d[2] + 1 /\ d[3] + e[3] \in {254, 255}
                /\ \A f \in here : f[3] > 128 =>
                    FIXED_POINT_ONE * abs_diff((f[2] - line.y1) * line.dx, line.dy * (x - line.x1))
                        <= line.dx * (FIXED_POINT_ONE \div 2 + WIDTH + HEIGHT)

\* The glyphs a text has on the screen are its first ones, in reading order, each
\* whole unless the text itself starts too far right; the box measured for a text
\* holds all of it inside its margins, when the screen holds the box.
TextInItsBox ==
    /\ shape.type \in {"text", "box"} =>
        LET glyphs == {d[3].glyph : d \in drawn}
            Of(k) == {d \in drawn : d[3].glyph = k}
            Corner(k) == CHOOSE d \in Of(k) : d[3].col = 0 /\ d[3].row = 0
        IN /\ \A k \in glyphs : \A j \in 1 .. k : shape.text[j] # NEWLINE => j \in glyphs
           /\ \A j, k \in glyphs : j < k => \/ Corner(j)[2] < Corner(k)[2]
                                            \/ Corner(j)[2] = Corner(k)[2] /\ Corner(j)[1] < Corner(k)[1]
           /\ shape.type = "text" /\ shape.x + GLYPH_WIDTH <= WIDTH =>
                \A k \in glyphs : Cardinality(Of(k)) = GLYPH_WIDTH * GLYPH_HEIGHT
           /\ shape.type = "box" /\ shape.x + shape.w <= WIDTH /\ shape.y + shape.h <= HEIGHT =>
                /\ glyphs = {k \in DOMAIN shape.text : shape.text[k] # NEWLINE}
                /\ \A d \in drawn :
                    /\ d[1] - shape.x \in shape.splits[1] + shape.margin .. shape.w - (shape.res[1] - shape.splits[2]) - shape.margin - 1
                    /\ d[2] - shape.y \in shape.splits[3] + shape.margin .. shape.h - (shape.res[2] - shape.splits[4]) - shape.margin - 1

\* A texture drawn in any size shows texels of its own only, in their order, the
\* first one first; a nine patch with room for them shows its margins unscaled.
\* A nine patch that starts its middle at the texture's end has no texel there.
TextureIsSpread ==
    /\ shape.type \in {"sprite", "nine patch"} =>
        \A d, e \in drawn, i \in 1 .. 2 :
            shape.type = "sprite" \/ (shape.splits[1] < shape.res[1] /\ shape.splits[3] < shape.res[2]) =>
                /\ d[3][i] \in 0 .. shape.res[i] - 1
                /\ d[i] <= e[i] => d[3][i] <= e[3][i]
                /\ <<d[1], d[2]>> = <<shape.x, shape.y>> /\ shape.type = "sprite" => d[3] = <<0, 0>>
    /\ shape.type = "nine patch" =>
        LET right == shape.res[1] - shape.splits[2]
        IN shape.w >= shape.splits[1] + right =>
            \A d \in drawn :
                /\ d[1] - shape.x < shape.splits[1] => d[3][1] = d[1] - shape.x
                /\ shape.x + shape.w - d[1] <= right => shape.res[1] - d[3][1] = shape.x + shape.w - d[1]

\* Two triangles that share a diagonal, with no corner left of the screen or above
\* it, draw what is inside the quadrilateral, and the same pixels as the two that
\* share the other diagonal.
TrianglesTile ==
    shape.type = "triangles" /\ (\A i \in 1 .. 4 : shape.corners[i][1] >= 0 /\ shape.corners[i][2] >= 0) =>
        LET v == shape.corners
            Next_(i) == (i % 4) + 1
            Convex == \A i \in 1 .. 4 : det_xy(v[i], v[Next_(i)], v[Next_(Next_(i))]) < 0
            Within(p) == \A i \in 1 .. 4 : det_xy(v[i], v[Next_(i)], Centre(p)) < 0
            Around(p) == \A i \in 1 .. 4 : det_xy(v[i], v[Next_(i)], Centre(p)) <= 0
        IN Convex => /\ \A p \in Screen : (Within(p) => p \in Places) /\ (p \in Places => Around(p))
                     /\ Places = inner_draw_triangle(v[2], v[3], v[4]) \cup inner_draw_triangle(v[2], v[4], v[1])

\* What a triangle interpolates is at every pixel the mean of its vertices'
\* values, weighted by how near they are, and over w for a texture.
PlanesInterpolate ==
    shape.type = "mesh" =>
        LET v == shape.vertices
            iw == <<v[2][4] * v[3][4], v[3][4] * v[1][4], v[1][4] * v[2][4]>>
            Mean(k, p) == k[1] * det_xy(v[3], v[2], Centre(p)) + k[2] * det_xy(v[1], v[3], Centre(p))
                          + k[3] * det_xy(v[2], v[1], Centre(p))
        IN \A d \in drawn :
            /\ d[3].value = Mean(shape.at, d) /\ d[3].value \in 0 .. det_xy(v[1], v[3], v[2])
            /\ d[3].texel = (Mean([i \in 1 .. 3 |-> shape.at[i] * iw[i]], d) * (TEXTURE_SIZE - 1)) \div Mean(iw, d)

\* A blended pixel lies between the two colours in every channel, whatever the
\* order of its fields, with no channel reaching into another; a texel blended
\* over a colour is the same to one step, and neither modulated grows.
ColoursMix ==
    shape.type = "blend" =>
        LET pixel == [i \in 1 .. 3 |-> Unpacked(shape.pixel, shape.fmt[i])]
        IN /\ shape.pixel = Packed(pixel, shape.fmt)
           /\ \A i \in 1 .. 3 :
                LET b == shape.bg[i]  f == shape.fg[i]
                IN /\ pixel[i] \in Lesser(b, f) .. Greater(b, f)
                   /\ abs_diff(pixel[i], shape.texel[i]) <= 1
                   /\ shape.modulated[i] <= Lesser(b, f)
                   /\ shape.a = CHANNEL_MAX => pixel[i] = f

\* The rasterizer's invariant: a shape sets each of its pixels once, none off the
\* screen, and those are the ones its geometry asks for.
ShapesSound ==
    /\ RasterTypeOK
    /\ EachPixelOnce
    /\ CircleIsRound
    /\ LinesConnect
    /\ LineWeights
    /\ TextInItsBox
    /\ TextureIsSpread
    /\ TrianglesTile
    /\ PlanesInterpolate
    /\ ColoursMix
=============================================================================
