------------------------------ MODULE Matrices ------------------------------
(***************************************************************************)
(* kstd/matrix.hh and the vectors and quaternions of kstd/math.hh, with    *)
(* the transforms gameos/gfx.hh builds of them: a mesh instance's matrix   *)
(* and the camera's.                                                       *)
(*                                                                         *)
(* Floats are integers here: the values are those every operation of the   *)
(* code computes exactly.  A quaternion is held doubled, so that the 24    *)
(* rotations of a tetrahedron and a cube's half turns are integers, and an *)
(* inverse is held as its adjugate and determinant.                        *)
(***************************************************************************)
EXTENDS Integers, Sequences, FiniteSets, SequencesExt

CONSTANTS
    Translations, Scales, Rotations,    \* vectors, vectors, doubled unit quaternions
    Points,                             \* points to look at
    Views, Looks,                       \* view volumes, <<x is forward, viewpoint, target, up>>
    MAX_OPERATIONS

ASSUME MatricesAssumption ==
    \A q \in Rotations : q[1] * q[1] + q[2] * q[2] + q[3] * q[3] + q[4] * q[4] = 4

VARIABLES
    transform,      \* Matrix4, built up by translate, scale and rotate
    linear, affine, \* the same as Matrix3 and as Matrix4x3
    operations,     \* what was asked for
    instance,       \* Mesh_Instance: translation, rotation, scale, transform
    turns,          \* the rotations it was given since its creation
    viewing,        \* the volume or the look asked for, and its matrix
    camera          \* Camera3D: position, rotation, M_camera; has it moved

matrixVars == <<transform, linear, affine, operations, instance, turns, viewing, camera>>
-----------------------------------------------------------------------------
\* Vectors.
dot(k, a, b) == a[1] * b[1] + a[2] * b[2] + a[3] * b[3] + (IF k = 4 THEN a[4] * b[4] ELSE 0)
cross(a, b) == <<a[2] * b[3] - a[3] * b[2], a[3] * b[1] - a[1] * b[3], a[1] * b[2] - a[2] * b[1]>>
Plus(a, b)  == [i \in DOMAIN a |-> a[i] + b[i]]
Minus(a, b) == [i \in DOMAIN a |-> a[i] - b[i]]
Times(v, s) == [i \in DOMAIN v |-> v[i] * s]
as_point(v) == Append(v, 1)
as_vector(v) == Append(v, 0)

\* Matrices, by rows.
Matrix(n, k, value(_, _)) == [i \in 1 .. n |-> [j \in 1 .. k |-> value(i, j)]]
identity(n) == Matrix(n, n, LAMBDA i, j : IF i = j THEN 1 ELSE 0)
column(m, j) == [i \in DOMAIN m |-> m[i][j]]

\* multiply(matrix, vector), of any size.
apply(m, v) == [i \in DOMAIN m |-> dot(Len(v), m[i], v)]

\* multiply of two matrices of one size.
multiply(n, a, b) == Matrix(n, n, LAMBDA i, j : dot(n, a[i], column(b, j)))

\* The overloads that know rows and columns they need not multiply: Matrix4 by
\* Matrix3, the products with Matrix4x3, whose fourth row is 0 0 0 1.
multiply_4_by_3(a, b) ==
    Matrix(4, 4, LAMBDA i, j : IF j = 4 THEN a[i][4] ELSE dot(3, a[i], column(b, j)))
multiply_4x3(a, b) ==
    Matrix(3, 4, LAMBDA i, j : dot(3, a[i], column(b, j)) + (IF j = 4 THEN a[i][4] ELSE 0))
multiply_4_by_4x3(a, b) ==
    Matrix(4, 4, LAMBDA i, j : dot(3, a[i], column(b, j)) + (IF j = 4 THEN a[i][4] ELSE 0))
multiply_4x3_by_4(a, b) ==
    Matrix(4, 4, LAMBDA i, j : IF i = 4 THEN b[4][j] ELSE dot(4, a[i], column(b, j)))

make_matrix3(m) == Matrix(3, 3, LAMBDA i, j : m[i][j])
make_matrix4(m) == Matrix(4, 4, LAMBDA i, j : IF i <= Len(m) /\ j <= Len(m[1]) THEN m[i][j]
                                              ELSE IF i = j THEN 1 ELSE 0)
transpose(m) == Matrix(Len(m), Len(m), LAMBDA i, j : m[j][i])
transform_point(m, v) == [i \in 1 .. 3 |-> dot(3, m[i], v) + m[i][4]]
transform_vector(m, v) == [i \in 1 .. 3 |-> dot(3, m[i], v)]

make_scale_matrix4(v) == Matrix(4, 4, LAMBDA i, j : IF i # j THEN 0 ELSE IF i = 4 THEN 1 ELSE v[i])
make_translation_matrix4(v) ==
    Matrix(4, 4, LAMBDA i, j : IF j = 4 /\ i < 4 THEN v[i] ELSE IF i = j THEN 1 ELSE 0)

\* The scale of a matrix's rows, which scales behind what the matrix does.
scale_Rows(m, v) == [i \in DOMAIN m |-> [j \in DOMAIN m[i] |-> IF i <= 3 THEN m[i][j] * v[i] ELSE m[i][j]]]

\* scale: the first three columns.
scale(m, v) ==
    [i \in DOMAIN m |-> [j \in DOMAIN m[i] |-> IF i <= 3 /\ j <= 3 THEN m[i][j] * v[j] ELSE m[i][j]]]

translate(m, t) == [i \in DOMAIN m |-> [m[i] EXCEPT ![4] = @ + dot(3, m[i], t)]]
-----------------------------------------------------------------------------
\* Quaternions <<x, y, z, w>>, doubled.
IDENTITY == <<0, 0, 0, 2>>

\* The Hamilton product: b, then a.
Product(a, b) ==
    <<(a[4] * b[1] + a[1] * b[4] + a[2] * b[3] - a[3] * b[2]) \div 2,
      (a[4] * b[2] - a[1] * b[3] + a[2] * b[4] + a[3] * b[1]) \div 2,
      (a[4] * b[3] + a[1] * b[2] - a[2] * b[1] + a[3] * b[4]) \div 2,
      (a[4] * b[4] - a[1] * b[1] - a[2] * b[2] - a[3] * b[3]) \div 2>>

\* make_rotation_matrix<Matrix3>.
make_rotation_matrix(q) ==
    LET Half(n) == n \div 2
        x == q[1]  y == q[2]  z == q[3]  w == q[4]
    IN <<<<1 - Half(y * y + z * z), Half(x * y - w * z), Half(x * z + w * y)>>,
         <<Half(x * y + w * z), 1 - Half(x * x + z * z), Half(y * z - w * x)>>,
         <<Half(x * z - w * y), Half(y * z + w * x), 1 - Half(x * x + y * y)>>>>
-----------------------------------------------------------------------------
\* inverse(Matrix3): det and det times the result.
inverse3(a) ==
    LET c11 == a[2][2] * a[3][3] - a[3][2] * a[2][3]
        c12 == a[2][1] * a[3][3] - a[3][1] * a[2][3]
        c13 == a[2][1] * a[3][2] - a[3][1] * a[2][2]
    IN [det |-> a[1][1] * c11 - a[1][2] * c12 + a[1][3] * c13,
        result |-> <<<<c11, -(a[1][2] * a[3][3] - a[1][3] * a[3][2]), a[1][2] * a[2][3] - a[1][3] * a[2][2]>>,
                     <<-c12, a[1][1] * a[3][3] - a[1][3] * a[3][1], -(a[1][1] * a[2][3] - a[1][3] * a[2][1])>>,
                     <<c13, -(a[1][1] * a[3][2] - a[1][2] * a[3][1]), a[1][1] * a[2][2] - a[1][2] * a[2][1]>>>>]

\* The parts inverse(Matrix4) and determinant are computed of, for four vectors
\* and their fourth coordinates.
Parts(a, b, c, d, x, y, z, w) ==
    LET s == cross(a, b)  t == cross(c, d)
        u == Minus(Times(a, y), Times(b, x))
        v == Minus(Times(c, w), Times(d, z))
    IN [s |-> s, t |-> t, u |-> u, v |-> v, det |-> dot(3, s, v) + dot(3, t, u)]

\* inverse(Matrix4), by columns: det and det times the result, which fails when
\* det is 0 (epsilon lies between 0 and the smallest det here).
inverse4(m) ==
    LET Top(j) == SubSeq(column(m, j), 1, 3)
        a == Top(1)  b == Top(2)  c == Top(3)  d == Top(4)
        p == Parts(a, b, c, d, m[4][1], m[4][2], m[4][3], m[4][4])
    IN [det |-> p.det,
        result |-> <<Append(Plus(cross(b, p.v), Times(p.t, m[4][2])), -dot(3, b, p.t)),
                     Append(Minus(cross(p.v, a), Times(p.t, m[4][1])), dot(3, a, p.t)),
                     Append(Plus(cross(d, p.u), Times(p.s, m[4][4])), -dot(3, d, p.s)),
                     Append(Minus(cross(p.u, c), Times(p.s, m[4][3])), dot(3, c, p.s))>>]

\* determinant, by rows.
determinant(m) ==
    LET Left(i) == SubSeq(m[i], 1, 3)
    IN Parts(Left(1), Left(2), Left(3), Left(4), m[1][4], m[2][4], m[3][4], m[4][4]).det

\* isometry_inverse: the transposed rotation and the translation it turns back.
isometry_inverse(m) ==
    Matrix(4, 4, LAMBDA i, j : IF i = 4 THEN (IF j = 4 THEN 1 ELSE 0)
                               ELSE IF j < 4 THEN m[j][i]
                               ELSE -(m[1][i] * m[1][4] + m[2][i] * m[2][4] + m[3][i] * m[3][4]))
-----------------------------------------------------------------------------
\* normalize, of vectors along an axis or zero.
normalize(v, fallback) ==
    IF v = <<0, 0, 0>> THEN fallback
    ELSE [i \in 1 .. 3 |-> IF v[i] > 0 THEN 1 ELSE IF v[i] < 0 THEN -1 ELSE 0]

make_matrix_from_rows(x, y, z) == make_matrix4(<<x, y, z>>)

make_look_at_matrix(x_is_forward, viewpoint, look_at, reference_up) ==
    LET forward == normalize(Minus(look_at, viewpoint), <<0, 0, 1>>)
        left == normalize(cross(reference_up, forward), <<0, 0, 1>>)
        up == normalize(cross(forward, left), <<0, 0, 1>>)
        rotation == IF x_is_forward THEN make_matrix_from_rows(forward, left, up)
                    ELSE make_matrix_from_rows(Times(left, -1), up, Times(forward, -1))
    IN translate(rotation, Times(viewpoint, -1))

\* The projections are held times 2 (r - l) (t - b) (f - n).
Denominator(v) == 2 * (v.r - v.l) * (v.t - v.b) * (v.f - v.n)

\* The depth range -1..1 mapped to 0..1.
DepthRange01(m) == [m EXCEPT ![3] = [j \in 1 .. 4 |-> IF j <= 2 THEN m[3][j] ELSE (m[3][j] + m[4][j]) \div 2]]
Ranged(v, m) == IF v.depth_range_01 THEN DepthRange01(m) ELSE m

orthographic_projection_matrix(v) ==
    LET D == Denominator(v)
        dx == D \div (v.r - v.l)  dy == D \div (v.t - v.b)  dz == D \div (v.f - v.n)
    IN Ranged(v, <<<<2 * dx, 0, 0, -(v.r + v.l) * dx>>, <<0, 2 * dy, 0, -(v.t + v.b) * dy>>,
                   <<0, 0, -2 * dz, -(v.f + v.n) * dz>>, <<0, 0, 0, D>>>>)

make_frustum_matrix(v) ==
    LET D == Denominator(v)
        dx == D \div (v.r - v.l)  dy == D \div (v.t - v.b)  dz == D \div (v.f - v.n)
    IN Ranged(v, <<<<2 * v.n * dx, 0, (v.r + v.l) * dx, 0>>, <<0, 2 * v.n * dy, (v.t + v.b) * dy, 0>>,
                   <<0, 0, -(v.f + v.n) * dz, -2 * v.f * v.n * dz>>, <<0, 0, -D, 0>>>>)

\* make_projection_matrix of a right angle, whose cotangent is 1, held times
\* 2 aspect (f - n).
make_projection_matrix(aspect, n, f, range01) ==
    LET D == 2 * aspect * (f - n)
        dz == 2 * aspect
    IN Ranged([depth_range_01 |-> range01],
              <<<<D \div aspect, 0, 0, 0>>, <<0, D, 0, 0>>, <<0, 0, -(f + n) * dz, -2 * f * n * dz>>, <<0, 0, -D, 0>>>>)
-----------------------------------------------------------------------------
\* The four parts share no state; each behaviour works on one of them.

\* Building a transform: each operation acts before those already there.
Operate(operation) ==
    /\ Len(operations) < MAX_OPERATIONS /\ turns = <<>> /\ ~camera.moved /\ viewing.type = "none"
    /\ operations' = Append(operations, operation)
    /\ UNCHANGED <<instance, turns, viewing, camera>>

ByTranslation(t) ==
    /\ Operate([type |-> "translate", by |-> t])
    /\ transform' = translate(transform, t)
    /\ affine' = multiply_4x3(affine, SubSeq(make_translation_matrix4(t), 1, 3))
    /\ UNCHANGED linear

ByScale(v) ==
    /\ Operate([type |-> "scale", by |-> v])
    /\ transform' = scale(transform, v)
    /\ linear' = scale(linear, v)
    /\ affine' = multiply_4x3(affine, SubSeq(make_scale_matrix4(v), 1, 3))

ByRotation(q) ==
    LET r == make_rotation_matrix(q)
    IN /\ Operate([type |-> "rotate", by |-> q])
       /\ transform' = multiply_4_by_3(transform, r)
       /\ linear' = multiply(3, linear, r)
       /\ affine' = multiply_4x3(affine, SubSeq(make_matrix4(r), 1, 3))

\* Mesh_Instance::recompute_matrix.
InstanceMatrix(translation, rotation, size) ==
    multiply(4, multiply(4, make_translation_matrix4(translation),
                            make_matrix4(make_rotation_matrix(rotation))), make_scale_matrix4(size))

\* Mesh_Instance(model, translation, rotation, scale), the rotation an identity.
Placed(translation, size) ==
    [translation |-> translation, rotation |-> IDENTITY, scale |-> size,
     transform |-> InstanceMatrix(translation, IDENTITY, size)]

\* Mesh_Instance::rotate.
rotate(q) ==
    /\ Len(turns) < MAX_OPERATIONS /\ operations = <<>> /\ ~camera.moved /\ viewing.type = "none"
    /\ LET r == Product(q, instance.rotation)
       IN instance' = [instance EXCEPT !.rotation = r,
                           !.transform = InstanceMatrix(instance.translation, r, instance.scale)]
    /\ turns' = Append(turns, q)
    /\ UNCHANGED <<transform, linear, affine, operations, viewing, camera>>

\* Camera3D::recompute_matrix; both determinants are 1.
CameraMatrix(position, rotation) ==
    multiply(4, inverse4(make_matrix4(make_rotation_matrix(rotation))).result,
                inverse4(make_translation_matrix4(position)).result)

\* update_camera recomputes the matrix when something changed.
update_camera(position, rotation) ==
    /\ operations = <<>> /\ turns = <<>> /\ viewing.type = "none"
    /\ camera.position # position \/ camera.rotation # rotation
    /\ camera' = [position |-> position, rotation |-> rotation,
                  M_camera |-> CameraMatrix(position, rotation), moved |-> TRUE]
    /\ UNCHANGED <<transform, linear, affine, operations, instance, turns, viewing>>

\* Projection_Settings::recompute_matrix and the other projections.
project(v) ==
    /\ operations = <<>> /\ turns = <<>> /\ ~camera.moved /\ viewing.type = "none"
    /\ viewing' = [type |-> "volume", of |-> v, frustum |-> make_frustum_matrix(v),
                box |-> orthographic_projection_matrix(v),
                M_projection |-> make_projection_matrix(v.r, v.n, v.f, v.depth_range_01)]
    /\ UNCHANGED <<transform, linear, affine, operations, instance, turns, camera>>

LookAt(look) ==
    /\ operations = <<>> /\ turns = <<>> /\ ~camera.moved /\ viewing.type = "none"
    /\ viewing' = [type |-> "look", of |-> look,
                M |-> make_look_at_matrix(look[1], look[2], look[3], look[4])]
    /\ UNCHANGED <<transform, linear, affine, operations, instance, turns, camera>>

MatricesInit ==
    /\ transform = identity(4) /\ linear = identity(3) /\ affine = SubSeq(identity(4), 1, 3)
    /\ operations = <<>> /\ turns = <<>> /\ viewing = [type |-> "none"]
    /\ \E t \in Translations, v \in Scales : instance = Placed(t, v)
    /\ camera = [position |-> <<0, 0, 0>>, rotation |-> <<0, 0, 0, 0>>,
                 M_camera |-> CameraMatrix(<<0, 0, 0>>, <<0, 0, 0, 0>>), moved |-> FALSE]

MatricesNext ==
    \/ \E t \in Translations : ByTranslation(t)
    \/ \E v \in Scales : ByScale(v)
    \/ \E q \in Rotations : ByRotation(q) \/ rotate(q)
    \/ \E t \in Translations, q \in Rotations : update_camera(t, q)
    \/ \E v \in Views : project(v)
    \/ \E look \in Looks : LookAt(look)
-----------------------------------------------------------------------------
\* The three representations stay the same transform, whichever overloads of
\* multiply built them, and the mixed products of them agree.
FormsAgree ==
    operations # <<>> =>
    /\ make_matrix4(affine) = transform /\ make_matrix3(transform) = linear
    /\ LET square == multiply(4, transform, transform)
       IN /\ multiply_4_by_4x3(transform, affine) = square
          /\ multiply_4x3_by_4(affine, transform) = square
          /\ multiply_4_by_3(transform, linear) = multiply(4, transform, make_matrix4(linear))

\* What one operation does to a point, by the quaternion itself for a rotation
\* (q p q*, doubled twice).
Done(operation, p) ==
    LET q == operation.by
        c == cross(q, p)
    IN CASE operation.type = "translate" -> Plus(p, operation.by)
         [] operation.type = "scale" -> [i \in 1 .. 3 |-> p[i] * operation.by[i]]
         [] operation.type = "rotate" ->
                [i \in 1 .. 3 |-> p[i] + (q[4] * c[i] + cross(q, c)[i]) \div 2]

\* A point goes through the operations from the last one asked for to the first,
\* and a direction likewise but for the translations.
AppliesInOrder ==
    operations # <<>> => \A p \in Points :
        /\ transform_point(transform, p) = FoldRight(Done, operations, p)
        /\ apply(transform, as_point(p)) = as_point(transform_point(transform, p))
        /\ transform_vector(transform, p) =
               Minus(transform_point(transform, p), transform_point(transform, <<0, 0, 0>>))
        /\ apply(transform, as_vector(p)) = as_vector(transform_vector(transform, p))

\* The inverse undoes the transform (its result times det), of both sizes and
\* transposed, and an isometry's cheap inverse is its inverse.
InverseUndoes ==
    operations # <<>> =>
    LET i4 == inverse4(transform)  i3 == inverse3(linear)  t4 == inverse4(transpose(transform))
        Scaled(n, s) == Matrix(n, n, LAMBDA i, j : IF i = j THEN s ELSE 0)
    IN /\ multiply(4, i4.result, transform) = Scaled(4, i4.det)
       /\ multiply(3, i3.result, linear) = Scaled(3, i3.det)
       /\ t4.result = transpose(i4.result)
       /\ i4.det = i3.det /\ determinant(transform) = i4.det /\ t4.det = i4.det
       /\ (\A k \in DOMAIN operations : operations[k].type # "scale") =>
              multiply(4, isometry_inverse(transform), transform) = identity(4)

\* A mesh turned several times stays where it is and shows every turn, the
\* latest outermost.
MeshTurns ==
    turns # <<>> => instance.transform =
        multiply(4, make_translation_matrix4(instance.translation),
            FoldLeft(LAMBDA m, q : multiply(4, make_matrix4(make_rotation_matrix(q)), m),
                     make_scale_matrix4(instance.scale), turns))

\* Wherever it is moved, the camera is at the origin of its own view, and a thing
\* placed and turned like the camera is seen unturned.
CameraAtItsOrigin ==
    camera.moved =>
        /\ apply(camera.M_camera, as_point(camera.position)) = <<0, 0, 0, 1>>
        /\ multiply(4, camera.M_camera, InstanceMatrix(camera.position, camera.rotation, <<1, 1, 1>>)) = identity(4)

\* A projection maps the corners of its volume to those of the clip cube, which
\* draw_triangles_3D cuts at.
ProjectionFillsCube ==
    viewing.type = "volume" =>
        LET v == viewing.of
            Clip(far, low) == IF far THEN 1 ELSE IF low THEN 0 ELSE -1
            \* In homogeneous coordinates the result is w times the corner.
            Hits(m, p, x, y, z) == LET h == apply(m, p) IN h = <<x * h[4], y * h[4], z * h[4], h[4]>> /\ h[4] > 0
        IN \A right, top, far \in BOOLEAN :
            LET x == Clip(right, FALSE)  y == Clip(top, FALSE)  z == Clip(far, v.depth_range_01)
                ex == IF right THEN v.r ELSE v.l
                ey == IF top THEN v.t ELSE v.b
                d == IF far THEN v.f ELSE v.n
                \* The right angle's volume: as high as it is far away.
                Side(positive, side) == IF positive THEN side ELSE -side
            IN /\ Hits(viewing.box, <<ex, ey, -d, 1>>, x, y, z)
               /\ Hits(viewing.frustum, <<ex * d, ey * d, -v.n * d, v.n>>, x, y, z)
               /\ Hits(viewing.M_projection, <<Side(right, v.r * d), Side(top, d), -d, 1>>, x, y, z)

\* Looking at a target puts the viewer at the origin and the target straight
\* ahead, and neither bends nor mirrors what is seen.
LooksAhead ==
    viewing.type = "look" =>
        LET x_is_forward == viewing.of[1]  from == viewing.of[2]  to == viewing.of[3]
            seen == transform_point(viewing.M, to)
        IN /\ transform_point(viewing.M, from) = <<0, 0, 0>>
           /\ IF x_is_forward THEN seen[1] > 0 /\ seen[2] = 0 /\ seen[3] = 0
              ELSE seen[1] = 0 /\ seen[2] = 0 /\ seen[3] < 0
           /\ multiply(4, isometry_inverse(viewing.M), viewing.M) = identity(4) /\ determinant(viewing.M) = 1
           \* Up is up.
           /\ transform_vector(viewing.M, viewing.of[4])[IF x_is_forward THEN 3 ELSE 2] > 0

\* The invariant of the transforms: each is what its operations make of a point, in
\* every representation, and the camera and the projections see what they should.
TransformsSound ==
    /\ FormsAgree
    /\ AppliesInOrder
    /\ InverseUndoes
    /\ MeshTurns
    /\ CameraAtItsOrigin
    /\ ProjectionFillsCube
    /\ LooksAhead
=============================================================================
