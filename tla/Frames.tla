------------------------------- MODULE Frames -------------------------------
(***************************************************************************)
(* gameos/gfx.hh: from the requests of a frame to the screen.  Requests    *)
(* are queued in the current one of two frame slots; draw_frame paints     *)
(* them into its back buffer, 3D, then 2D, then UI, copies it to the front *)
(* buffer and turns to the other slot, which it cleans.                    *)
(*                                                                         *)
(* A request paints up to two layers, its shape and the text in it.  A     *)
(* pixel is the sequence of the layers blended into it since it was last   *)
(* covered by an opaque one.  What pixels a shape has is in Raster.        *)
(***************************************************************************)
EXTENDS Integers, Sequences, FiniteSets, SequencesExt

CONSTANTS
    Pixels,
    FRAME_OVERLAP, FRAME_NUMBERS,   \* frame slots; values of the u8 frame_number
    DEPTH_FAR, DEPTH_3D_MAX,
    Requests,                       \* what is asked for: [op, at, opaque, depth, z, text, glyphs]
    MAX_REQUESTS, MAX_FRAMES

ASSUME FramesAssumption ==
    /\ FRAME_OVERLAP \in Nat \ {0} /\ FRAME_NUMBERS % FRAME_OVERLAP = 0
    /\ DEPTH_3D_MAX < DEPTH_FAR
    /\ \A r \in Requests : r.op \in {"3D", "wireframe"} \/ r.depth \in 0 .. DEPTH_FAR

VARIABLES
    frames,         \* Frame_Data of each slot
    frame_number,
    front_buffer,
    framebuffer_initialized,
    asked,          \* all requests so far, each with the frame it is for
    shown           \* the number of frames drawn

frameVars == <<frames, frame_number, front_buffer, framebuffer_initialized, asked, shown>>

Blank == [p \in Pixels |-> <<>>]
Clean == [back_buffer |-> Blank, depth_buffer |-> [p \in Pixels |-> DEPTH_FAR], arena |-> {},
          draw_commands_2d |-> <<>>, draw_commands_ui |-> <<>>, draw_commands_3d |-> <<>>]

Slot(number) == number % FRAME_OVERLAP
current_frame == frames[Slot(frame_number)]

\* A request is known by its place in asked; a text that is no longer there is GARBAGE.
Asked(id) == asked[id]
Stroke(id, part) == [id |-> id, part |-> part]
GARBAGE == Stroke(0, "garbage")
-----------------------------------------------------------------------------
\* blend_onto: an opaque colour replaces what is there.
blend_onto(pixel, layer, opaque) == IF opaque THEN <<layer>> ELSE Append(pixel, layer)

\* quantize_depth of z in -1 .. 1, clamped; never DEPTH_FAR.
quantize_depth(z) == ((IF z < -1 THEN 0 ELSE IF z > 1 THEN 2 ELSE z + 1) * DEPTH_3D_MAX) \div 2

\* The depth set_pixel leaves in the buffer.
DepthAfter(old, depth, write_depth) == IF depth # DEPTH_FAR /\ write_depth THEN depth ELSE old

\* set_pixel of the pixels of one layer: what is not nearer is left out, and a text that
\* is no longer in the arena is not what was asked for.
SetPixels(frame, layer, at, opaque, depth, write_depth) ==
    LET visible == {p \in at : depth = DEPTH_FAR \/ depth < frame.depth_buffer[p]}
        lost == layer.part = "text" /\ Asked(layer.id).text = "copied" /\ layer.id \notin frame.arena
        ink == IF lost THEN GARBAGE ELSE layer
    IN [frame EXCEPT
           !.back_buffer = [p \in Pixels |-> IF p \in visible THEN blend_onto(@[p], ink, opaque) ELSE @[p]],
           !.depth_buffer = [p \in Pixels |-> IF p \in visible THEN DepthAfter(@[p], depth, write_depth) ELSE @[p]]]

\* draw_3D: of a mesh only opaque pixels write their depth, of a wireframe all.
draw_3D(frame) ==
    LET Draw(f, id) ==
            LET r == Asked(id)
            IN SetPixels(f, Stroke(id, "shape"), r.at, r.opaque, quantize_depth(r.depth),
                         r.opaque \/ r.op = "wireframe")
    IN [FoldLeft(Draw, frame, frame.draw_commands_3d) EXCEPT !.draw_commands_3d = <<>>]

draw_2D(frame) ==
    LET Draw(f, id) ==
            LET r == Asked(id)
            IN SetPixels(f, Stroke(id, IF r.text = "none" THEN "shape" ELSE "text"), r.at, r.opaque, r.depth, TRUE)
    IN [FoldLeft(Draw, frame, frame.draw_commands_2d) EXCEPT !.draw_commands_2d = <<>>]

\* The order of draw_ui without its sort, and with it: by z, stable.
InOrder_Unsorted(commands) == commands
InOrder(commands) ==
    FlattenSeq([z \in 1 .. 1 + (CHOOSE m \in {Asked(commands[i]).z : i \in DOMAIN commands} \cup {0} :
                                    \A i \in DOMAIN commands : Asked(commands[i]).z <= m) |->
                    SelectSeq(commands, LAMBDA id : Asked(id).z = z - 1)])

\* draw_ui: the box at the depth of the request, the white glyphs in it at DEPTH_FAR.
draw_ui(frame) ==
    LET Draw(f, id) ==
            LET r == Asked(id)
                box == SetPixels(f, Stroke(id, "shape"), r.at, r.opaque, r.depth, TRUE)
            IN IF r.text = "none" THEN box ELSE SetPixels(box, Stroke(id, "text"), r.glyphs, TRUE, DEPTH_FAR, TRUE)
    IN [FoldLeft(Draw, frame, InOrder(frame.draw_commands_ui)) EXCEPT !.draw_commands_ui = <<>>]

\* The painting of a frame.
Painted(frame) == draw_ui(draw_2D(draw_3D(frame)))

\* What swap_buffers and draw_frame leave of the slot they turn to.
Turned(frame) == [frame EXCEPT !.back_buffer = Blank, !.depth_buffer = Clean.depth_buffer, !.arena = {}]
-----------------------------------------------------------------------------
Ready == framebuffer_initialized /\ Len(asked) < MAX_REQUESTS
Ask(r) == asked' = Append(asked, r @@ [frame |-> shown])
Id == Len(asked) + 1

\* The queueing half of draw_char, draw_text, draw_circle and the other 2D
\* operations; draw_text copies its text into the frame's arena.
Copied(frame, r) == IF r.text = "copied" THEN [frame EXCEPT !.arena = @ \cup {Id}] ELSE frame

Queue(r, frame) ==
    /\ Ready /\ Ask(r)
    /\ frames' = [frames EXCEPT ![Slot(frame_number)] = Copied(frame, r)]
    /\ UNCHANGED <<frame_number, front_buffer, framebuffer_initialized, shown>>

Queue2D(r) ==
    r.op = "2D" /\ Queue(r, [current_frame EXCEPT !.draw_commands_2d = Append(@, Id)])

\* draw_nine_patch, draw_nine_patch_text and draw_nine_patch_static_text.
QueueUI(r) ==
    r.op = "UI" /\ Queue(r, [current_frame EXCEPT !.draw_commands_ui = Append(@, Id)])

\* draw_mesh, draw_plane and draw_wireframe.
Queue3D(r) ==
    r.op \in {"3D", "wireframe"} /\ Queue(r, [current_frame EXCEPT !.draw_commands_3d = Append(@, Id)])

\* draw_char_immediate writes to both buffers, before what is queued.
draw_char_immediate(r) ==
    LET Written(buffer) == [p \in Pixels |-> IF p \in r.at THEN blend_onto(buffer[p], Stroke(Id, "shape"), r.opaque) ELSE buffer[p]]
    IN /\ r.op = "immediate" /\ Ready /\ Ask(r)
       /\ front_buffer' = Written(front_buffer)
       /\ frames' = [frames EXCEPT ![Slot(frame_number)].back_buffer = Written(@)]
       /\ UNCHANGED <<frame_number, framebuffer_initialized, shown>>

clear(r) ==
    /\ r.op = "clear" /\ Ready /\ Ask(r)
    /\ frames' = [frames EXCEPT ![Slot(frame_number)] =
                      [@ EXCEPT !.back_buffer = [p \in Pixels |-> blend_onto(@[p], Stroke(Id, "shape"), r.opaque)],
                                !.depth_buffer = Clean.depth_buffer]]
    /\ UNCHANGED <<frame_number, front_buffer, framebuffer_initialized, shown>>

draw_frame ==
    LET slot == Slot(frame_number)
        painted == Painted(frames[slot])
        number == (frame_number + 1) % FRAME_NUMBERS
    IN /\ framebuffer_initialized /\ shown < MAX_FRAMES
       /\ front_buffer' = painted.back_buffer
       /\ frame_number' = number
       /\ frames' = [frames EXCEPT ![slot] = painted, ![Slot(number)] = Turned(@)]
       /\ shown' = shown + 1
       /\ UNCHANGED <<framebuffer_initialized, asked>>

\* initialize; a second call changes nothing.
initialize ==
    /\ ~framebuffer_initialized
    /\ framebuffer_initialized' = TRUE
    /\ frames' = [s \in DOMAIN frames |-> [frames[s] EXCEPT !.back_buffer = Blank, !.depth_buffer = Clean.depth_buffer, !.arena = {}]]
    /\ front_buffer' = Blank
    /\ UNCHANGED <<frame_number, asked, shown>>

FramesInit ==
    /\ frames = [s \in 0 .. FRAME_OVERLAP - 1 |-> [Clean EXCEPT !.depth_buffer = [p \in Pixels |-> 0]]]
    /\ frame_number = 0 /\ front_buffer = Blank /\ framebuffer_initialized = FALSE
    /\ asked = <<>> /\ shown = 0

FramesNext ==
    \/ initialize
    \/ draw_frame
    \/ \E r \in Requests : Queue2D(r) \/ QueueUI(r) \/ Queue3D(r) \/ draw_char_immediate(r) \/ clear(r)
-----------------------------------------------------------------------------
\* The frame on the screen, and its requests.
Last_ == shown - 1
OnScreenNow == {i \in DOMAIN asked : asked[i].frame = Last_}
Waiting == {i \in DOMAIN asked : asked[i].frame = shown}

\* A frame starts clean: whatever the slot was used for before, the frame that is
\* being asked for holds its own requests and nothing else, and their texts.
FramesTypeOK ==
    framebuffer_initialized =>
        LET f == current_frame
            Of(ops) == SelectSeq([i \in DOMAIN asked |-> i], LAMBDA i : i \in Waiting /\ asked[i].op \in ops)
        IN /\ f.draw_commands_2d = Of({"2D"}) /\ f.draw_commands_ui = Of({"UI"})
           /\ f.draw_commands_3d = Of({"3D", "wireframe"})
           /\ f.arena = {i \in Waiting : asked[i].text = "copied"}
           /\ \A p \in Pixels : f.depth_buffer[p] = DEPTH_FAR
           /\ \A p \in Pixels : \A layer \in Range(f.back_buffer[p]) :
                 layer.id \in Waiting /\ asked[layer.id].op \in {"immediate", "clear"}

\* What is immediate or a clear is painted first, then 3D, 2D and UI.
PassOf(i) == CASE asked[i].op \in {"immediate", "clear"} -> 0 [] asked[i].op \in {"3D", "wireframe"} -> 1
              [] asked[i].op = "2D" -> 2 [] asked[i].op = "UI" -> 3

\* Is a layer painted after another?
After(b, a) ==
    LET i == a.id  j == b.id
    IN \/ PassOf(j) > PassOf(i)
       \/ /\ PassOf(j) = PassOf(i) /\ j # i
          /\ IF PassOf(i) = 3 /\ asked[i].z # asked[j].z THEN asked[j].z > asked[i].z ELSE j > i
       \/ j = i /\ a.part = "shape" /\ b.part = "text"

\* The layers that some requests have at a pixel, how deep they lie and whether they
\* cover what is below and leave their depth.
LayersAt(p, requests) ==
    LET IsText(i) == asked[i].op = "2D" /\ asked[i].text # "none"
    IN {Stroke(i, "shape") : i \in {i \in requests : p \in asked[i].at /\ ~IsText(i)}}
       \cup {Stroke(i, "text") : i \in {i \in requests : p \in asked[i].at /\ IsText(i)}}
       \cup {Stroke(i, "text") : i \in {i \in requests :
                asked[i].op = "UI" /\ asked[i].text # "none" /\ p \in asked[i].glyphs}}
InBox(a) == asked[a.id].op = "UI" /\ a.part = "text"
DepthOf(a) ==
    CASE asked[a.id].op \in {"3D", "wireframe"} -> quantize_depth(asked[a.id].depth)
      [] InBox(a) \/ asked[a.id].op \in {"immediate", "clear"} -> DEPTH_FAR
      [] OTHER -> asked[a.id].depth
Covers(a) == InBox(a) \/ asked[a.id].opaque
LeavesDepth(a) == DepthOf(a) # DEPTH_FAR /\ (asked[a.id].op = "3D" => Covers(a))

\* Each pixel on the screen is that of the last frame's requests, in their order
\* and by their layers, the texts as they were given, and what was written to it
\* since; a layer without a depth is on it unless an opaque one covers it.
ScreenShowsFrame ==
    \A p \in Pixels :
        LET pixel == front_buffer[p]
            painted == SelectSeq(pixel, LAMBDA a : a.id \in OnScreenNow)
            Immediate == {i \in Waiting : asked[i].op = "immediate"}
        IN /\ Range(pixel) \subseteq LayersAt(p, OnScreenNow \cup Immediate)
           /\ \A j, k \in DOMAIN painted : j < k => After(painted[k], painted[j])
           /\ \A a \in LayersAt(p, OnScreenNow) :
                DepthOf(a) = DEPTH_FAR =>
                    \/ a \in Range(pixel)
                    \/ \E b \in Range(pixel) : Covers(b) /\ (b.id \in Waiting \/ After(b, a))

\* What is painted after a layer that left its depth is nearer than it.  And nothing
\* shows with an opaque layer of its frame in front of it, in whatever order the two
\* were painted, unless that layer was itself hidden by a nearer translucent one that
\* left its depth, as wireframes and 2D shapes do.
NearestWins ==
    \A p \in Pixels :
        LET layers == LayersAt(p, OnScreenNow)
        IN \A a \in layers \cap Range(front_buffer[p]), b \in layers :
              DepthOf(a) # DEPTH_FAR /\ LeavesDepth(b) =>
                 /\ After(a, b) => DepthOf(a) < DepthOf(b)
                 /\ Covers(b) /\ DepthOf(b) < DepthOf(a) =>
                       \E c \in layers : LeavesDepth(c) /\ ~Covers(c) /\ DepthOf(c) <= DepthOf(b) /\ After(b, c)

\* The invariant of the frames: a frame starts clean, shows what was asked of it in
\* its order, and keeps the nearest in front.
FramesSound ==
    /\ FramesTypeOK
    /\ ScreenShowsFrame
    /\ NearestWins
=============================================================================
