------------------------------ MODULE Control -------------------------------
(***************************************************************************)
(* Which part of the monitor the reader sees (server/control.c and the     *)
(* first half of get_screenshot_data in server/main.c): a context with a   *)
(* frame and a scale for each window, changed by the shortcuts and, before *)
(* every screenshot, by track_focused_window.  Readers of different sizes  *)
(* follow one another and the contexts survive them.                       *)
(*                                                                         *)
(* Every action is a stretch of code under control_lock, except the two    *)
(* assignments for a new reader, which take none: a shortcut may come      *)
(* between them.  A scale is a quotient <<n, d>> instead of a double.      *)
(* Labels, inverted colours and the cursor are left out.                   *)
(***************************************************************************)
EXTENDS Integers, Sequences

CONSTANTS
    screen_width, screen_height,
    Readers,            \* sizes <<width, height>> of readers
    Windows, Root,      \* the windows of the display, the root window
    Geometries,         \* places a window may be put
    windows_scale, desktop_scale, scale_factor, move_step,
    MIN_SCALE, MAX_SCALE,
    MaxPresses,         \* keys pressed between two frames
    MaxSide,            \* sides of a window
    None

Positive == Nat \ {0}
Quotient == Positive \X Positive
Geometry == [left : Int, top : Int, width : Positive, height : Positive]
Place    == [left : Int, top : Int, width : Nat, height : Nat]
WindowContext ==
    [left : Int, top : Int, width : Nat, height : Nat, scale : Quotient]

Screen   == [left |-> 0, top |-> 0,
             width |-> screen_width, height |-> screen_height]

ASSUME SizesAssumption ==
    /\ screen_width \in Positive /\ screen_height \in Positive
    /\ Readers \subseteq Positive \X Positive
    /\ Geometries \subseteq Geometry
ASSUME WindowsAssumption ==
    /\ Root \in Windows
    /\ None \notin Windows \cup Place \cup WindowContext \cup Positive
ASSUME ScalesAssumption ==
    /\ {windows_scale, desktop_scale, scale_factor, MIN_SCALE, MAX_SCALE}
          \subseteq Quotient
    /\ scale_factor[1] >= scale_factor[2]
    /\ \A s \in {windows_scale, desktop_scale} :
          MIN_SCALE[1] * s[2] <= s[1] * MIN_SCALE[2]
          /\ s[1] * MAX_SCALE[2] <= MAX_SCALE[1] * s[2]
    /\ {move_step, MaxPresses, MaxSide} \subseteq Nat

VARIABLES
    client,     \* client_width, client_height
    incoming,   \* the height of a new reader still to be assigned, or None
    tracking,   \* window_tracking_enabled
    contexts,   \* contexts_list: the context of a window, or None
    active,     \* the window of active_context, or None
    geometry,   \* window_left, window_top, window_width, window_height
    where,      \* the display: where its windows are, None if destroyed
    presses     \* keys pressed since the last screenshot

control == <<client, incoming, tracking, contexts, active, geometry>>
vars    == <<control, where, presses>>

-----------------------------------------------------------------------------
(* Arithmetic of the code.                                                 *)

Least(a, b)    == IF a < b THEN a ELSE b
Greatest(a, b) == IF a > b THEN a ELSE b

\* x / 2 of C rounds towards zero.
Half(x) == IF x >= 0 THEN x \div 2 ELSE -((-x) \div 2)

\* round(side / scale), away from zero between two integers.
Scaled(side, scale) ==
    (2 * side * scale[2] + scale[1]) \div (2 * scale[1])

\* A reader sends the size of its own screen (client/main.c:104-108), which is
\* more than a pixel at every scale; client_handshake does not check it.
ASSUME ReadersAssumption ==
    \A r \in Readers : Scaled(r[1], MAX_SCALE) > 0 /\ Scaled(r[2], MAX_SCALE) > 0

\* The quotient n/d in lower terms, if it has such.
Lowest(n, d) == CHOOSE q \in (1 .. n) \X (1 .. d) : q[1] * d = n * q[2]
Times(p, q)  == Lowest(p[1] * q[1], p[2] * q[2])
Over(p, q)   == Lowest(p[1] * q[2], p[2] * q[1])

AtMost(p, q) == p[1] * q[2] <= q[1] * p[2]

-----------------------------------------------------------------------------
apply_scale(c, scale) ==
    [c EXCEPT !.width  = Scaled(client[1], scale),
              !.height = Scaled(client[2], scale)]

\* Mutant of normalize_coord: what does not fit is moved, not placed.
normalize_coord_moves(coord, frame_side, screen_side) ==
    IF frame_side > screen_side
    THEN coord - ((frame_side - screen_side) \div 2)
    ELSE Least(Greatest(coord, 0), screen_side - frame_side)

\* Mutant of normalize_coord: the far edge of the screen is no limit.
normalize_coord_near(coord, frame_side, screen_side) ==
    IF frame_side > screen_side
    THEN -((frame_side - screen_side) \div 2)
    ELSE Greatest(coord, 0)

normalize_coord(coord, frame_side, screen_side) ==
    IF frame_side > screen_side
    THEN -((frame_side - screen_side) \div 2)
    ELSE Least(Greatest(coord, 0), screen_side - frame_side)

\* The scale at which the frame covers the screen in one direction and does
\* not fall short of it in the other.
critical_scale ==
    IF AtMost(<<client[1], screen_width>>, <<client[2], screen_height>>)
    THEN <<client[1], screen_width>> ELSE <<client[2], screen_height>>

\* control_update_frame
update_frame(c) ==
    LET plain == apply_scale(c, c.scale)
        fit   == IF plain.width > screen_width /\ plain.height > screen_height
                 THEN apply_scale(c, critical_scale) ELSE plain
    IN  [fit EXCEPT !.left = normalize_coord(@, fit.width, screen_width),
                    !.top  = normalize_coord(@, fit.height, screen_height)]

reset_coord(frame_side, window_pos, window_side) ==
    IF window_side >= frame_side
    THEN window_pos ELSE window_pos - (frame_side - window_side) \div 2

reset_position(c, g) ==
    [c EXCEPT !.left = reset_coord(c.width, g.left, g.width),
              !.top  = reset_coord(c.height, g.top, g.height)]

reset_scale(c) ==
    [c EXCEPT !.scale = IF tracking THEN windows_scale ELSE desktop_scale]

\* A context as malloc gives it; everything in it is assigned before use.
Allocated == [left |-> 0, top |-> 0, width |-> 0, height |-> 0,
              scale |-> desktop_scale]

\* control_context_select for a window at a place.  If there is no such
\* window it takes the root window, with the geometry of the one before.
Selected(window, place) == IF place = None THEN Root ELSE window
Placed(place)           == IF place = None THEN geometry ELSE place
\* Mutant of Select: the new context is not added to the list.
SelectUnlisted(cs, w, g) == cs

Select(cs, w, g) ==
    IF cs[w] # None THEN cs
    ELSE [cs EXCEPT ![w] =
             reset_position(update_frame(reset_scale(Allocated)), g)]

-----------------------------------------------------------------------------
Init ==
    /\ client \in Readers /\ incoming = None
    /\ tracking \in BOOLEAN
    /\ contexts = [w \in Windows |-> None] /\ active = None
    /\ geometry = [left |-> 0, top |-> 0, width |-> 0, height |-> 0]
    /\ \E places \in [Windows -> Geometries] :
          where = [places EXCEPT ![Root] = Screen]
    /\ presses = 0

\* control_client_dimensions_set, after the handshake and without
\* control_lock: first the width ...
NewReader ==
    /\ incoming = None
    /\ \E r \in Readers :
          client' = <<r[1], client[2]>> /\ incoming' = r[2]
    /\ UNCHANGED <<tracking, contexts, active, geometry, where, presses>>

\* ... and then the height.
NewHeight ==
    /\ incoming # None /\ incoming' = None
    /\ client' = <<client[1], incoming>>
    /\ UNCHANGED <<tracking, contexts, active, geometry, where, presses>>

\* get_screenshot_data up to the screenshot, but for the cursor; focus is the
\* window that has the focus.
Screenshot ==
    /\ incoming = None
    /\ \E focus \in Windows :
       LET old    == IF active = None THEN contexts
                     ELSE [contexts EXCEPT ![active] = update_frame(@)]
           window == IF tracking THEN focus ELSE Root
           w      == Selected(window, where[window])
           g      == Placed(where[window])
       IN  /\ active' = w /\ geometry' = g
           /\ contexts' = Select(old, w, g)
    /\ presses' = 0
    /\ UNCHANGED <<client, incoming, tracking, where>>

\* screen_shot captures what of the frame is on the screen.
Captured(first, side, limit) == Least(first + side, limit) - Greatest(first, 0)

-----------------------------------------------------------------------------
(* Shortcuts.                                                              *)

Context == contexts[active]

\* A shortcut does nothing before the first screenshot.
Pressed ==
    /\ active # None /\ presses < MaxPresses
    /\ presses' = presses + 1
    /\ UNCHANGED <<client, incoming>>

\* The shortcuts that change the active context and nothing else.
Changes(c) ==
    /\ Pressed /\ contexts' = [contexts EXCEPT ![active] = c]
    /\ UNCHANGED <<tracking, active, geometry, where>>

ResetPosition == Changes(reset_position(Context, geometry))
MoveUp        == Changes([Context EXCEPT !.top  = @ - move_step])
MoveDown      == Changes([Context EXCEPT !.top  = @ + move_step])
MoveLeft      == Changes([Context EXCEPT !.left = @ - move_step])
MoveRight     == Changes([Context EXCEPT !.left = @ + move_step])
ResetScale    == Changes(reset_scale(Context))

\* Mutant of Zoomed: the scale is assigned before the sizes are compared.
ZoomedLate(scale) == [Context EXCEPT !.scale = scale]

\* center_zoomed_position
Zoomed(scale) ==
    [Context EXCEPT !.scale = scale,
                    !.left  = @ + Half(Scaled(client[1], Context.scale)
                                       - Scaled(client[1], scale)),
                    !.top   = @ + Half(Scaled(client[2], Context.scale)
                                       - Scaled(client[2], scale))]

\* Mutant of ZoomIn: no upper bound.
ZoomInUnbounded ==
    Changes(Zoomed(Times(Context.scale, scale_factor)))

ZoomIn ==
    LET scale == Times(Context.scale, scale_factor) IN
    Changes(IF AtMost(scale, MAX_SCALE) THEN Zoomed(scale) ELSE Context)

ZoomOut ==
    LET scale == Over(Context.scale, scale_factor) IN
    Changes(IF /\ \/ Scaled(client[1], Context.scale) < screen_width
                  \/ Scaled(client[2], Context.scale) < screen_height
               /\ AtMost(MIN_SCALE, scale)
            THEN Zoomed(scale) ELSE Context)

ToggleWindowTracking ==
    /\ Pressed /\ tracking' = ~tracking
    /\ UNCHANGED <<contexts, active, geometry, where>>

\* What screen_window_resize makes of the windows: the window grows by what
\* it lacks to the size of the frame.  For the root window it finds some other
\* window to resize, by as much as the root window would have to change.
Grown(g, width, height) ==
    [g EXCEPT !.width = @ + width, !.height = @ + height]
Resized ==
    {[where EXCEPT ![w] = Grown(@, Context.width - where[active].width,
                                   Context.height - where[active].height)] :
        w \in {w \in Windows \ {Root} :
                  where[w] # None /\ active \in {w, Root}}}
Possible(places) ==
    \A w \in Windows : places[w] # None =>
        places[w].width \in 1 .. MaxSide /\ places[w].height \in 1 .. MaxSide

\* The resize, a new look at the window, and the frame goes there.
AdjustWindowSize ==
    /\ Pressed
    /\ where' \in {where} \cup IF where[active] = None THEN {}
                               ELSE {places \in Resized : Possible(places)}
    /\ LET w == Selected(active, where'[active])
           g == Placed(where'[active])
       IN  /\ geometry' = g /\ active' = w
           /\ contexts' = [Select(contexts, w, g) EXCEPT
                              ![w] = reset_position(@, g)]
    /\ UNCHANGED tracking

Shortcut ==
    \/ ResetPosition \/ MoveUp \/ MoveDown \/ MoveLeft \/ MoveRight
    \/ ResetScale \/ ZoomIn \/ ZoomOut \/ ToggleWindowTracking
    \/ AdjustWindowSize

-----------------------------------------------------------------------------
(* The display.                                                            *)

MoveWindow ==
    /\ \E w \in Windows \ {Root}, g \in Geometries \cup {None} :
          where[w] # None /\ where' = [where EXCEPT ![w] = g]
    /\ UNCHANGED <<control, presses>>

-----------------------------------------------------------------------------
Next == NewReader \/ NewHeight \/ Screenshot \/ Shortcut \/ MoveWindow

Spec == Init /\ [][Next]_vars

-----------------------------------------------------------------------------
TypeOK ==
    /\ client \in Positive \X Positive /\ incoming \in Positive \cup {None}
    /\ IF incoming = None THEN client \in Readers
       ELSE <<client[1], incoming>> \in Readers
    /\ tracking \in BOOLEAN
    /\ contexts \in [Windows -> WindowContext \cup {None}]
    /\ active \in Windows \cup {None}
    /\ active # None => contexts[active] # None
    /\ geometry \in Place
    /\ where \in [Windows -> Geometry \cup {None}] /\ where[Root] # None
    /\ presses \in 0 .. MaxPresses

\* A frame stays on the screen as far as it fits; what does not fit is shared
\* between two borders, in one direction at most.
Inside(first, side, limit) ==
    IF side <= limit THEN first >= 0 /\ first + side <= limit
    ELSE first <= 0 /\ first + side >= limit
Fits(c) ==
    /\ Inside(c.left, c.width, screen_width)
    /\ Inside(c.top, c.height, screen_height)
    /\ c.width <= screen_width \/ c.height <= screen_height

\* A screenshot of the window that was active before; only the first of
\* another window uses the frame as it was left.
Again == Screenshot /\ active' = active
Frame == contexts'[active]

\* What is captured of a side is as much as the frame or the screen allows,
\* and something.
Shown(first, side, limit) ==
    Captured(first, side, limit) > 0
        /\ Captured(first, side, limit) = Least(side, limit)

\* Whatever keys were pressed, between the assignments of its size too, and
\* whoever the reader is, the frame captured fits, so that what is captured of
\* it is as large as the frame or the screen allows, and never empty (the X
\* server refuses to capture nothing, and the session would end;
\* screen.c:147-156).
FrameFits ==
    [][Again =>
          /\ Fits(Frame)
          /\ Shown(Frame.left, Frame.width, screen_width)
          /\ Shown(Frame.top, Frame.height, screen_height)]_vars

\* A frame does not creep: where a screenshot has put it, the next one leaves
\* it.  So a context made for a reader of another size, or the frame of a
\* window before it was normalized, is used for one screenshot at most.
Settles == [][Again => update_frame(Frame) = Frame]_vars

\* No sequence of keys leaves the range of the scales.
ScaleInRange ==
    \A w \in Windows : contexts[w] # None =>
        /\ AtMost(MIN_SCALE, contexts[w].scale)
        /\ AtMost(contexts[w].scale, MAX_SCALE)

\* The middle of a frame that its scale, and not the size of the screen,
\* determines stays where it is when its scale changes, but for a rounding.
Plain(c) == c = apply_scale(c, c.scale)
Twice(c) == <<2 * c.left + c.width, 2 * c.top + c.height>>
ZoomCentres ==
    [][ZoomIn \/ ZoomOut =>
          LET c == apply_scale(Context', Context'.scale) IN
          Plain(Context) =>
              \A i \in 1 .. 2 : Twice(c)[i] - Twice(Context)[i] \in -1 .. 1]_vars

=============================================================================
