--------------------------- MODULE ViewConfigure ---------------------------
(***************************************************************************)
(* The window of an xdg toplevel: what the compositor wants of it, what it *)
(* told the client, and what the client has drawn (view/view.c,            *)
(* view/xdg_shell.c, the resize grab of view/interactive.c).               *)
(*                                                                         *)
(* Moving a window is immediate; a change of its size is a configure event *)
(* that the client acknowledges and answers with a commit, later or never. *)
(* Until then, or until a timeout, the change is pending and the window    *)
(* has its old size.                                                       *)
(*                                                                         *)
(* Geometry has one dimension, a position x and a width w: the vertical    *)
(* one is treated in the same way.  There is one output.                   *)
(***************************************************************************)
EXTENDS Integers, Sequences, FiniteSets

CONSTANTS
  Width,      \* of the output
  Widths,     \* of windows that are neither maximized, tiled nor fullscreen
  Places,     \* where the user and the positioner put them
  Tiles,      \* KYWC_TILE_NONE and the halves of the output
  MaxRequests \* bound on what the user and the client ask for

ASSUME ViewAssumption ==
  /\ Width \in Nat /\ MaxRequests \in Nat
  /\ Widths \subseteq 1..(Width - 1) /\ Widths # {}
  /\ Places \subseteq 0..Width /\ Places # {}
  /\ "none" \in Tiles /\ Tiles \subseteq {"none", "left", "right"}

VARIABLES
  v,        \* struct view and the scheduled state of its wlr_xdg_toplevel
  sent,     \* configure events the client has not acknowledged
  acked,    \* the last one it acknowledged
  current,  \* serial of the last commit (surface->current.configure_serial)
  grab,     \* the resize grab of the pointer
  odd,      \* history: "resize", one overlapped a maximized or fullscreen
            \* state; "remap", the window was mapped before
  asked     \* number of requests so far

vars == <<v, sent, acked, current, grab, odd, asked>>

SizeActions == {"resize", "tile", "maximize", "fullscreen"}

Box(x, w) == [x |-> x, w |-> w]

NoBox == Box(0, 0)

Full == Box(0, Width)

NoConf == [serial |-> 0, action |-> {}, geo |-> NoBox, timer |-> FALSE]

NoGrab == [edge |-> "none", geo |-> NoBox, moved |-> FALSE, clean |-> FALSE]

Event(serial, told) == [serial |-> serial, told |-> told]

(* The toplevel is new (handle_new_xdg_surface), or mapped and at rest. *)
Init ==
  \E geo \in {NoBox} \cup [x : Places, w : Widths] :
    LET told == [w |-> geo.w, max |-> FALSE, full |-> FALSE, tile |-> FALSE]
    IN /\ v = [geo |-> geo, saved |-> NoBox,
               state |-> IF geo = NoBox THEN "unmapped" ELSE "mapped",
               max |-> FALSE, full |-> FALSE, tile |-> "none",
               action |-> {}, want |-> NoBox, conf |-> NoConf,
               told |-> told, idle |-> 0, serial |-> 0]
       /\ sent = <<>> /\ acked = Event(0, told) /\ current = 0
       /\ grab = NoGrab /\ odd = {} /\ asked = 0

(* A request to a mapped window. *)
Request == v.state = "mapped" /\ asked < MaxRequests /\ asked' = asked + 1

(* A resize that overlaps another change of the window's state. *)
Overlaps(b) == odd' = odd \cup (IF b THEN {"resize"} ELSE {})

(* current_resize_edges, set by the motion of a grab. *)
LeftEdge == grab.edge = "left" /\ grab.moved
-----------------------------------------------------------------------------
(* Telling the client.                                                     *)

(* wlr_xdg_surface_schedule_configure: one event per turn of the loop. *)
Scheduled(s) ==
  IF s.idle # 0 THEN s ELSE [s EXCEPT !.idle = s.serial + 1, !.serial = @ + 1]

(* surface_send_configure. *)
SendConfigure ==
  /\ v.idle # 0
  /\ sent' = Append(sent, Event(v.idle, v.told))
  /\ v' = [v EXCEPT !.idle = 0]
  /\ UNCHANGED <<acked, current, grab, odd, asked>>

(* view_helper_move. *)
MovedTo(s, x) == [s EXCEPT !.geo.x = x]

(* Mutant: the action stays pending. *)
Waiting_Again(s) ==
  [s EXCEPT !.conf = [serial |-> s.idle, action |-> @.action \cup s.action,
                      geo |-> s.want, timer |-> TRUE], !.want = NoBox]

(* view_configure.  pending.geometry is set before it is read again. *)
Waiting(s) ==
  [s EXCEPT !.conf = [serial |-> s.idle, action |-> @.action \cup s.action,
                      geo |-> s.want, timer |-> TRUE],
            !.action = {}, !.want = NoBox]

(* view_configured. *)
Configured(s) == [s EXCEPT !.conf = NoConf]

(* xdg_view_configure: moves at once, unless a change of size is pending. *)
Configure(s) ==
  LET direct == IF "move" \in s.action /\ s.conf.action = {} THEN MovedTo(s, s.want.x) ELSE s
      left == s.action \ {"move"}
      told == [w |-> s.want.w,
               full |-> IF "fullscreen" \in left THEN s.full ELSE s.told.full,
               max |-> IF "maximize" \in left THEN s.max ELSE s.told.max,
               tile |-> IF "tile" \in left THEN s.tile # "none" ELSE s.told.tile]
  IN IF left = {} THEN [direct EXCEPT !.action = {}, !.want = NoBox]
     ELSE Waiting(Scheduled([direct EXCEPT !.action = left, !.told = told]))

(* The end of the view_do functions: an unmapped view only collects. *)
Flushed(s) == IF s.state = "mapped" THEN Configure(s) ELSE s

DoMove(s, x) == Flushed([s EXCEPT !.action = @ \cup {"move"}, !.want.x = x])

DoResize(s, box) == Flushed([s EXCEPT !.action = @ \cup {"resize"}, !.want = box])
-----------------------------------------------------------------------------
(* The states of a window.                                                 *)

(* view_get_tiled_geometry. *)
TiledBox(s, tile) ==
  CASE tile = "none"   -> s.saved
    [] tile = "left"   -> Box(0, Width \div 2)
    [] tile = "right"  -> Box(Width \div 2, Width \div 2)
    [] tile = "center" -> Box(Width \div 4, Width \div 2)
    [] tile = "all"    -> Full

(* view_do_tiled. *)
DoTiled(s, tile) ==
  IF s.tile = tile THEN s
  ELSE Flushed([s EXCEPT !.saved = IF s.tile = "none" /\ ~s.max THEN s.geo ELSE @,
                         !.action = @ \cup {"tile"} \cup (IF s.max THEN {"maximize"} ELSE {}),
                         !.max = FALSE, !.tile = tile, !.want = TiledBox(s, tile)])

(* Mutant: the end of the tiled state is not passed on. *)
MaximizeActions_NoTile(s) == {"maximize"}

(* What changes for the client when view_do_maximized is called. *)
MaximizeActions(s) == {"maximize"} \cup (IF s.tile # "none" THEN {"tile"} ELSE {})

(* view_do_maximized. *)
DoMaximized(s, max) ==
  IF s.tile = "none" /\ s.max = max THEN s
  ELSE Flushed([s EXCEPT !.saved = IF max /\ s.tile = "none" THEN s.geo ELSE @,
                         !.want = IF max THEN Full ELSE s.saved,
                         !.action = @ \cup MaximizeActions(s),
                         !.tile = "none", !.max = max])

(* Mutant: leaving fullscreen ignores that the window is maximized. *)
FullscreenBox_Saved(s, full) == IF full THEN Full ELSE TiledBox(s, s.tile)

(* The output's geometry, or that of the state the window returns to. *)
FullscreenBox(s, full) == IF full \/ s.max THEN Full ELSE TiledBox(s, s.tile)

(* view_do_fullscreen. *)
DoFullscreen(s, full) ==
  IF s.full = full THEN s
  ELSE Flushed([s EXCEPT !.saved = IF full /\ ~s.max /\ s.tile = "none" THEN s.geo ELSE @,
                         !.want = FullscreenBox(s, full),
                         !.action = @ \cup {"fullscreen"}, !.full = full])

(* kywc_view_set_maximized, kywc_view_set_fullscreen and kywc_view_set_tiled
   in stack mode: a fullscreen window is neither maximized nor tiled. *)
SetMaximized(s, max) == IF s.full THEN s ELSE DoMaximized(s, max)

SetTiled(s, tile) == IF s.full THEN s ELSE DoTiled(s, tile)

(* A request of the user or the client that changes the window's state. *)
ChangesState(s) ==
  /\ Request
  /\ v' = s
  /\ grab' = [grab EXCEPT !.clean = FALSE]
  /\ Overlaps("resize" \in v.conf.action)
  /\ UNCHANGED <<sent, acked, current>>

Maximize(max) == ChangesState(SetMaximized(v, max))

Fullscreen(full) == ChangesState(DoFullscreen(v, full))

Tile(tile) == ChangesState(SetTiled(v, tile))

(* view_do_activate: a configure event nobody waits for. *)
Activate ==
  /\ Request
  /\ v' = Scheduled(v)
  /\ grab' = [grab EXCEPT !.clean = FALSE]
  /\ UNCHANGED <<sent, acked, current, odd>>

(* interactive_process_move: dragging a maximized or tiled window restores it
   first, where the pointer is. *)
Drag(x) ==
  LET at == [v EXCEPT !.saved.x = x]
  IN /\ Request
     /\ ~v.full /\ grab = NoGrab
     /\ v' = DoMove(IF v.max THEN DoMaximized(at, FALSE)
                    ELSE IF v.tile # "none" THEN DoTiled(at, "none") ELSE v, x)
     /\ Overlaps("resize" \in v.conf.action)
     /\ UNCHANGED <<sent, acked, current, grab>>
-----------------------------------------------------------------------------
(* Resizing.                                                               *)

(* Nothing is under way between the compositor and the client. *)
Quiet ==
  /\ v.conf = NoConf /\ v.idle = 0
  /\ sent = <<>> /\ current = acked.serial

(* window_begin_resize. *)
BeginResize(edge) ==
  /\ Request
  /\ grab = NoGrab /\ ~v.max /\ ~v.full
  /\ grab' = [edge |-> edge, geo |-> v.geo, moved |-> FALSE, clean |-> Quiet]
  /\ UNCHANGED <<v, sent, acked, current, odd>>

(* kywc_view_resize in stack mode. *)
Resize(s, box) == IF s.full THEN s ELSE DoResize(s, box)

(* interactive_process_resize: the other edge is anchored. *)
Motion(w) ==
  LET x == IF grab.edge = "left" THEN grab.geo.x + grab.geo.w - w ELSE v.geo.x
  IN /\ Request /\ grab # NoGrab
     /\ v' = Resize(v, Box(x, w))
     /\ grab' = [grab EXCEPT !.moved = TRUE]
     /\ Overlaps(v.max \/ v.full \/ v.conf.action \ {"resize"} # {})
     /\ UNCHANGED <<sent, acked, current>>

(* interactive_done; the escape key takes the old geometry back. *)
EndResize(escape) ==
  /\ Request /\ grab # NoGrab
  /\ grab' = NoGrab
  /\ v' = IF escape THEN Resize(v, grab.geo) ELSE v
  /\ Overlaps(escape /\ (v.max \/ v.full \/ v.conf.action \ {"resize"} # {}))
  /\ UNCHANGED <<sent, acked, current>>
-----------------------------------------------------------------------------
(* The client's answers.                                                   *)

(* xdg_surface_handle_ack_configure: earlier events are dropped. *)
Ack ==
  \E i \in DOMAIN sent :
    /\ acked' = sent[i]
    /\ sent' = SubSeq(sent, i + 1, Len(sent))
    /\ UNCHANGED <<v, current, grab, odd, asked>>

(* The widths with which a client answers what it was told: a window without
   a special state may stay smaller. *)
Answers(told) ==
  IF told.w = 0 THEN Widths
  ELSE IF told.max \/ told.full \/ told.tile THEN {told.w}
  ELSE {told.w} \cup {w \in Widths : w < told.w}

(* Mutant: the position waits for the size, which moves the other edge. *)
Anchor_Not(s, left) == s.conf.geo.x

(* "fix wobbling when resize": the left edge follows the size that is there. *)
Anchor(s, left) ==
  IF left /\ "resize" \in s.conf.action
  THEN s.conf.geo.x + s.conf.geo.w - s.geo.w ELSE s.conf.geo.x

(* Mutant: only this very configure counts. *)
Settled_Equal(s, serial) == serial = s.conf.serial

(* "last configure has been acked". *)
Settled(s, serial) == serial >= s.conf.serial

(* xdg_view_handle_commit once the size is known. *)
Committed(s, serial, left) ==
  LET unacked == s.conf.serial >= serial /\ "resize" \in s.conf.action
      x == IF unacked THEN Anchor(s, left) ELSE s.conf.geo.x
      at == IF unacked \/ Settled(s, serial) THEN MovedTo(s, x) ELSE s
  IN IF s.conf.action = {} /\ s.conf.serial = 0 THEN s
     ELSE IF Settled(s, serial) THEN Configured(at) ELSE at

(* A client draws a new size when it has acknowledged a new one. *)
Commit ==
  /\ v.state = "mapped"
  /\ \E w \in IF acked.serial = current THEN {v.geo.w} ELSE Answers(acked.told) :
       v' = Committed([v EXCEPT !.geo.w = w], acked.serial, LeftEdge)
  /\ current' = acked.serial
  /\ UNCHANGED <<sent, acked, grab, odd, asked>>

(* view_handle_configure_timeout. *)
Timeout ==
  /\ v.conf.timer
  /\ v' = Configured(MovedTo(v, Anchor(v, LeftEdge)))
  /\ grab' = [grab EXCEPT !.clean = FALSE]
  /\ UNCHANGED <<sent, acked, current, odd, asked>>
-----------------------------------------------------------------------------
(* Unmapping and mapping again.                                            *)

(* A commit without a buffer: view_unmap, which also ends the grab, and
   reset_xdg_surface. *)
Unmap ==
  /\ Request
  /\ v' = [v EXCEPT !.state = "unmapped", !.conf.timer = FALSE, !.idle = 0]
  /\ grab' = NoGrab /\ sent' = <<>>
  /\ current' = acked.serial
  /\ odd' = odd \cup {"remap"}
  /\ UNCHANGED acked

(* xdg_view_handle_commit: the initial commit. *)
InitialCommit ==
  /\ v.state = "unmapped"
  /\ v' = Scheduled([v EXCEPT !.state = "initial", !.told.w = 0])
  /\ UNCHANGED <<sent, acked, current, grab, odd, asked>>

(* view_map: the positioner places an ordinary window, a maximized or
   fullscreen one gets a geometry to return to; then it is activated. *)
Mapped(s, x) ==
  LET placed == IF s.max \/ s.full THEN s ELSE DoMove(s, x)
      shown == [placed EXCEPT !.state = "mapped",
                  !.saved = IF placed.action # {} /\ (s.max \/ s.full)
                            THEN TiledBox(s, "center") ELSE @]
  IN Scheduled(Configure(shown))

(* xdg_view_handle_map with the requests cached until then, and the rest of the
   commit that maps the surface. *)
Map(max, full, x) ==
  /\ v.state = "initial" /\ acked.serial > current
  /\ \E w \in Answers(acked.told) :
       LET sized == Scheduled([v EXCEPT !.geo.w = w, !.told.w = w])
           request == DoFullscreen(SetMaximized(sized, max), full)
       IN v' = Committed(Mapped(request, x), acked.serial, FALSE)
  /\ current' = acked.serial
  /\ Overlaps("resize" \in v.conf.action)
  /\ UNCHANGED <<sent, acked, grab, asked>>

Next ==
  \/ SendConfigure \/ Ack \/ Commit \/ Timeout \/ Activate
  \/ \E b \in BOOLEAN : Maximize(b) \/ Fullscreen(b) \/ EndResize(b)
  \/ \E t \in Tiles : Tile(t)
  \/ \E x \in Places : Drag(x)
  \/ \E e \in {"left", "right"} : BeginResize(e)
  \/ \E w \in Widths : Motion(w)
  \/ Unmap \/ InitialCommit
  \/ \E max, full \in BOOLEAN, x \in Places : Map(max, full, x)

Spec == Init /\ [][Next]_vars
-----------------------------------------------------------------------------
(* Properties.                                                             *)

Boxes == [x : Int, w : 0..Width]

ToldStates == [w : 0..Width, max : BOOLEAN, full : BOOLEAN, tile : BOOLEAN]

(* Every variable has its type. *)
TypeOK ==
  /\ v \in [geo : Boxes, saved : Boxes, state : {"mapped", "unmapped", "initial"},
            max : BOOLEAN, full : BOOLEAN, tile : Tiles,
            action : {{}}, want : {NoBox},
            conf : [serial : Nat, action : SUBSET SizeActions, geo : Boxes,
                    timer : BOOLEAN],
            told : ToldStates, idle : Nat, serial : Nat]
  /\ \A i \in DOMAIN sent : sent[i] \in [serial : Nat, told : ToldStates]
  /\ acked \in [serial : Nat, told : ToldStates] /\ current \in Nat
  /\ grab \in [edge : {"none", "left", "right"}, geo : Boxes, moved : BOOLEAN, clean : BOOLEAN]
  /\ odd \subseteq {"resize", "remap"} /\ asked \in 0..MaxRequests

(* A window waits for its client only for a change of size, as the assertions
   in xdg_view_configure and xdg_view_handle_commit have it, and while it is
   mapped it never waits without the timer that ends the wait: not after
   overlapping changes, and not after it was unmapped in the middle of one.
   Nothing asked for is left over when an operation ends (TypeOK). *)
WaitsWithTimer ==
  /\ TypeOK
  /\ v.conf.serial # 0 <=> v.conf.action # {}
  /\ v.state = "mapped" => (v.conf.timer <=> v.conf.serial # 0)

(* The states the client is told of are those the compositor acts on, whatever
   changes were merged into one configure event or requested before the window
   was mapped (xdg_view_configure sends only what pending.action names). *)
ClientKnowsState ==
  v.state = "mapped" =>
    /\ v.told.max = v.max /\ v.told.full = v.full
    /\ v.told.tile = (v.tile # "none")

(* While the left edge of a window that was at rest is dragged, its right edge
   does not move, whichever of the sizes the client has got to ("fix wobbling
   when resize"), unless the client is late or the window changes otherwise. *)
RightEdgeStays ==
  grab.edge = "left" /\ grab.clean =>
    v.geo.x + v.geo.w = grab.geo.x + grab.geo.w

Covers ==
  v.state = "mapped" /\ Quiet /\ (v.max \/ v.full) => v.geo = Full

(* A maximized or fullscreen window covers the output once its client has
   answered, in whatever order changes, answers and timeouts came, and whether
   it asked before or after it was mapped. *)
CoversWhenSettled == odd = {} => Covers

(* So does one that was mapped before: unmapping discards the state, "all
   attributes (e.g. title, state, stacking, ...) are discarded for an
   xdg_toplevel surface when it is unmapped" (xdg-shell.xml). *)
CoversAfterRemap == odd = {"remap"} => Covers
=============================================================================
