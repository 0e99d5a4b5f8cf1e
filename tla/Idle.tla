-------------------------------- MODULE Idle --------------------------------
(***************************************************************************)
(* Idle notifications (src/src/input/idle.c) and idle inhibitors           *)
(* (src/src/input/idle_inhibit.c).                                         *)
(*                                                                         *)
(* An idle watches a seat: its timer restarts with every user activity and *)
(* the client learns when it expires (idled) and when activity follows     *)
(* (resumed).  An inhibitor belongs to a surface; while one is visible the *)
(* timers of the idles that honour inhibition are off.  An inhibitor       *)
(* follows its surface and, for a toplevel, its view through listeners on  *)
(* four signals, some of which it adds and removes as it goes.             *)
(*                                                                         *)
(* Every seat has an idle of the server itself, of timeout 0, whose resume *)
(* function turns the outputs on again; it is named like the seat.         *)
(***************************************************************************)
EXTENDS Naturals

CONSTANTS
  Seats,
  Idles,       \* idles that clients create
  Surfaces,    \* surfaces; at most one inhibitor is on each
  Toplevels,   \* those that are shown by a view
  Timeouts,    \* timeouts asked for, in ticks of the clock
  NoIdle, NoInhibitor

ASSUME IdleAssumption ==
  /\ Seats \cap Idles = {} /\ Toplevels \subseteq Surfaces
  /\ Timeouts \subseteq Nat /\ \E t \in Timeouts \cup {0} : \A u \in Timeouts : u <= t

VARIABLES
  seats,      \* seats that exist
  idle,       \* idle_manager->idles: NoIdle, or [kind, seat, timeout, armed, left, idle]
  inhibited,  \* idle_manager->inhibited
  powered,    \* the outputs are on
  surface,    \* [view, mapped, minimized] for every surface; view: its role exists
  inhibitor,  \* NoInhibitor, or [onMap, first, maps, minimizes, visible]
  stuck,      \* the emission of a signal never returned
  quiet,      \* history: ticks since user activity, or since the idle began to count
  bypassed    \* history: idles that simulated activity while inhibited

seatVars == <<seats, idle, powered, quiet, bypassed>>
surfaceVars == <<surface, inhibitor, stuck>>
vars == <<seatVars, inhibited, surfaceVars>>

Ids == Seats \cup Idles
Longest == CHOOSE t \in Timeouts \cup {0} : \A u \in Timeouts : u <= t

Live(i) == idle[i] # NoIdle
(* support_inhibit: not for input idle notifications and the server's own. *)
Inhibitable(r) == r.kind \in {"kde", "notifier"}
Held(i) == inhibited /\ Inhibitable(idle[i])

Init ==
  /\ seats = {} /\ idle = [i \in Ids |-> NoIdle] /\ inhibited = FALSE
  /\ powered = TRUE
  /\ surface = [s \in Surfaces |-> [view |-> FALSE, mapped |-> FALSE, minimized |-> FALSE]]
  /\ inhibitor = [s \in Surfaces |-> NoInhibitor]
  /\ stuck = FALSE /\ quiet = [i \in Ids |-> 0] /\ bypassed = {}
-----------------------------------------------------------------------------
(* Idles.                                                                  *)

(* Mutant: a zero timeout is armed instead of reported at once. *)
Reset_Always(r, inh) ==
  IF inh /\ Inhibitable(r) THEN [r EXCEPT !.idle = FALSE, !.armed = FALSE]
  ELSE [r EXCEPT !.armed = TRUE, !.left = r.timeout]

(* Mutant: the inhibited flag is not looked at. *)
Reset_Inhibited(r, inh) ==
  IF r.timeout > 0 THEN [r EXCEPT !.armed = TRUE, !.left = r.timeout]
  ELSE [r EXCEPT !.idle = TRUE]

Reset(r, inh) ==
  IF inh /\ Inhibitable(r) THEN [r EXCEPT !.idle = FALSE, !.armed = FALSE]
  ELSE IF r.timeout > 0 THEN [r EXCEPT !.armed = TRUE, !.left = r.timeout]
  ELSE [r EXCEPT !.idle = TRUE]

Created(kind, seat, timeout) ==
  Reset([kind |-> kind, seat |-> seat, timeout |-> timeout, armed |-> FALSE,
         left |-> 0, idle |-> FALSE], inhibited)

(* Requests get_idle_notification, get_input_idle_notification and         *)
(* get_idle_timeout.                                                       *)
NewIdle(i, kind, seat, timeout) ==
  /\ ~Live(i) /\ seat \in seats
  /\ idle' = [idle EXCEPT ![i] = Created(kind, seat, timeout)]
  /\ quiet' = [quiet EXCEPT ![i] = 0]
  /\ UNCHANGED <<seats, powered, bypassed, inhibited, surfaceVars>>

DestroyIdle(i) ==
  /\ Live(i) /\ idle' = [idle EXCEPT ![i] = NoIdle]
  /\ bypassed' = bypassed \ {i}
  /\ UNCHANGED <<seats, powered, quiet, inhibited, surfaceVars>>

(* seat_create: input/monitor.c adds the idle of the server.               *)
NewSeat(s) ==
  /\ s \notin seats /\ seats' = seats \cup {s}
  /\ idle' = [idle EXCEPT ![s] = Created("server", s, 0)]
  /\ UNCHANGED <<powered, quiet, bypassed, inhibited, surfaceVars>>

DestroySeat(s) ==
  /\ s \in seats /\ seats' = seats \ {s}
  /\ idle' = [i \in Ids |-> IF Live(i) /\ idle[i].seat = s THEN NoIdle ELSE idle[i]]
  /\ bypassed' = {i \in bypassed : idle'[i] # NoIdle}
  /\ UNCHANGED <<powered, quiet, inhibited, surfaceVars>>

(* Mutant: a timer that runs already goes on from the previous activity. *)
Active_NotReset(r) == IF r.armed THEN r ELSE Reset([r EXCEPT !.idle = FALSE], inhibited)

Active(r) == Reset([r EXCEPT !.idle = FALSE], inhibited)

(* Mutant: the server's own idle is passed over, as it has no timer. *)
Noticed_Timers(i, s) == ~Held(i) /\ idle[i].seat = s /\ idle[i].timeout > 0

Noticed(i, s) == ~Held(i) /\ idle[i].seat = s

(* idle_manager_notify_activity, from every input event of the seat.       *)
Activity(s) ==
  /\ s \in seats
  /\ idle' = [i \in Ids |-> IF Live(i) /\ Noticed(i, s) THEN Active(idle[i]) ELSE idle[i]]
  /\ powered' = (powered \/ \E i \in seats : Noticed(i, s) /\ idle[i].idle)
  /\ quiet' = [i \in Ids |-> IF Live(i) /\ idle[i].seat = s THEN 0 ELSE quiet[i]]
  /\ bypassed' = {i \in bypassed : ~Noticed(i, s)}
  /\ UNCHANGED <<seats, inhibited, surfaceVars>>

(* simulate_activity, which does not look at inhibited.                    *)
Simulate(i) ==
  /\ Live(i) /\ idle[i].kind = "kde"
  /\ idle' = [idle EXCEPT ![i] = Reset([@ EXCEPT !.idle = FALSE], FALSE)]
  /\ quiet' = [quiet EXCEPT ![i] = 0]
  /\ bypassed' = IF inhibited THEN bypassed \cup {i} ELSE bypassed \ {i}
  /\ UNCHANGED <<seats, powered, inhibited, surfaceVars>>

Tick ==
  /\ \E i \in Ids : Live(i) /\ (quiet[i] < Longest \/ (idle[i].armed /\ idle[i].left > 0))
  /\ idle' = [i \in Ids |-> IF Live(i) /\ idle[i].armed /\ idle[i].left > 0
                            THEN [idle[i] EXCEPT !.left = @ - 1] ELSE idle[i]]
  /\ quiet' = [i \in Ids |-> IF Live(i) /\ quiet[i] < Longest THEN quiet[i] + 1 ELSE quiet[i]]
  /\ UNCHANGED <<seats, powered, bypassed, inhibited, surfaceVars>>

(* idle_handle_timer; a timer of the event loop fires once.                *)
Timer(i) ==
  /\ Live(i) /\ idle[i].armed /\ idle[i].left = 0
  /\ idle' = [idle EXCEPT ![i].idle = TRUE, ![i].armed = FALSE]
  /\ UNCHANGED <<seats, powered, quiet, bypassed, inhibited, surfaceVars>>

(* The D-Bus signal of suspend turns the outputs off.                      *)
PowerOff ==
  /\ powered /\ powered' = FALSE
  /\ UNCHANGED <<seats, idle, quiet, bypassed, inhibited, surfaceVars>>
-----------------------------------------------------------------------------
(* Inhibitors.                                                             *)

Twice(n) == IF n = 0 THEN 1 ELSE 2

(* Mutant: the last inhibitor that changed decides. *)
Inhibits_Last(inh, s) == inh[s] # NoInhibitor /\ inh[s].visible

Inhibits(inh, s) == \E t \in Surfaces : inh[t] # NoInhibitor /\ inh[t].visible

(* Mutant: timers are not started again when inhibition ends. *)
Restarted_OnlyOff(r, inh) == IF inh THEN Reset(r, TRUE) ELSE r

Restarted(r, inh) == Reset(r, inh)

(* idle_manager_set_inhibited, after the inhibitor of s became h.          *)
SetInhibit(s, h) ==
  LET inh == Inhibits([inhibitor EXCEPT ![s] = h], s)
      hit == {i \in Ids : Live(i) /\ inh # inhibited /\ Inhibitable(idle[i])}
  IN  /\ inhibitor' = [inhibitor EXCEPT ![s] = h] /\ inhibited' = inh
      /\ idle' = [i \in Ids |-> IF i \in hit THEN Restarted(idle[i], inh) ELSE idle[i]]
      /\ quiet' = [i \in Ids |-> IF i \in hit THEN 0 ELSE quiet[i]]
      /\ bypassed' = IF inh THEN bypassed \ hit ELSE bypassed
      /\ UNCHANGED <<seats, powered>>

(* handle_view_map and handle_view_minimize.                               *)
Shown(m) == ~m

(* handle_surface_map: mapped, m: the view is mapped, minimized.           *)
SurfaceMapped(h, s, mapped, m) ==
  IF s \notin Toplevels THEN [h EXCEPT !.visible = TRUE]
  ELSE IF mapped
  THEN [h EXCEPT !.visible = Shown(m), !.maps = 0, !.minimizes = Twice(@)]
  ELSE [h EXCEPT !.maps = Twice(@), !.minimizes = Twice(@)]

(* handle_new_idle_inhibitor; first: before the view listens to the        *)
(* surface.                                                                *)
NewInhibitor(s) ==
  LET h == [onMap |-> ~surface[s].mapped, first |-> ~surface[s].view, maps |-> 0,
            minimizes |-> 0, visible |-> FALSE]
  IN  /\ inhibitor[s] = NoInhibitor
      /\ SetInhibit(s, IF surface[s].mapped
                       THEN SurfaceMapped(h, s, TRUE, surface[s].minimized) ELSE h)
      /\ UNCHANGED <<surface, stuck>>

DestroyInhibitor(s) ==
  /\ inhibitor[s] # NoInhibitor /\ SetInhibit(s, NoInhibitor)
  /\ UNCHANGED <<surface, stuck>>

(* handle_new_xdg_surface: the surface becomes a toplevel.                 *)
NewView(s) ==
  /\ s \in Toplevels /\ ~surface[s].view
  /\ surface' = [surface EXCEPT ![s].view = TRUE]
  /\ UNCHANGED <<seatVars, inhibited, inhibitor, stuck>>

(* A listener that is linked twice: the emission may run in a circle.      *)
Emission(twice) == stuck' \in {FALSE, twice}

(* The map event of a toplevel.  The view takes the minimized state the    *)
(* client asked for (asked) and, if it gets the focus, gives it up again   *)
(* with a minimize event.  The inhibitor's own listener runs before or     *)
(* after all this.                                                         *)
ViewMap(h, s, asked, focus) ==
  LET m  == asked /\ ~focus
      h1 == IF h.onMap /\ h.first THEN SurfaceMapped(h, s, FALSE, asked) ELSE h
      h2 == IF h1.maps > 0 \/ (h1.minimizes > 0 /\ asked /\ focus)
            THEN [h1 EXCEPT !.visible = Shown(m)] ELSE h1
  IN  /\ Emission(h1.maps > 1 \/ (asked /\ focus /\ h1.minimizes > 1))
      /\ SetInhibit(s, IF h.onMap /\ ~h.first THEN SurfaceMapped(h2, s, TRUE, m) ELSE h2)

MapToplevel(s, asked, focus) ==
  /\ s \in Toplevels /\ surface[s].view /\ ~surface[s].mapped
  /\ surface' = [surface EXCEPT ![s].mapped = TRUE, ![s].minimized = asked /\ ~focus]
  /\ IF inhibitor[s] = NoInhibitor
     THEN UNCHANGED <<seatVars, inhibited, inhibitor, stuck>>
     ELSE ViewMap(inhibitor[s], s, asked, focus)

MapOther(s) ==
  /\ s \notin Toplevels /\ ~surface[s].mapped
  /\ surface' = [surface EXCEPT ![s].mapped = TRUE]
  /\ IF inhibitor[s] = NoInhibitor
     THEN UNCHANGED <<seatVars, inhibited, inhibitor, stuck>>
     ELSE /\ SetInhibit(s, IF inhibitor[s].onMap
                           THEN SurfaceMapped(inhibitor[s], s, TRUE, FALSE) ELSE inhibitor[s])
          /\ UNCHANGED stuck

Unmap(s) ==
  /\ surface[s].mapped /\ surface' = [surface EXCEPT ![s].mapped = FALSE]
  /\ IF inhibitor[s] = NoInhibitor
     THEN UNCHANGED <<seatVars, inhibited, inhibitor>>
     ELSE SetInhibit(s, [inhibitor[s] EXCEPT !.visible = FALSE])
  /\ UNCHANGED stuck

(* view_do_minimized and view_manager_show_active_only on a mapped view.   *)
Minimize(s) ==
  LET m == ~surface[s].minimized IN
  /\ s \in Toplevels /\ surface[s].mapped
  /\ surface' = [surface EXCEPT ![s].minimized = m]
  /\ IF inhibitor[s] = NoInhibitor
     THEN UNCHANGED <<seatVars, inhibited, inhibitor, stuck>>
     ELSE /\ Emission(inhibitor[s].minimizes > 1)
          /\ SetInhibit(s, IF inhibitor[s].minimizes > 0
                           THEN [inhibitor[s] EXCEPT !.visible = Shown(m)] ELSE inhibitor[s])
-----------------------------------------------------------------------------
Clients ==
  \/ \E i \in Idles, k \in {"kde", "notifier", "input"}, s \in Seats, t \in Timeouts :
        NewIdle(i, k, s, t)
  \/ \E i \in Idles : DestroyIdle(i) \/ Simulate(i)
  \/ \E s \in Surfaces :
        \/ NewInhibitor(s) \/ DestroyInhibitor(s) \/ NewView(s)
        \/ MapOther(s) \/ Unmap(s) \/ Minimize(s)
        \/ \E asked, focus \in BOOLEAN : MapToplevel(s, asked, focus)

Environment ==
  \/ \E s \in Seats : NewSeat(s) \/ DestroySeat(s) \/ Activity(s)
  \/ Tick \/ PowerOff
  \/ \E i \in Ids : Timer(i)

Hung == stuck /\ UNCHANGED vars

Next == (~stuck /\ (Clients \/ Environment)) \/ Hung

Spec == Init /\ [][Next]_vars

(* Time passes and the event loop dispatches timers that are due.          *)
Fairness ==
  /\ WF_vars(~stuck /\ Tick)
  /\ \A i \in Ids : WF_vars(~stuck /\ Timer(i))

FairSpec == Spec /\ Fairness
-----------------------------------------------------------------------------
TypeOK ==
  /\ seats \subseteq Seats /\ inhibited \in BOOLEAN /\ powered \in BOOLEAN
  /\ \A i \in Ids : Live(i) =>
       /\ idle[i] \in [kind : {"kde", "notifier", "input", "server"}, seat : seats,
                       timeout : Timeouts \cup {0}, armed : BOOLEAN,
                       left : Timeouts \cup 0..Longest, idle : BOOLEAN]
       /\ idle[i].armed => idle[i].timeout > 0
  /\ surface \in [Surfaces -> [view : BOOLEAN, mapped : BOOLEAN, minimized : BOOLEAN]]
  /\ \A s \in Surfaces : inhibitor[s] # NoInhibitor =>
       inhibitor[s] \in [onMap : BOOLEAN, first : BOOLEAN, maps : 0..2,
                         minimizes : 0..2, visible : BOOLEAN]
  /\ stuck \in BOOLEAN /\ quiet \in [Ids -> 0..Longest] /\ bypassed \subseteq Idles

(* What the user sees of a surface.                                        *)
Visible(s) == surface[s].mapped /\ ~surface[s].minimized

(* Inhibition follows what is on the screen, whatever the order of the map,*)
(* minimize and unmap events of several inhibitors: it is in force only    *)
(* because of a visible surface (idle_inhibitor_set_inhibit), and an       *)
(* inhibitor created before its surface was shown is in force whenever the *)
(* surface is visible (handle_surface_map, handle_view_map).               *)
InhibitsWhileShown ==
  /\ inhibited => \E s \in Surfaces : inhibitor[s] # NoInhibitor /\ Visible(s)
  /\ \A s \in Surfaces :
       inhibitor[s] # NoInhibitor /\ inhibitor[s].onMap /\ Visible(s) /\ ~stuck => inhibited

(* While inhibition is in force no idle that honours it is reported or has *)
(* a timer running (idle_reset_timer, idle_manager_set_inhibited), except  *)
(* those whose client simulates activity meanwhile.                        *)
InhibitedStaysActive ==
  \A i \in Ids \ bypassed : Live(i) /\ Held(i) => ~idle[i].idle /\ ~idle[i].armed

(* A client is told that the user is idle only when its full timeout has   *)
(* passed without activity on the seat and without inhibition, counted     *)
(* from the later of the two (idle_manager_notify_activity), and no timer  *)
(* runs for an idle that has none (TypeOK).                                *)
IdleAfterQuiet ==
  /\ TypeOK
  /\ \A i \in Ids \ bypassed : Live(i) /\ idle[i].idle => quiet[i] >= idle[i].timeout

(* Any input on a seat finds the outputs on: the server's idle of the seat *)
(* is idle again right after each activity (input/monitor.c), so that the  *)
(* next one resumes it.                                                    *)
ActivityWakes == [][\A s \in Seats : Activity(s) => powered']_vars

(* A seat that stays quiet for the timeout is reported as idle: no order   *)
(* of inhibition, activity and expiry leaves an idle without a timer.      *)
IdleEventually ==
  \A i \in Idles :
    (Live(i) /\ quiet[i] >= idle[i].timeout /\ ~stuck /\ ~inhibited)
      ~> (~Live(i) \/ idle[i].idle \/ quiet[i] < idle[i].timeout \/ inhibited \/ stuck)

(* A listener is never added to a list that it is in already, in whatever   *)
(* order the inhibitor, its surface and its view come and go.  (Not kept.)  *)
ListenersOnce ==
  \A s \in Surfaces :
    inhibitor[s] # NoInhibitor => inhibitor[s].maps <= 1 /\ inhibitor[s].minimizes <= 1
=============================================================================
