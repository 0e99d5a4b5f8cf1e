---------------------------- MODULE SessionStart ----------------------------
(***************************************************************************)
(* Start and end of the session process (src/src/main.c) and the life of   *)
(* the Xwayland server it waits for (src/src/xwayland/xwayland.c).         *)
(*                                                                         *)
(* The session is started from an idle callback, once Xwayland is ready or *)
(* a timeout has expired.  SIGCHLD is turned into a byte in a pipe, and    *)
(* the event loop asks for the status of the session.  Xwayland may fail   *)
(* to start, crash and be restarted by wlroots at any time.                *)
(*                                                                         *)
(* Xwayland servers are numbered; conn is the server that xcb_conn and     *)
(* what was obtained through it belong to, hook the one whose client the   *)
(* client_destroy listener watches, 0 none.                                *)
(***************************************************************************)
EXTENDS Naturals

CONSTANTS
  MaxServers,   \* bound: Xwayland servers started
  MaxChildren   \* bound: other child processes that end

ASSUME SessionStartAssumption ==
  /\ MaxServers \in Nat \ {0} /\ MaxChildren \in Nat

VARIABLES
  opt,        \* server.options: [xwayland, binding]
  phase,      \* "init", "run" (wl_display_run) or "down"
  quit,       \* wl_display_terminate was called
  server,     \* the Xwayland process: "idle", "starting", "up" or "dead"
  gen,        \* number of the current server
  ready, conn, hook,
  wake,       \* xwm_wake_idle
  scheduled,  \* session_start_scheduled
  waiting,    \* session_xwayland_ready is linked
  timeout,    \* session_xwayland_timeout
  start,      \* idle callbacks start_session pending
  session,    \* the process: "none", "running", "zombie", "reaped" or "killed"
  pid,        \* server.session_pid is positive
  spawns,     \* history: calls of spawn_session
  notice,     \* bytes in child_pipe
  pc,         \* "loop", or where handle_child_ready is
  children

xvars == <<server, gen, ready, conn, hook, wake>>
startVars == <<scheduled, waiting, timeout, start>>
childVars == <<session, pid, spawns, notice, pc, children>>
vars == <<opt, phase, quit, xvars, startVars, childVars>>

(* xwayland also says that the server could be created. *)
Init ==
  /\ opt \in [xwayland : BOOLEAN, binding : BOOLEAN]
  /\ phase = "init" /\ quit = FALSE
  /\ server = (IF opt.xwayland THEN "idle" ELSE "dead") /\ gen = 0
  /\ ready = FALSE /\ conn = 0 /\ hook = 0 /\ wake = FALSE
  /\ scheduled = FALSE /\ waiting = FALSE /\ timeout = FALSE /\ start = 0
  /\ session = "none" /\ pid = FALSE /\ spawns = 0
  /\ notice = FALSE /\ pc = "loop" /\ children = 0

InLoop == phase = "run" /\ pc = "loop"
-----------------------------------------------------------------------------
(* Starting the session.                                                   *)

(* Mutant: neither the flag is tested nor the other trigger cancelled. *)
ScheduleStart_Again ==
  /\ scheduled' = TRUE /\ start' = start + 1
  /\ UNCHANGED <<waiting, timeout>>

(* Mutant: only a start that is still pending is recognised. *)
ScheduleStart_Pending ==
  IF start > 0 THEN UNCHANGED startVars
  ELSE scheduled' = TRUE /\ start' = start + 1 /\ UNCHANGED <<waiting, timeout>>

(* schedule_session_start: the listener and the timer are cancelled. *)
ScheduleStart ==
  IF scheduled THEN UNCHANGED startVars
  ELSE /\ scheduled' = TRUE /\ waiting' = FALSE /\ timeout' = FALSE
       /\ start' = start + 1

(* Mutant: the timeout is not armed. *)
WaitXwayland_NoTimeout == waiting' = TRUE /\ UNCHANGED <<scheduled, timeout, start>>

WaitXwayland == waiting' = TRUE /\ timeout' = TRUE /\ UNCHANGED <<scheduled, start>>

(* main, with a session to start: schedule_session_after_xwayland, where arming
   the timer may fail, and then server_run. *)
Main ==
  /\ phase = "init"
  /\ phase' = "run"
  /\ IF opt.xwayland THEN WaitXwayland \/ ScheduleStart ELSE ScheduleStart
  /\ UNCHANGED <<opt, quit, xvars, childVars>>

(* handle_xwayland_ready_timeout. *)
Timeout ==
  /\ InLoop /\ timeout
  /\ ScheduleStart
  /\ UNCHANGED <<opt, phase, quit, xvars, childVars>>

(* start_session.  The child is forked, or that fails. *)
StartSession ==
  /\ InLoop /\ start > 0
  /\ start' = start - 1
  /\ spawns' = spawns + 1
  /\ \/ session' = "running" /\ pid' = TRUE /\ UNCHANGED quit
     \/ pid' = FALSE /\ quit' = (quit \/ opt.binding) /\ UNCHANGED session
  /\ UNCHANGED <<opt, phase, xvars, scheduled, waiting, timeout, notice, pc, children>>
-----------------------------------------------------------------------------
(* The end of the session.                                                 *)

(* child_handler runs at any time, between the steps of the loop as well. *)
SessionExits ==
  /\ session = "running" /\ phase = "run"
  /\ session' = "zombie" /\ notice' = TRUE
  /\ UNCHANGED <<opt, phase, quit, xvars, startVars, pid, spawns, pc, children>>

OtherChildExits ==
  /\ phase = "run" /\ children < MaxChildren
  /\ children' = children + 1 /\ notice' = TRUE
  /\ UNCHANGED <<opt, phase, quit, xvars, startVars, session, pid, spawns, pc>>

(* handle_child_ready empties the pipe, ... *)
ChildReady ==
  /\ InLoop /\ notice
  /\ notice' = FALSE /\ pc' = "wait"
  /\ UNCHANGED <<opt, phase, quit, xvars, startVars, session, pid, spawns, children>>

(* ... then asks for the session, and for no other child, ... *)
WaitPid ==
  /\ phase = "run" /\ pc = "wait"
  /\ IF pid /\ session = "zombie"
     THEN session' = "reaped" /\ pc' = "ended"
     ELSE pc' = "other" /\ UNCHANGED session
  /\ UNCHANGED <<opt, phase, quit, xvars, startVars, pid, spawns, notice, children>>

(* Mutant: the pipe is emptied again at the end. *)
PipeKept_Emptied == notice' = FALSE

(* The rest of handle_child_ready leaves the pipe alone. *)
PipeKept == UNCHANGED notice

(* ... and ends the compositor with it. *)
ChildHandled ==
  /\ phase = "run" /\ pc \in {"ended", "other"}
  /\ pc' = "loop"
  /\ PipeKept
  /\ IF pc = "ended"
     THEN pid' = FALSE /\ quit' = (quit \/ opt.binding)
     ELSE UNCHANGED <<pid, quit>>
  /\ UNCHANGED <<opt, phase, xvars, startVars, session, spawns, children>>
-----------------------------------------------------------------------------
(* Xwayland.                                                               *)

(* Mutant: what belongs to the old server is kept. *)
ForgetConnection_Not == UNCHANGED <<ready, conn, wake>>

(* xwayland_forget_connection. *)
ForgetConnection == ready' = FALSE /\ conn' = 0 /\ wake' = FALSE

(* The listener moves to the new client. *)
Watched == gen + 1

(* wlroots starts a server and emits start: handle_xwayland_start. *)
Started ==
  /\ gen' = gen + 1 /\ server' = "starting"
  /\ hook' = Watched
  /\ ForgetConnection

ServerStart ==
  /\ InLoop /\ server = "idle"
  /\ Started
  /\ UNCHANGED <<opt, phase, quit, startVars, childVars>>

(* handle_xwayland_ready; session hooks run in child processes.  The session
   starts when it was waiting. *)
ServerReady ==
  /\ InLoop /\ server = "starting"
  /\ server' = "up"
  /\ ready' = TRUE /\ conn' = gen
  /\ IF ~ready /\ waiting THEN ScheduleStart ELSE UNCHANGED startVars
  /\ notice' = TRUE
  /\ UNCHANGED <<opt, phase, quit, gen, hook, wake, session, pid, spawns, pc, children>>

(* The server's client is destroyed.  The listener of wlroots comes first; if it
   restarts the server, handle_xwayland_start has moved our listener away, else
   handle_xwayland_client_destroy runs. *)
ServerLost ==
  /\ InLoop /\ server \in {"starting", "up"}
  /\ \/ server = "up" /\ gen < MaxServers /\ Started
     \/ server' = "dead" /\ hook' = 0 /\ ForgetConnection /\ UNCHANGED gen
  /\ UNCHANGED <<opt, phase, quit, startVars, childVars>>

(* xwayland_schedule_xwm_wake. *)
ScheduleWake ==
  /\ InLoop /\ ready /\ ~wake
  /\ wake' = TRUE
  /\ UNCHANGED <<opt, phase, quit, server, gen, ready, conn, hook, startVars, childVars>>

(* wake_xwm. *)
WakeXwm ==
  /\ InLoop /\ wake
  /\ wake' = FALSE
  /\ UNCHANGED <<opt, phase, quit, server, gen, ready, conn, hook, startVars, childVars>>
-----------------------------------------------------------------------------
(* The end of the compositor.                                              *)

(* handle_exit, sig_handler, the loss of the renderer or the seat session. *)
Terminate ==
  /\ phase = "run" /\ ~quit
  /\ quit' = TRUE
  /\ UNCHANGED <<opt, phase, xvars, startVars, childVars>>

(* Mutant: a session that has not been waited for is left alone. *)
Killed_Not == session

(* The session is killed after the loop. *)
Killed == IF pid /\ session = "running" THEN "killed" ELSE session

(* main after server_run; server_finish with xwayland_server_destroy.  Idle
   callbacks that are pending are dropped with the loop. *)
Shutdown ==
  /\ InLoop /\ quit
  /\ phase' = "down"
  /\ session' = Killed
  /\ server' = "dead" /\ hook' = 0 /\ ForgetConnection
  /\ start' = 0 /\ notice' = FALSE
  /\ UNCHANGED <<opt, quit, gen, scheduled, waiting, timeout, pid, spawns, pc, children>>

Done == phase = "down" /\ UNCHANGED vars

Next ==
  \/ Main \/ Timeout \/ StartSession
  \/ SessionExits \/ OtherChildExits \/ ChildReady \/ WaitPid \/ ChildHandled
  \/ ServerStart \/ ServerReady \/ ServerLost \/ ScheduleWake \/ WakeXwm
  \/ Terminate \/ Shutdown \/ Done

(* The loop runs its timers, idle callbacks and descriptors, and leaves when it
   is told to.  Nothing is assumed of Xwayland or of the children. *)
Fairness ==
  /\ WF_vars(Main) /\ WF_vars(Timeout) /\ WF_vars(StartSession)
  /\ WF_vars(ChildReady) /\ WF_vars(WaitPid) /\ WF_vars(ChildHandled) /\ WF_vars(Shutdown)

Spec == Init /\ [][Next]_vars /\ Fairness
-----------------------------------------------------------------------------
(* Properties.                                                             *)

(* Every variable has its type. *)
TypeOK ==
  /\ opt \in [xwayland : BOOLEAN, binding : BOOLEAN]
  /\ phase \in {"init", "run", "down"}
  /\ quit \in BOOLEAN /\ ready \in BOOLEAN /\ wake \in BOOLEAN
  /\ scheduled \in BOOLEAN /\ waiting \in BOOLEAN /\ timeout \in BOOLEAN
  /\ pid \in BOOLEAN /\ notice \in BOOLEAN
  /\ server \in {"idle", "starting", "up", "dead"}
  /\ gen \in 0..MaxServers /\ conn \in 0..gen /\ hook \in 0..gen
  /\ start \in 0..1 /\ spawns \in Nat
  /\ session \in {"none", "running", "zombie", "reaped", "killed"}
  /\ pc \in {"loop", "wait", "ended", "other"}
  /\ children \in 0..MaxChildren

(* The session is started at most once, whether Xwayland becomes ready before,
   after or at the same time as the timeout, or again after a crash
   (schedule_session_start).  The state keeps its types meanwhile. *)
StartedOnce == TypeOK /\ spawns + start <= 1

(* The connection to the X server, and the idle callback that uses it, belong to
   the server that is running, never to one that crashed or is being restarted
   (xwayland_forget_connection), and the listener that notices the loss of a
   server watches this one, also after a restart from within the loss of the
   previous one. *)
ConnectionIsCurrent ==
  /\ conn # 0 => conn = gen /\ server = "up"
  /\ wake => conn # 0
  /\ hook = (IF server \in {"starting", "up"} THEN gen ELSE 0)

(* The session process does not outlive the compositor, even when it was started
   by an idle callback that ran after the termination request. *)
SessionEndsWithCompositor == phase = "down" => session # "running"

(* A session is started (or its start has failed) although Xwayland may never
   become ready, unless the compositor is told to quit. *)
SessionStarts == (phase = "run") ~> (spawns > 0 \/ quit)

(* The end of the session is noticed whenever it happens, also between emptying
   the pipe and asking for the status, and ends the compositor. *)
SessionEndNoticed == (session = "zombie") ~> (phase = "down" \/ (session = "reaped" /\ ~opt.binding))

(* The session begins, and its end is noticed. *)
BeginAndEnd == SessionStarts /\ SessionEndNoticed
=============================================================================
