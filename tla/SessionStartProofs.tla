------------------------- MODULE SessionStartProofs -------------------------
(***************************************************************************)
(* Proofs about the start and the end of the session, for any number of    *)
(* Xwayland servers and of other children.                                 *)
(***************************************************************************)
EXTENDS SessionStart, TLAPS

(* TypeOK in three parts: flags, places in a life, numbers. *)
FlagsOK ==
  /\ quit \in BOOLEAN /\ ready \in BOOLEAN /\ wake \in BOOLEAN
  /\ scheduled \in BOOLEAN /\ waiting \in BOOLEAN /\ timeout \in BOOLEAN
  /\ pid \in BOOLEAN /\ notice \in BOOLEAN

PlacesOK ==
  /\ opt \in [xwayland : BOOLEAN, binding : BOOLEAN]
  /\ phase \in {"init", "run", "down"}
  /\ server \in {"idle", "starting", "up", "dead"}
  /\ session \in {"none", "running", "zombie", "reaped", "killed"}
  /\ pc \in {"loop", "wait", "ended", "other"}

NumbersOK ==
  /\ gen \in 0..MaxServers /\ conn \in 0..gen /\ hook \in 0..gen
  /\ start \in 0..1 /\ spawns \in Nat
  /\ children \in 0..MaxChildren

(* The three parts of the type invariant. *)
LEMMA TypeParts == TypeOK <=> FlagsOK /\ PlacesOK /\ NumbersOK
BY DEF TypeOK, FlagsOK, PlacesOK, NumbersOK

(* A start is counted, pending or done, only after schedule_session_start has
   set its flag, and there is no session without one. *)
StartIsFlagged ==
  /\ spawns + start <= 1
  /\ ~scheduled => spawns + start = 0
  /\ spawns = 0 => session = "none"

(* The connection exists exactly while the ready event of a server that runs has
   been handled, and a server that was started has a number. *)
ServerHasNumber ==
  /\ ready => conn # 0
  /\ server = "idle" => gen = 0
  /\ server \in {"starting", "up"} => gen # 0

(* The pid is known as long as the process runs: handle_child_ready forgets it
   only after the process was waited for. *)
PidIsKnown ==
  /\ session = "running" => pid
  /\ pc = "ended" => session = "reaped"

IInv ==
  /\ FlagsOK /\ PlacesOK /\ NumbersOK
  /\ StartIsFlagged /\ ServerHasNumber /\ PidIsKnown
  /\ ConnectionIsCurrent /\ SessionEndsWithCompositor

(* The compositor just started. *)
LEMMA InitIInv == Init => IInv
<1>1. Init => FlagsOK
  BY DEF Init, FlagsOK
<1>2. Init => PlacesOK
  BY DEF Init, PlacesOK
<1>3. Init => NumbersOK
  BY SessionStartAssumption DEF Init, NumbersOK
<1>4. Init => StartIsFlagged /\ PidIsKnown
  BY DEF Init, StartIsFlagged, PidIsKnown
<1>5. Init => ServerHasNumber
  BY DEF Init, ServerHasNumber
<1>6. Init => ConnectionIsCurrent /\ SessionEndsWithCompositor
  BY DEF Init, ConnectionIsCurrent, SessionEndsWithCompositor
<1> QED BY <1>1, <1>2, <1>3, <1>4, <1>5, <1>6 DEF IInv

(* The flags stay flags. *)
LEMMA StepFlags == FlagsOK /\ PlacesOK /\ [Next]_vars => FlagsOK'
<1> SUFFICES ASSUME FlagsOK, PlacesOK, [Next]_vars PROVE FlagsOK'
  OBVIOUS
<1> USE DEF FlagsOK, xvars, startVars, childVars
<1>1. CASE Main \/ Timeout \/ ServerReady
  BY <1>1 DEF Main, Timeout, ServerReady, WaitXwayland, ScheduleStart, InLoop
<1>2. CASE StartSession
  BY <1>2 DEF StartSession
<1>3. CASE SessionExits \/ OtherChildExits \/ ChildReady \/ WaitPid
  BY <1>3 DEF SessionExits, OtherChildExits, ChildReady, WaitPid
<1>4. CASE ChildHandled
  BY <1>4 DEF ChildHandled, PipeKept
<1>5. CASE ServerStart \/ ServerLost
  BY <1>5 DEF ServerStart, ServerLost, Started, ForgetConnection
<1>6. CASE ScheduleWake \/ WakeXwm \/ Terminate
  BY <1>6 DEF ScheduleWake, WakeXwm, Terminate
<1>7. CASE Shutdown
  BY <1>7 DEF Shutdown, ForgetConnection
<1>8. CASE Done \/ UNCHANGED vars
  BY <1>8 DEF Done, vars
<1> QED
  BY <1>1, <1>2, <1>3, <1>4, <1>5, <1>6, <1>7, <1>8 DEF Next

(* No step sends the server, the window manager or the session anywhere else. *)
LEMMA StepPlaces == PlacesOK /\ [Next]_vars => PlacesOK'
<1> SUFFICES ASSUME PlacesOK, [Next]_vars PROVE PlacesOK'
  OBVIOUS
<1> USE DEF PlacesOK, xvars, startVars, childVars
<1>1. CASE Main \/ Timeout \/ ServerReady
  BY <1>1 DEF Main, Timeout, ServerReady
<1>2. CASE StartSession \/ SessionExits \/ OtherChildExits
  BY <1>2 DEF StartSession, SessionExits, OtherChildExits
<1>3. CASE ChildReady \/ WaitPid \/ ChildHandled
  BY <1>3 DEF ChildReady, WaitPid, ChildHandled
<1>4. CASE ServerStart \/ ServerLost
  BY <1>4 DEF ServerStart, ServerLost, Started
<1>5. CASE ScheduleWake \/ WakeXwm \/ Terminate
  BY <1>5 DEF ScheduleWake, WakeXwm, Terminate
<1>6. CASE Shutdown
  BY <1>6 DEF Shutdown, Killed
<1>7. CASE Done \/ UNCHANGED vars
  BY <1>7 DEF Done, vars
<1> QED
  BY <1>1, <1>2, <1>3, <1>4, <1>5, <1>6, <1>7 DEF Next

(* The start of the session is scheduled once: schedule_session_start tests the
   flag it sets, so start is 0 whenever it adds to it. *)
LEMMA ScheduleOnce ==
  ASSUME NumbersOK, StartIsFlagged, ScheduleStart, UNCHANGED <<spawns, session>>
  PROVE  start' \in 0..1 /\ StartIsFlagged'
BY DEF NumbersOK, StartIsFlagged, ScheduleStart, startVars

(* Actions that leave the start and the number of spawns alone. *)
LEMMA NotStarted ==
  ASSUME NumbersOK, StartIsFlagged, UNCHANGED <<scheduled, start, spawns>>,
         spawns = 0 => session' = session
  PROVE  start' \in 0..1 /\ spawns' \in Nat /\ StartIsFlagged'
BY DEF NumbersOK, StartIsFlagged

(* Every step keeps the start of the session flagged. *)
LEMMA StepStart ==
  IInv /\ [Next]_vars => start' \in 0..1 /\ spawns' \in Nat /\ StartIsFlagged'
<1> SUFFICES ASSUME IInv, [Next]_vars
             PROVE  start' \in 0..1 /\ spawns' \in Nat /\ StartIsFlagged'
  OBVIOUS
<1>0. NumbersOK /\ StartIsFlagged
  BY DEF IInv
<1> USE DEF xvars, startVars, childVars
<1>1. CASE Main \/ Timeout \/ ServerReady
  <2>1. UNCHANGED <<spawns, session>>
    BY <1>1 DEF Main, Timeout, ServerReady
  <2>2. ScheduleStart \/ UNCHANGED <<scheduled, start>>
    BY <1>1 DEF Main, Timeout, ServerReady, WaitXwayland
  <2> QED BY <1>0, <2>1, <2>2, ScheduleOnce, NotStarted DEF NumbersOK
<1>2. CASE StartSession
  BY <1>0, <1>2 DEF StartSession, NumbersOK, StartIsFlagged
<1>3. CASE Shutdown
  BY <1>0, <1>3 DEF Shutdown, NumbersOK, StartIsFlagged, Killed
<1>4. CASE SessionExits \/ OtherChildExits \/ ChildReady \/ WaitPid \/ ChildHandled
  <2>1. UNCHANGED <<scheduled, start, spawns>>
    BY <1>4 DEF SessionExits, OtherChildExits, ChildReady, WaitPid, ChildHandled
  <2>2. spawns = 0 => session' = session
    BY <1>0, <1>4 DEF SessionExits, OtherChildExits, ChildReady, WaitPid, ChildHandled,
       StartIsFlagged
  <2> QED BY <1>0, <2>1, <2>2, NotStarted
<1>5. CASE ServerStart \/ ServerLost \/ ScheduleWake \/ WakeXwm \/ Terminate
  <2>1. UNCHANGED <<scheduled, start, spawns, session>>
    BY <1>5 DEF ServerStart, ServerLost, ScheduleWake, WakeXwm, Terminate
  <2> QED BY <1>0, <2>1, NotStarted
<1>6. CASE Done \/ UNCHANGED vars
  BY <1>0, <1>6, NotStarted DEF Done, vars
<1> QED
  BY <1>1, <1>2, <1>3, <1>4, <1>5, <1>6 DEF Next

(* What the Xwayland actions keep. *)
XOK ==
  /\ gen \in 0..MaxServers /\ conn \in 0..gen /\ hook \in 0..gen
  /\ ServerHasNumber /\ ConnectionIsCurrent

(* Every step keeps what is known of the X server. *)
LEMMA StepServer == IInv /\ [Next]_vars => XOK'
<1> SUFFICES ASSUME IInv, [Next]_vars PROVE XOK'
  OBVIOUS
<1>0. XOK /\ FlagsOK /\ PlacesOK
  BY DEF IInv, XOK, NumbersOK
<1> USE SessionStartAssumption DEF XOK, ServerHasNumber, ConnectionIsCurrent
<1>1. CASE UNCHANGED xvars
  BY <1>0, <1>1 DEF xvars
<1>2. CASE ServerStart
  BY <1>0, <1>2 DEF ServerStart, Started, Watched, ForgetConnection
<1>3. CASE ServerReady
  BY <1>0, <1>3 DEF ServerReady
<1>4. CASE ServerLost
  BY <1>0, <1>4 DEF ServerLost, Started, Watched, ForgetConnection
<1>5. CASE ScheduleWake
  BY <1>0, <1>5 DEF ScheduleWake
<1>6. CASE WakeXwm
  BY <1>0, <1>6 DEF WakeXwm
<1>7. CASE Shutdown
  BY <1>0, <1>7 DEF Shutdown, ForgetConnection
<1>8. CASE Main \/ Timeout \/ StartSession \/ SessionExits \/ OtherChildExits \/ ChildReady
           \/ WaitPid \/ ChildHandled \/ Terminate \/ Done \/ UNCHANGED vars
  <2>1. UNCHANGED xvars
    BY <1>8 DEF Main, Timeout, StartSession, SessionExits, OtherChildExits, ChildReady,
       WaitPid, ChildHandled, Terminate, Done, vars, xvars
  <2> QED BY <1>1, <2>1
<1> QED
  BY <1>2, <1>3, <1>4, <1>5, <1>6, <1>7, <1>8 DEF Next

(* What is known of the process. *)
LEMMA StepSession ==
  IInv /\ [Next]_vars => PidIsKnown' /\ SessionEndsWithCompositor'
<1> SUFFICES ASSUME IInv, [Next]_vars
             PROVE  PidIsKnown' /\ SessionEndsWithCompositor'
  OBVIOUS
<1>0. PidIsKnown /\ SessionEndsWithCompositor /\ PlacesOK /\ StartIsFlagged /\ NumbersOK
  BY DEF IInv
<1> USE DEF PidIsKnown, SessionEndsWithCompositor, childVars
<1>1. CASE Main \/ Timeout \/ ServerReady
  BY <1>0, <1>1 DEF Main, Timeout, ServerReady
<1>2. CASE StartSession
  <2>1. spawns = 0
    BY <1>0, <1>2 DEF StartSession, StartIsFlagged, NumbersOK
  <2>2. session = "none" /\ pc = "loop" /\ phase = "run"
    BY <1>0, <1>2, <2>1 DEF StartSession, StartIsFlagged, InLoop
  <2> QED BY <1>2, <2>2 DEF StartSession
<1>3. CASE SessionExits \/ OtherChildExits
  BY <1>0, <1>3 DEF SessionExits, OtherChildExits
<1>4. CASE ChildReady \/ WaitPid
  BY <1>0, <1>4 DEF ChildReady, WaitPid
<1>5. CASE ChildHandled
  BY <1>0, <1>5 DEF ChildHandled
<1>6. CASE ServerStart \/ ServerLost \/ ScheduleWake \/ WakeXwm \/ Terminate
  BY <1>0, <1>6 DEF ServerStart, ServerLost, ScheduleWake, WakeXwm, Terminate
<1>7. CASE Shutdown
  BY <1>0, <1>7 DEF Shutdown, Killed, InLoop
<1>8. CASE Done \/ UNCHANGED vars
  BY <1>0, <1>8 DEF Done, vars
<1> QED
  BY <1>1, <1>2, <1>3, <1>4, <1>5, <1>6, <1>7, <1>8 DEF Next

(* Every step keeps what is known of the children. *)
LEMMA StepChildren ==
  children \in 0..MaxChildren /\ [Next]_vars => children' \in 0..MaxChildren
<1> SUFFICES ASSUME children \in 0..MaxChildren, [Next]_vars
             PROVE  children' \in 0..MaxChildren
  OBVIOUS
<1>1. CASE OtherChildExits
  BY <1>1, SessionStartAssumption DEF OtherChildExits
<1>2. CASE ~OtherChildExits
  BY <1>2 DEF Next, Main, Timeout, StartSession, SessionExits, ChildReady, WaitPid,
     ChildHandled, ServerStart, ServerReady, ServerLost, ScheduleWake, WakeXwm,
     Terminate, Shutdown, Done, vars, childVars
<1> QED BY <1>1, <1>2

(* Every step keeps the invariant. *)
LEMMA StepIInv == IInv /\ [Next]_vars => IInv'
<1> SUFFICES ASSUME IInv, [Next]_vars PROVE IInv'
  OBVIOUS
<1>1. FlagsOK' /\ PlacesOK'
  BY StepFlags, StepPlaces DEF IInv
<1>2. start' \in 0..1 /\ spawns' \in Nat /\ StartIsFlagged'
  BY StepStart
<1>3. XOK'
  BY StepServer
<1>4. children' \in 0..MaxChildren
  BY StepChildren DEF IInv, NumbersOK
<1>5. NumbersOK'
  BY <1>2, <1>3, <1>4 DEF NumbersOK, XOK
<1>6. PidIsKnown' /\ SessionEndsWithCompositor'
  BY StepSession
<1> QED BY <1>1, <1>2, <1>3, <1>5, <1>6 DEF IInv, XOK

(* The inductive invariant. *)
THEOREM IInvHolds == Spec => []IInv
BY InitIInv, StepIInv, PTL DEF Spec

(* The session is started at most once, whatever order the readiness of Xwayland,
   the timeout and restarts come in (schedule_session_start), and the state keeps
   its types. *)
THEOREM SessionStartedOnce == Spec => []StartedOnce
<1>1. IInv => StartedOnce
  BY TypeParts DEF IInv, StartedOnce, StartIsFlagged
<1> QED BY <1>1, IInvHolds, PTL

(* The X connection, the pending wake-up and the listener for the loss of the
   server belong to the server that is running (xwayland_forget_connection),
   however often it is restarted. *)
THEOREM ConnectionStaysCurrent == Spec => []ConnectionIsCurrent
<1>1. IInv => ConnectionIsCurrent
  BY DEF IInv
<1> QED BY <1>1, IInvHolds, PTL

(* main leaves no running session behind when the compositor ends. *)
THEOREM NoSessionLeftBehind == Spec => []SessionEndsWithCompositor
<1>1. IInv => SessionEndsWithCompositor
  BY DEF IInv
<1> QED BY <1>1, IInvHolds, PTL
=============================================================================
