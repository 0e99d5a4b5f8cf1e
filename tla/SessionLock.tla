---------------------------- MODULE SessionLock ----------------------------
(***************************************************************************)
(* The session lock (ext-session-lock-v1) of src/src/view/session_lock.c.  *)
(*                                                                         *)
(* A lock client asks for the session to be locked.  The compositor covers *)
(* every enabled output with a black tree in the top layer and sends the   *)
(* locked event once each of them has presented a frame rendered since.    *)
(* If the client disappears later the lock is kept, abandoned, and a timer *)
(* asks the display manager for a new client, which replaces the lock.     *)
(*                                                                         *)
(* An output is modelled by what it takes to judge the locked event: the   *)
(* frames it has in flight, what they show, and what is on its screen.     *)
(* Commit sequence numbers are reduced to the one comparison the code      *)
(* makes: a frame in flight is marked when its number is the one that      *)
(* previous_commit_seq holds.                                              *)
(***************************************************************************)
EXTENDS Naturals, Sequences

CONSTANTS
  Outputs,      \* the connectors
  NoOutput,     \* NULL for a surface, which is named by its output
  NoLock,       \* NULL manager->lock
  MaxAttempts,  \* LOCK_RECOVERY_MAX_ATTEMPTS
  MaxInFlight,  \* frames a backend has in flight: 1 with DRM, fbdev, headless
  MaxPlugs      \* bound: how often outputs are added, enabled or removed

ASSUME SessionLockAssumption ==
  /\ NoOutput \notin Outputs
  /\ {"none", "view"} \cap Outputs = {}
  /\ NoLock \notin [abandoned : BOOLEAN, locked : BOOLEAN, focused : Outputs \cup {NoOutput}]
  /\ MaxAttempts \in Nat \ {0}
  /\ MaxInFlight \in Nat \ {0}
  /\ MaxPlugs \in Nat

VARIABLES
  out,      \* output -> "absent", "off" or "on" (base.state.enabled)
  flight,   \* output -> frames committed and not yet presented, oldest first
  screen,   \* output -> what is visible: "blank", "session" or "lock"
  damaged,  \* output -> a frame is needed: damage, or needs_frame
  lock,     \* manager->lock: NoLock or [abandoned, locked, focused]
  lo,       \* output -> its session_lock_output, or NoCover
  kb,       \* keyboard focus of a seat: "none", "view" or a lock surface
  timer,    \* [armed, attempts]: the recovery timer
  up,       \* the manager exists
  plugs,    \* bound: output changes so far
  secured   \* history: locked was sent, and no unlock request since

outputVars == <<out, flight, screen, damaged, plugs>>
vars == <<out, flight, screen, damaged, lock, lo, kb, timer, up, plugs, secured>>

NoCover == [tree |-> "none", surface |-> "none", presented |-> FALSE]

(* A lock whose client is there: lock->protocol_lock is set. *)
Held == lock # NoLock /\ ~lock.abandoned

On == {o \in Outputs : out[o] = "on"}
Mapped(l) == {o \in Outputs : l[o].surface = "mapped"}

Init ==
  /\ out \in [Outputs -> {"absent", "on"}]
  /\ flight = [o \in Outputs |-> <<>>]
  /\ screen = [o \in Outputs |-> IF out[o] = "on" THEN "session" ELSE "blank"]
  /\ damaged = [o \in Outputs |-> FALSE]
  /\ lock = NoLock
  /\ lo = [o \in Outputs |-> NoCover]
  /\ kb \in {"none", "view"}
  /\ timer = [armed |-> FALSE, attempts |-> 0]
  /\ up = TRUE
  /\ plugs = 0
  /\ secured = FALSE
-----------------------------------------------------------------------------
(* Helpers.                                                                *)

(* Mutant: frames committed before the lock count as well. *)
Marked_Never(fs) == fs

(* previous_commit_seq = commit_seq: the last frame committed is the marked
   one, no other. *)
Marked(fs) == [i \in DOMAIN fs |-> [fs[i] EXCEPT !.previous = (i = Len(fs))]]

(* The loop of session_lock_try_send_locked over lock->outputs. *)
CanSend(st, l) ==
  \A o \in Outputs : l[o].tree # "none" /\ st[o] = "on" => l[o].presented

(* session_lock_try_send_locked; it is not reached while the lock is being
   destroyed. *)
TrySend(lk, st, l) ==
  IF ~lk.locked /\ ~lk.abandoned /\ CanSend(st, l)
  THEN [lk EXCEPT !.locked = TRUE]
  ELSE lk

(* session_lock_get_focus_surface with lock->focused = f: some mapped surface
   when f is not one; the code takes the first of its list. *)
FocusChoice(f, l) ==
  IF f \in Mapped(l) THEN {f}
  ELSE IF Mapped(l) # {} THEN Mapped(l) ELSE {NoOutput}

(* Mutant: a missing surface is passed on. *)
KbOf_Null(f) == f

(* The keyboard focus that seat_focus_surface gives for a lock surface. *)
KbOf(f) == IF f = NoOutput THEN "none" ELSE f

(* Mutant: the surface that goes away stays focused. *)
Refocused_Stale(removed, lk, l, s) == lk

(* refocus_surface: lock->focused after `removed` went away, s being the
   surface session_lock_get_focus_surface returned. *)
Refocused(removed, lk, l, s) ==
  IF lk.focused # removed THEN lk ELSE [lk EXCEPT !.focused = s]

(* The keyboard focus afterwards; wlroots clears it with the surface. *)
RefocusedKb(removed, lk, s) ==
  IF lk.focused = removed THEN KbOf(s) ELSE IF kb = removed THEN "none" ELSE kb

(* lock_output_create. *)
Cover(o) == [tree |-> IF out[o] = "on" THEN "enabled" ELSE "disabled",
             surface |-> "none", presented |-> FALSE]

-----------------------------------------------------------------------------
(* The lock client.                                                        *)

(* handle_new_lock.  A second lock is refused unless the first is abandoned;
   the abandoned one goes when the new one covers the outputs. *)
NewLock ==
  /\ up
  /\ ~Held
  /\ lo' = [o \in Outputs |-> IF o \in On THEN Cover(o) ELSE NoCover]
  /\ flight' = [o \in Outputs |-> IF o \in On THEN Marked(flight[o]) ELSE flight[o]]
  /\ damaged' = [o \in Outputs |-> o \in On \/ damaged[o]]
  /\ lock' = TrySend([abandoned |-> FALSE, locked |-> FALSE, focused |-> NoOutput], out, lo')
  /\ timer' = [armed |-> FALSE, attempts |-> 0]
  /\ kb' = KbOf(NoOutput)
  /\ secured' = (secured \/ lock'.locked)
  /\ UNCHANGED <<out, screen, up, plugs>>

(* handle_new_lock when an allocation fails: the covers created so far are
   destroyed again, which refocuses the seats. *)
NewLockFails ==
  /\ up
  /\ ~Held
  /\ kb' \in {kb, KbOf(NoOutput)}
  /\ UNCHANGED <<outputVars, lock, lo, timer, up, secured>>

(* handle_new_surface.  The protocol allows one surface per output; an output
   that is off gets its cover here. *)
NewSurface(o) ==
  /\ up
  /\ Held
  /\ out[o] # "absent"
  /\ lo[o].surface = "none"
  /\ lo' = [lo EXCEPT ![o] = [IF lo[o].tree = "none" THEN Cover(o) ELSE lo[o]
                              EXCEPT !.surface = "created"]]
  /\ flight' = [flight EXCEPT ![o] = IF lo[o].tree = "none" THEN Marked(@) ELSE @]
  /\ UNCHANGED <<out, screen, damaged, plugs, lock, kb, timer, up, secured>>

(* handle_surface_map: the first buffer of a lock surface is committed. *)
MapSurface(o) ==
  /\ up
  /\ lo[o].surface = "created"
  /\ lo' = [lo EXCEPT ![o].surface = "mapped"]
  /\ IF lock.focused = NoOutput
     THEN lock' = [lock EXCEPT !.focused = o] /\ kb' = o
     ELSE UNCHANGED <<lock, kb>>
  /\ damaged' = [damaged EXCEPT ![o] = @ \/ out[o] = "on"]
  /\ UNCHANGED <<out, flight, screen, plugs, timer, up, secured>>

(* handle_surface_destroy. *)
DestroySurface(o) ==
  /\ up
  /\ lo[o].surface # "none"
  /\ lo' = [lo EXCEPT ![o].surface = "none"]
  /\ \E s \in FocusChoice(NoOutput, lo') :
       lock' = Refocused(o, lock, lo', s) /\ kb' = RefocusedKb(o, lock, s)
  /\ damaged' = [damaged EXCEPT ![o] = @ \/ out[o] = "on"]
  /\ UNCHANGED <<out, flight, screen, plugs, timer, up, secured>>

(* lock_surface_click on the cover of an output. *)
Click(o) ==
  /\ up
  /\ lo[o].surface = "mapped"
  /\ lock' = [lock EXCEPT !.focused = o]
  /\ kb' = o
  /\ UNCHANGED <<outputVars, lo, timer, up, secured>>

(* session_lock_destroy(lock, true): the covers go, and the topmost view is
   activated if there is one. *)
Release ==
  /\ lock' = NoLock
  /\ lo' = [o \in Outputs |-> NoCover]
  /\ damaged' = [o \in Outputs |-> o \in On \/ damaged[o]]
  /\ kb' \in {"none", "view"}
  /\ UNCHANGED <<out, flight, screen, plugs, timer, up>>

(* handle_unlock; wlroots rejects the request before the locked event. *)
Unlock ==
  /\ up
  /\ Held /\ lock.locked
  /\ Release
  /\ secured' = FALSE

(* Mutant: the session is released whether or not locked was sent. *)
LockerGone_Releases ==
  /\ up
  /\ Held
  /\ Release
  /\ UNCHANGED secured

(* handle_lock_abandoned: the client disconnects, its surfaces go first. *)
LockerGone ==
  /\ up
  /\ Held
  /\ \/ /\ ~lock.locked
        /\ Release
        /\ UNCHANGED secured
     \/ /\ lock.locked
        /\ lock' = [abandoned |-> TRUE, locked |-> TRUE, focused |-> NoOutput]
        /\ lo' = [o \in Outputs |-> [lo[o] EXCEPT !.surface = "none"]]
        /\ damaged' = [o \in Outputs |-> o \in On \/ damaged[o]]
        /\ kb' = KbOf(NoOutput)
        /\ timer' = [armed |-> TRUE, attempts |-> 0]
        /\ UNCHANGED <<out, flight, screen, plugs, up, secured>>

(* Mutant: the limit is not looked at. *)
TimerArmed_Always(n) == TRUE

(* Mutant: one attempt is all there is. *)
TimerArmed_Never(n) == FALSE

(* Whether the timer is armed again after n attempts. *)
TimerArmed(n) == n < MaxAttempts

(* handle_lock_recovery_timer: asks for a replacement over D-Bus. *)
RecoveryTimer ==
  /\ up
  /\ timer.armed
  /\ timer' = IF lock = NoLock \/ Held
              THEN [armed |-> FALSE, attempts |-> 0]
              ELSE [armed |-> TimerArmed(timer.attempts + 1), attempts |-> timer.attempts + 1]
  /\ UNCHANGED <<outputVars, lock, lo, kb, up, secured>>

(* session_lock_manager_destroy, with the protocol manager or the server. *)
ManagerDestroy ==
  /\ up
  /\ up' = FALSE
  /\ lock' = NoLock
  /\ lo' = [o \in Outputs |-> NoCover]
  /\ kb' = IF lock = NoLock THEN kb ELSE KbOf(NoOutput)
  /\ timer' = [armed |-> FALSE, attempts |-> 0]
  /\ secured' = FALSE
  /\ UNCHANGED outputVars

(* seat_focus_surface called by another part of the compositor, for a view or
   for nothing (seat.c). *)
FocusRequest(v) ==
  /\ up
  /\ \/ lock = NoLock /\ kb' = v
     \/ lock # NoLock /\ \E s \in FocusChoice(lock.focused, lo) : kb' = KbOf(s)
  /\ UNCHANGED <<outputVars, lock, lo, timer, up, secured>>

-----------------------------------------------------------------------------
(* Outputs.                                                                *)

(* A connector is plugged in; its output starts disabled. *)
AddOutput(o) ==
  /\ up
  /\ out[o] = "absent"
  /\ plugs < MaxPlugs /\ plugs' = plugs + 1
  /\ out' = [out EXCEPT ![o] = "off"]
  /\ UNCHANGED <<flight, screen, damaged, lock, lo, kb, timer, up, secured>>

(* Mutant: the new output is left to the lock client. *)
NewOutput_Uncovered(o) == lo[o]

(* handle_new_output: the cover of an output that is switched on. *)
NewOutput(o) == [lo[o] EXCEPT !.tree = "enabled", !.presented = FALSE]

(* An output is switched on: the modeset shows a blank frame, then
   new_enabled_output reaches handle_new_output. *)
EnableOutput(o) ==
  /\ up
  /\ out[o] = "off"
  /\ plugs < MaxPlugs /\ plugs' = plugs + 1
  /\ out' = [out EXCEPT ![o] = "on"]
  /\ screen' = [screen EXCEPT ![o] = "blank"]
  /\ damaged' = [damaged EXCEPT ![o] = TRUE]
  /\ lo' = IF lock = NoLock THEN lo ELSE [lo EXCEPT ![o] = NewOutput(o)]
  /\ UNCHANGED <<flight, lock, kb, timer, up, secured>>

(* Mutant: locked is not tried again. *)
DisableOutput_NoRetry(o) ==
  /\ up
  /\ out[o] = "on"
  /\ out' = [out EXCEPT ![o] = "off"]
  /\ flight' = [flight EXCEPT ![o] = <<>>]
  /\ screen' = [screen EXCEPT ![o] = "blank"]
  /\ damaged' = [damaged EXCEPT ![o] = FALSE]
  /\ lo' = IF lo[o].tree = "none" THEN lo ELSE [lo EXCEPT ![o].tree = "disabled"]
  /\ UNCHANGED <<lock, secured, kb, timer, up, plugs>>

(* handle_output_disable for an output that is switched off. *)
DisableOutput(o) ==
  /\ up
  /\ out[o] = "on"
  /\ out' = [out EXCEPT ![o] = "off"]
  /\ flight' = [flight EXCEPT ![o] = <<>>]
  /\ screen' = [screen EXCEPT ![o] = "blank"]
  /\ damaged' = [damaged EXCEPT ![o] = FALSE]
  /\ lo' = IF lo[o].tree = "none" THEN lo ELSE [lo EXCEPT ![o].tree = "disabled"]
  /\ IF lo[o].tree = "none"
     THEN UNCHANGED <<lock, secured>>
     ELSE /\ lock' = TrySend(lock, out', lo')
          /\ secured' = (secured \/ lock'.locked)
  /\ UNCHANGED <<kb, timer, up, plugs>>

(* handle_output_disable for an output that is destroyed (lock_output_destroy). *)
DestroyOutput(o) ==
  /\ up
  /\ out[o] # "absent"
  /\ out' = [out EXCEPT ![o] = "absent"]
  /\ flight' = [flight EXCEPT ![o] = <<>>]
  /\ screen' = [screen EXCEPT ![o] = "blank"]
  /\ damaged' = [damaged EXCEPT ![o] = FALSE]
  /\ lo' = [lo EXCEPT ![o] = NoCover]
  /\ IF lo[o].tree = "none"
     THEN UNCHANGED <<lock, kb, secured>>
     ELSE LET removed == IF lo[o].surface = "none" THEN NoOutput ELSE o
          IN \E s \in FocusChoice(NoOutput, lo') :
               /\ lock' = TrySend(Refocused(removed, lock, lo', s), out', lo')
               /\ kb' = RefocusedKb(removed, lock, s)
               /\ secured' = (secured \/ lock'.locked)
  /\ UNCHANGED <<timer, up, plugs>>

(* A client or the cursor changes the scene. *)
Damage(o) ==
  /\ up
  /\ out[o] = "on"
  /\ ~damaged[o]
  /\ damaged' = [damaged EXCEPT ![o] = TRUE]
  /\ UNCHANGED <<out, flight, screen, plugs, lock, lo, kb, timer, up, secured>>

(* A frame is rendered and committed; without damage there is none. *)
Commit(o) ==
  /\ up
  /\ out[o] = "on" /\ damaged[o]
  /\ Len(flight[o]) < MaxInFlight
  /\ damaged' = [damaged EXCEPT ![o] = FALSE]
  /\ flight' = [flight EXCEPT ![o] = Append(@,
       [content |-> IF lo[o].tree = "enabled" THEN "lock" ELSE "session", previous |-> FALSE])]
  /\ UNCHANGED <<out, screen, plugs, lock, lo, kb, timer, up, secured>>

(* handle_output_present.  A frame that was not presented schedules another
   one, if it was one that counts. *)
Present(o, presented) ==
  /\ up
  /\ out[o] = "on"
  /\ flight[o] # <<>>
  /\ flight' = [flight EXCEPT ![o] = Tail(@)]
  /\ screen' = [screen EXCEPT ![o] = IF presented THEN Head(flight[o]).content ELSE @]
  /\ LET counts == lo[o].tree # "none" /\ ~lo[o].presented /\ ~Head(flight[o]).previous
     IN /\ damaged' = [damaged EXCEPT ![o] = @ \/ (counts /\ ~presented)]
        /\ IF counts /\ presented
           THEN /\ lo' = [lo EXCEPT ![o].presented = TRUE]
                /\ lock' = TrySend(lock, out, lo')
                /\ secured' = (secured \/ lock'.locked)
           ELSE UNCHANGED <<lo, lock, secured>>
  /\ UNCHANGED <<out, plugs, kb, timer, up>>
-----------------------------------------------------------------------------
LockerStep ==
  \/ NewLock \/ NewLockFails \/ Unlock \/ LockerGone
  \/ \E o \in Outputs : NewSurface(o) \/ MapSurface(o) \/ DestroySurface(o) \/ Click(o)

OutputStep ==
  \E o \in Outputs :
    \/ AddOutput(o) \/ EnableOutput(o) \/ DisableOutput(o) \/ DestroyOutput(o)
    \/ Damage(o) \/ Commit(o)
    \/ \E presented \in BOOLEAN : Present(o, presented)

Next ==
  \/ LockerStep
  \/ OutputStep
  \/ RecoveryTimer
  \/ ManagerDestroy
  \/ \E v \in {"none", "view"} : FocusRequest(v)

Spec == Init /\ [][Next]_vars

(* A damaged output gets its frame, a frame in flight is answered and is not
   discarded for ever, a timer fires.  Nothing else has to happen. *)
Fairness ==
  /\ \A o \in Outputs : /\ WF_vars(Commit(o))
                        /\ WF_vars(\E presented \in BOOLEAN : Present(o, presented))
                        /\ SF_vars(Present(o, TRUE))
  /\ WF_vars(RecoveryTimer)

FairSpec == Spec /\ Fairness
-----------------------------------------------------------------------------
(* Properties.                                                             *)

Covers == [tree : {"none", "disabled", "enabled"},
           surface : {"none", "created", "mapped"}, presented : BOOLEAN]

TypeOK ==
  /\ out \in [Outputs -> {"absent", "off", "on"}]
  /\ flight \in [Outputs -> Seq([content : {"session", "lock"}, previous : BOOLEAN])]
  /\ \A o \in Outputs : Len(flight[o]) <= MaxInFlight
  /\ screen \in [Outputs -> {"blank", "session", "lock"}]
  /\ damaged \in [Outputs -> BOOLEAN]
  /\ lock \in [abandoned : BOOLEAN, locked : BOOLEAN, focused : Outputs \cup {NoOutput}]
              \cup {NoLock}
  /\ lo \in [Outputs -> Covers]
  /\ kb \in {"none", "view"} \cup Outputs
  /\ timer \in [armed : BOOLEAN, attempts : 0..MaxAttempts]
  /\ up \in BOOLEAN
  /\ plugs \in 0..MaxPlugs
  /\ secured \in BOOLEAN

(* While a lock exists, abandoned or not, the cover of every enabled output
   is enabled, whatever outputs are plugged in, switched or removed, and
   whichever client replaces the first one. *)
OutputsCovered ==
  lock # NoLock => \A o \in On : lo[o].tree = "enabled"

(* Every enabled output is covered and, once the locked event is sent, shows
   something else than the session: not a frame that was in flight when the
   lock came, not an output switched on later. *)
LockedHidesSession ==
  /\ OutputsCovered
  /\ lock # NoLock => (lock.locked => \A o \in On : screen[o] # "session")

(* While a lock exists the keyboard is on a mapped lock surface, and on none
   only if there is none: no view receives a key, no lock screen that is
   visible is deaf, and what has the keyboard is there (TypeOK). *)
KeyboardOnLock ==
  /\ TypeOK
  /\ lock # NoLock =>
       /\ kb = KbOf(lock.focused)
       /\ IF Mapped(lo) = {} THEN lock.focused = NoOutput ELSE lock.focused \in Mapped(lo)

(* A lock whose locked event was sent goes away only on its client's unlock
   request or with the manager. *)
LockedOnlyUnlocked ==
  [][lock # NoLock /\ lock' = NoLock => ~lock.locked \/ Unlock \/ ManagerDestroy]_vars

(* "If the client dies while the session is locked, the compositor must not
   unlock the session in response" (ext-session-lock-v1), for the client that
   took over an abandoned lock as well. *)
SessionStaysLocked == secured => lock # NoLock

(* A lock request is answered: the locked event is sent, unless the client or
   the manager goes away first. *)
LockAnswered == lock # NoLock ~> (lock = NoLock \/ lock.locked)

(* An abandoned lock is replaced, or the attempts are used up. *)
RecoverySettles ==
  timer.armed ~> (~up \/ lock = NoLock \/ ~lock.abandoned \/ timer.attempts = MaxAttempts)

(* Neither a locker nor the user is kept waiting for good: requests are answered
   and an abandoned lock is settled, whatever outputs and clients do. *)
LockSettles == LockAnswered /\ RecoverySettles
=============================================================================
