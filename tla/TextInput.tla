------------------------------ MODULE TextInput ------------------------------
(***************************************************************************)
(* The relay between text inputs and the input method                      *)
(* (src/input/text_input.c, text_input_v1.c, text_input_v2.c).             *)
(*                                                                         *)
(* Clients create text inputs of three protocol versions.  When the focus  *)
(* of the seat moves, the text inputs of the old surface are left and      *)
(* those of the new one entered; a client that has been entered enables    *)
(* its text input, which activates the input method.  The input method is  *)
(* a process of its own that may go away and come back: meanwhile the      *)
(* relay keeps the surface to enter, and the text input to activate it     *)
(* for, as pending.                                                        *)
(*                                                                         *)
(* The relay with its text inputs is a record and each C function an       *)
(* operator from record to record.  Events reach a client in order, after  *)
(* any delay: r.queue[t] holds a surface for an enter, None for a leave.   *)
(***************************************************************************)
EXTENDS Integers, SequencesExt

CONSTANTS Inputs,        \* the text inputs
          Surfaces,      \* the surfaces
          Owner,         \* the client of each of them
          Version,       \* the protocol version of each text input: 1, 2 or 3
          None,          \* no surface
          NoInput,       \* no text input
          MaxFocus,      \* bound: focus changes
          MaxStarts,     \* bound: starts of the input method
          MaxCreated,    \* bound: text inputs created
          MaxDestroyed   \* bound: surfaces destroyed

VARIABLE r

ASSUME TextInputAssumption ==
    /\ Version \in [Inputs -> 1 .. 3]
    /\ None \notin Surfaces /\ NoInput \notin Inputs

\* Set one entry of a text input back.
Clear(f, t) == [f EXCEPT ![t] = None]

\* The first text input of the list with a surface in f, as a sequence.
First(o, f) ==
    LET s == SelectSeq(o.inputs, LAMBDA t : f[t] # None)
    IN SubSeq(s, 1, IF s = <<>> THEN 0 ELSE 1)

\* relay_get_focused_text_input: it gets what the input method types
FocusedInput(o) == First(o, o.surface)

-----------------------------------------------------------------------------
(***************************************************************************)
(* Events to the clients.  An assertion that fails ends the compositor.    *)
(***************************************************************************)
Asserted(o, t, holds) ==
    IF holds \/ o.aborted # NoInput THEN o ELSE [o EXCEPT !.aborted = t]

\* text_input_send_leave
SendLeave(o, t) ==
    [Asserted(o, t, o.surface[t] # None \/ Version[t] = 1) EXCEPT
        !.surface = Clear(@, t),
        !.queue[t] = Append(@, None)]

\* text_input_send_enter: only version 3 takes the surface from the event, the
\* others have it from the client's request
SendEnter(o, t, s) ==
    LET n == CASE Version[t] = 3 -> [Asserted(o, t, o.surface[t] = None) EXCEPT
                                        !.surface[t] = s]
               [] Version[t] = 2 -> o
               [] Version[t] = 1 -> Asserted(o, t, o.surface[t] = s)
    IN [n EXCEPT !.queue[t] = Append(@, s)]

-----------------------------------------------------------------------------
(***************************************************************************)
(* The relay.                                                              *)
(***************************************************************************)

\* relay_disable_text_input
RelayDisable(o) == IF o.im THEN [o EXCEPT !.active = FALSE] ELSE o

\* handle_text_input_enable
HandleEnable(o, t) ==
    IF o.im THEN [o EXCEPT !.active = TRUE] ELSE [o EXCEPT !.pendingEnabled = t]

\* A mutant: the text input to activate for stays.
NotPending_Kept(o, t) == o

NotPending(o, t) ==
    [o EXCEPT !.pendingEnabled = IF @ = t THEN NoInput ELSE @]

\* A mutant: a text input that has been left is disabled like any other.
HandleDisable_Left(o, t) == RelayDisable(NotPending(o, t))

\* handle_text_input_disable
HandleDisable(o, t) ==
    IF o.surface[t] = None THEN NotPending(o, t) ELSE RelayDisable(NotPending(o, t))

\* handle_text_input_destroy; r.cut notes that the input method was switched
\* off for a text input that is not the one in use
HandleDestroy(o, t) ==
    LET n == NotPending(IF o.enabled[t] THEN RelayDisable(o) ELSE o, t)
    IN [n EXCEPT !.pending = Clear(@, t),
                 !.surface = Clear(@, t),
                 !.inside  = Clear(@, t),
                 !.enabled[t] = FALSE,
                 !.queue[t] = <<>>,
                 !.inputs = Remove(@, t),
                 !.cut = @ \/ (o.enabled[t] /\ o.surface[t] # o.focus)]

\* text_input_match_surface
Match(o, t, s) == Owner[t] = Owner[s] /\ (Version[t] = 1 => o.surface[t] = s)

EnterOrKeep(o, t, s) ==
    IF s = None THEN o
    ELSE IF ~Match(o, t, s) THEN o
    ELSE IF o.im THEN SendEnter(o, t, s)
    ELSE [o EXCEPT !.pending[t] = s]

\* A mutant: a text input that is focused is passed over.
FocusOne_Passed(o, t, s) == IF o.surface[t] # None THEN o ELSE EnterOrKeep(o, t, s)

\* One round of the loop of input_method_set_focus.
FocusOne(o, t, s) ==
    IF o.pending[t] # None
    THEN EnterOrKeep(IF s # o.pending[t] THEN [o EXCEPT !.pending = Clear(@, t)] ELSE o, t, s)
    ELSE IF o.surface[t] = None THEN EnterOrKeep(o, t, s)
    ELSE IF o.surface[t] = s THEN o
    ELSE EnterOrKeep(SendLeave(RelayDisable(o), t), t, s)

\* input_method_set_focus
SetFocus(o, s) == FoldLeft(LAMBDA p, t : FocusOne(p, t, s), o, o.inputs)

\* A mutant: the entered surface stays pending.
ImStarted_Kept(o) ==
    FoldLeft(LAMBDA p, t : SendEnter(p, t, o.pending[t]),
             [o EXCEPT !.im = TRUE, !.active = o.pendingEnabled # NoInput,
                       !.pendingEnabled = NoInput],
             First(o, o.pending))

\* handle_new_input_method: of the pending text inputs the first is entered
ImStarted(o) ==
    LET n == [o EXCEPT !.im = TRUE, !.active = o.pendingEnabled # NoInput,
                       !.pendingEnabled = NoInput]
    IN FoldLeft(LAMBDA p, t : [SendEnter(p, t, o.pending[t]) EXCEPT !.pending = Clear(@, t)],
                n, First(o, o.pending))

\* A mutant: the surface is not kept for the next input method.
ImStopped_Forgets(o) ==
    FoldLeft(SendLeave, [o EXCEPT !.im = FALSE, !.active = FALSE], FocusedInput(o))

\* handle_input_method_destroy: the first focused text input is left, and its
\* surface kept
ImStopped(o) ==
    FoldLeft(LAMBDA p, t : SendLeave([p EXCEPT !.pending[t] = o.surface[t]], t),
             [o EXCEPT !.im = FALSE, !.active = FALSE], FocusedInput(o))

-----------------------------------------------------------------------------
(***************************************************************************)
(* Requests of the clients.                                                *)
(***************************************************************************)

\* text_input_enable of versions 1 and 2 takes the surface as it comes; the
\* commit of version 3 signals a change of the enabled state only.  r.stray
\* notes a request that comes after the focus has moved on.
EnableRequest(o, t, s) ==
    IF Version[t] = 3
    THEN IF o.enabled[t] THEN o ELSE HandleEnable([o EXCEPT !.enabled[t] = TRUE], t)
    ELSE HandleEnable([o EXCEPT !.enabled[t] = TRUE, !.surface[t] = s,
                                !.stray = IF s # o.focus THEN @ \cup {t} ELSE @], t)

\* text_input_disable and text_input_deactivate
DisableRequest(o, t, s) ==
    LET n == HandleDisable([o EXCEPT !.enabled[t] = FALSE], t)
    IN CASE Version[t] = 3 -> n
         [] Version[t] = 2 /\ o.surface[t] \notin {None, s} -> o
         [] OTHER -> [n EXCEPT !.surface = Clear(@, t)]

-----------------------------------------------------------------------------
Init ==
    r = [inputs         |-> <<>>,
         surface        |-> [t \in Inputs |-> None],
         pending        |-> [t \in Inputs |-> None],
         enabled        |-> [t \in Inputs |-> FALSE],
         queue          |-> [t \in Inputs |-> <<>>],
         inside         |-> [t \in Inputs |-> None],
         im             |-> FALSE,
         active         |-> FALSE,
         pendingEnabled |-> NoInput,
         alive          |-> Surfaces,
         focus          |-> None,
         last           |-> None,
         aborted        |-> NoInput,
         fresh          |-> {},
         stray          |-> {},
         cut            |-> FALSE,
         focused        |-> 0,
         started        |-> 0,
         created        |-> 0]

Running == r.aborted = NoInput

Exists(t) == t \in Range(r.inputs)

\* handle_new_text_input: a new text input is not entered before the next
\* change of the focus
NewInput(t) ==
    /\ Running /\ ~Exists(t) /\ r.created < MaxCreated
    /\ r' = [r EXCEPT !.inputs = <<t>> \o @, !.fresh = @ \cup {t},
                      !.created = @ + 1]

DestroyInput(t) ==
    /\ Running /\ Exists(t)
    /\ r' = HandleDestroy(r, t)

\* seat_focus_surface; a text input enabled while its surface was pending is not
\* left (r.stray)
FocusSurface(s) ==
    /\ Running /\ r.focused < MaxFocus
    /\ r' = [SetFocus(r, s) EXCEPT
                !.focus = s,
                !.last = IF s = r.focus THEN @ ELSE r.focus,
                !.fresh = {},
                !.stray = {t \in Inputs : r.pending[t] # None /\ r.surface[t] \notin {None, s}},
                !.cut = (s = r.focus /\ @) \/ r.stray # {},
                !.focused = @ + 1]

\* The client has disabled its text input there; one of version 1 goes with
\* its surface.
DestroySurface(s) ==
    LET old == SelectSeq(r.inputs, LAMBDA t : Version[t] = 1 /\ r.surface[t] = s)
        n   == FoldLeft(HandleDestroy, r, old)
        Off(f) == [t \in Inputs |-> IF f[t] = s THEN None ELSE f[t]]
    IN /\ Running /\ s \in r.alive
       /\ Cardinality(Surfaces \ r.alive) < MaxDestroyed
       /\ \A t \in Inputs : Version[t] > 1 /\ r.enabled[t] => Owner[t] # Owner[s]
       /\ r' = [n EXCEPT !.alive = @ \ {s},
                         !.surface = Off(@), !.pending = Off(@), !.inside = Off(@),
                         !.queue = [t \in Inputs |-> SelectSeq(@[t], LAMBDA x : x # s)],
                         !.focus = IF @ = s THEN None ELSE @,
                         !.last  = IF @ = s THEN None ELSE @]

\* An input method is accepted when there is none.
StartInputMethod ==
    /\ Running /\ ~r.im /\ r.started < MaxStarts
    /\ r' = [ImStarted(r) EXCEPT !.started = @ + 1]

StopInputMethod ==
    /\ Running /\ r.im
    /\ r' = ImStopped(r)

\* A client enables a text input: version 3 where it has been told of an enter,
\* the others for a surface that has the focus or has just had it.
Enable(t, s) ==
    /\ Running /\ Exists(t) /\ Owner[t] = Owner[s]
    /\ IF Version[t] = 3 THEN r.inside[t] = s
       ELSE s \in {r.focus, r.last} /\ (Version[t] = 1 => ~r.enabled[t])
    /\ r' = [EnableRequest(r, t, s) EXCEPT
                !.cut = @ \/ (~r.im /\ r.pendingEnabled \notin {NoInput, t})]

Disable(t, s) ==
    /\ Running /\ Exists(t) /\ r.enabled[t] /\ Owner[t] = Owner[s]
    /\ r' = DisableRequest(r, t, s)

\* A client gets the next event; it disables what it is told to leave.
Deliver(t) ==
    LET e == Head(r.queue[t])
        n == [r EXCEPT !.queue[t] = Tail(@), !.inside[t] = e]
    IN /\ Running /\ r.queue[t] # <<>>
       /\ r' = IF e = None /\ r.enabled[t]
               THEN DisableRequest(n, t, r.surface[t])
               ELSE n

Next ==
    \/ \E t \in Inputs : NewInput(t) \/ DestroyInput(t) \/ Deliver(t)
    \/ \E t \in Inputs, s \in r.alive : Enable(t, s) \/ Disable(t, s)
    \/ \E s \in r.alive \cup {None} : FocusSurface(s)
    \/ \E s \in r.alive : DestroySurface(s)
    \/ StartInputMethod
    \/ StopInputMethod

Spec == Init /\ [][Next]_r

-----------------------------------------------------------------------------
(***************************************************************************)
(* Properties.                                                             *)
(***************************************************************************)

\* Pointers are to what exists: surfaces, and text inputs of the list.
TypeOK ==
    /\ IsInjective(r.inputs) /\ Range(r.inputs) \subseteq Inputs
    /\ r.surface \in [Inputs -> r.alive \cup {None}]
    /\ r.pending \in [Inputs -> r.alive \cup {None}]
    /\ r.pendingEnabled \in Range(r.inputs) \cup {NoInput}
    /\ r.focus \in r.alive \cup {None}
    /\ r.active => r.im
    /\ r.im => r.pendingEnabled = NoInput
    /\ \A t \in Inputs \ Range(r.inputs) : r.surface[t] = None /\ r.pending[t] = None

\* What the input method types goes to the surface that has the focus, and the
\* surface kept for its return is that one, whatever focus changes, restarts
\* of the input method and late answers came in between.  Only a text input of
\* version 1 or 2 that is enabled after the focus has moved on, or before an
\* input method has come, is elsewhere.
TextToFocus ==
    \A t \in Inputs \ r.stray :
        {r.surface[t], r.pending[t]} \subseteq {r.focus, None}

\* With an input method, the text input of the focused client is told so, even
\* when the input method came, or came back, after the focus.
FocusIsEntered ==
    \A t \in Range(r.inputs) \ r.fresh :
        Version[t] = 3 /\ r.im /\ r.focus # None /\ Running
            => (Owner[t] = Owner[r.focus] => r.surface[t] = r.focus)

\* Once the clients have seen all events, the input method is active when the
\* text input of the focused surface is enabled.
EnabledIsServed ==
    \A t \in Inputs :
        /\ r.im /\ Running /\ ~r.cut /\ r.stray = {}
        /\ r.enabled[t] /\ r.surface[t] # None /\ r.surface[t] = r.focus
        /\ \A u \in Inputs : r.queue[u] = <<>>
        => r.active

\* No enter or leave meets an assertion, except the enter of version 1, and no
\* text input or surface that is gone is pointed to (TypeOK).
AssertionsHold == TypeOK /\ (r.aborted # NoInput => Version[r.aborted] = 1)

\* The assertions of send_enter and send_leave hold.
NeverAborts == r.aborted = NoInput

=============================================================================
