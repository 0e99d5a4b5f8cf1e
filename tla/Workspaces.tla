----------------------------- MODULE Workspaces -----------------------------
(***************************************************************************)
(* The workspaces (src/view/workspace.c) and the windows' membership of    *)
(* them (src/view/view.c).                                                 *)
(*                                                                         *)
(* A window may be in several workspaces at once.  It has one view_proxy   *)
(* per workspace it is in, linked in a list of the view and in a list of   *)
(* the workspace, and the scene tree of the window hangs below exactly one *)
(* of them: view->current_proxy.  Only the trees of the current workspace  *)
(* are enabled, so a window is on screen when its current proxy is the one *)
(* of the current workspace.                                               *)
(*                                                                         *)
(* The manager is a record and each C function an operator from record to  *)
(* record.  A proxy is named by its workspace: m.proxies[v] is the list of *)
(* view v, m.stack[w] that of workspace w, topmost first.  A workspace is a *)
(* number never used again, so that a pointer to a destroyed one shows.    *)
(* Positions count from 1 here, from 0 in the code.                        *)
(***************************************************************************)
EXTENDS Integers, SequencesExt

CONSTANTS Views,            \* the windows
          ParentOf,         \* the parent of each window, or NoView
          NoView,
          InitialCount,     \* workspaces at the start
          MaxWorkspaces,    \* MAX_WORKSPACES
          MaxCreated        \* bound: workspaces created in all

VARIABLE m

\* One level of dialogs: the parent of a dialog has no parent.
ASSUME WorkspacesAssumption ==
    /\ ParentOf \in [Views -> Views \cup {NoView}]
    /\ \A v \in Views : ParentOf[v] # NoView => ParentOf[ParentOf[v]] = NoView
    /\ 0 < InitialCount /\ InitialCount <= MaxWorkspaces
    /\ InitialCount <= MaxCreated

Ids == 1 .. MaxCreated

\* The null workspace, and what a pointer read outside the array stands for.
NoWs == 0

Directions == {-1, 1}

Members(o) == Range(o.workspaces)

Position(o, w) == CHOOSE i \in DOMAIN o.workspaces : o.workspaces[i] = w

-----------------------------------------------------------------------------
(***************************************************************************)
(* The proxies of a view.                                                  *)
(***************************************************************************)

\* view_proxy_by_workspace
Proxied(o, v, w) == w \in Range(o.proxies[v])

ProxyCreate(o, v, w) ==
    [o EXCEPT !.proxies[v] = <<w>> \o @, !.stack[w] = <<v>> \o @]

ProxyDestroy(o, v, w) ==
    [o EXCEPT !.proxies[v] = Remove(@, w), !.stack[w] = Remove(@, v)]

SetCurrentProxy(o, v, w) == [o EXCEPT !.at[v] = w]

Unstick(o, v) == [o EXCEPT !.sticky = @ \ {v}, !.late = @ \ {v}]

\* The windows that go together, in the order in which they go: a modal dialog
\* takes its parent along.
Together(o, v) == IF v \in o.modal THEN <<ParentOf[v], v>> ELSE <<v>>

\* A mutant: a window is added to a workspace it is in already.
AddOne_Twice(o, v, w) ==
    IF w = o.current THEN SetCurrentProxy(ProxyCreate(o, v, w), v, w)
    ELSE ProxyCreate(o, v, w)

AddOne(o, v, w) ==
    IF Proxied(o, v, w) THEN o
    ELSE IF w = o.current THEN SetCurrentProxy(ProxyCreate(o, v, w), v, w)
    ELSE ProxyCreate(o, v, w)

\* view_add_workspace
AddWorkspace(o, v, w) ==
    FoldLeft(LAMBDA p, x : AddOne(p, x, w), o, Together(o, v))

\* view_add_all_workspace
AddAllWorkspaces(o, v) ==
    IF v \in o.sticky THEN o
    ELSE LET n == FoldLeft(LAMBDA p, w : AddWorkspace(p, v, w), o, o.workspaces)
         IN [n EXCEPT !.sticky = @ \cup {v}]

\* The last workspace of a window is never taken away: it is put in all.
RemoveOne(o, v, w) ==
    LET others == SelectSeq(o.proxies[v], LAMBDA x : x # w)
        n      == IF o.at[v] = w THEN SetCurrentProxy(o, v, Last(others)) ELSE o
    IN IF ~Proxied(o, v, w) THEN o
       ELSE IF others = <<>> THEN AddAllWorkspaces(o, v)
       ELSE Unstick(ProxyDestroy(n, v, w), v)

\* view_remove_workspace
RemoveWorkspace(o, v, w) ==
    FoldLeft(LAMBDA p, x : RemoveOne(p, x, w), o, Together(o, v))

SetOne(o, v, w) ==
    LET n == IF Proxied(o, v, w) THEN o ELSE ProxyCreate(o, v, w)
    IN Unstick(FoldLeft(LAMBDA p, x : ProxyDestroy(p, v, x), SetCurrentProxy(n, v, w),
                        SelectSeq(n.proxies[v], LAMBDA x : x # w)), v)

\* view_do_set_workspace
SetWorkspace(o, v, w) ==
    FoldLeft(LAMBDA p, x : SetOne(p, x, w), o, Together(o, v))

\* view_proxies_destroy, for a view that goes away
ProxiesDestroy(o, v) ==
    SetCurrentProxy(FoldLeft(LAMBDA p, x : ProxyDestroy(p, v, x), o, o.proxies[v]),
                    v, NoWs)

RaiseOne(o, v) ==
    [o EXCEPT !.stack = [w \in Ids |-> IF v \in Range(@[w])
                                       THEN <<v>> \o Remove(@[w], v) ELSE @[w]]]

\* view_raise_to_top: the parent, the window, and each window's dialogs
RaiseToTop(o, v) ==
    LET up    == IF ParentOf[v] = NoView THEN <<v>> ELSE <<ParentOf[v], v>>
        below == SetToSeq({d \in Views : ParentOf[d] = Head(up)} \ {v})
    IN FoldLeft(RaiseOne, o, <<Head(up)>> \o below \o Tail(up))

-----------------------------------------------------------------------------
(***************************************************************************)
(* The workspaces.                                                         *)
(***************************************************************************)

\* workspace_set_activated, to either value: the views hang below this one
Reparent(o, w) ==
    [o EXCEPT !.at = [v \in Views |-> IF Proxied(o, v, w) THEN w ELSE @[v]]]

\* A mutant: the views of the new workspace are not moved to it.
Activate_Unparented(o, w) ==
    IF w = o.current THEN o
    ELSE [Reparent(o, o.current) EXCEPT !.current = w]

\* workspace_activate
Activate(o, w) ==
    IF w = o.current THEN o
    ELSE [Reparent(Reparent(o, o.current), w) EXCEPT
            !.current = w,
            !.hidden  = {v \in @ : ~Proxied(o, v, w)}]

\* A mutant: a new workspace starts without windows.
AutoAddViews_None(o, w) == o

\* workspace_auto_add_views: the windows in all workspaces are looked for in
\* the first one
AutoAddViews(o, w) ==
    FoldLeft(LAMBDA p, v : AddWorkspace(p, v, w), o,
             SelectSeq(o.stack[Head(o.workspaces)], LAMBDA v : v \in o.sticky))

\* workspace_create at position i; a new workspace in front is itself the one
\* searched, and m.late notes the windows it has missed
Create(o, w, i) ==
    LET n == [o EXCEPT !.workspaces = InsertAt(@, i, w),
                       !.created    = w,
                       !.late       = IF i = 1 THEN o.sticky ELSE @]
    IN AutoAddViews(n, w)

\* The workspace that takes the views of w, once w is out of the array.
Heir(o, w) ==
    LET i == Position(o, w)
    IN RemoveAt(o.workspaces, i)[IF i > 1 THEN i - 1 ELSE 1]

\* A dialog that is moved to a takes its parent along before the parent's turn.
TakenAlong(o, v, w) ==
    \E d \in o.modal :
        /\ ParentOf[d] = v
        /\ \E i, j \in DOMAIN o.stack[w] : i < j /\ o.stack[w][i] = d /\ o.stack[w][j] = v

\* The windows whose current proxy is destroyed and not replaced: they are in
\* a already when their turn comes, and hang below w.
Torn(o, w, a) ==
    {v \in Range(o.stack[w]) :
        /\ o.at[v] = w
        /\ Proxied(o, v, a) \/ (a # o.current /\ TakenAlong(o, v, w))}

\* The windows of the current workspace that are taken to a, which is not shown.
TakenAway(o, w, a) ==
    {v \in Range(o.stack[w]) :
        a # o.current /\ Proxied(o, v, o.current) /\ ~Proxied(o, v, a)}

\* A mutant: the window stays below the proxy that is destroyed.
MoveView_Left(o, v, w, a) == ProxyDestroy(AddWorkspace(o, v, a), v, w)

MoveView(o, v, w, a) ==
    LET n == AddWorkspace(o, v, a)
    IN ProxyDestroy(IF Proxied(o, v, a) THEN n ELSE SetCurrentProxy(n, v, a), v, w)

\* A mutant: the destroyed workspace stays the current one.
Shown_Kept(o, w, a) == o

\* The first half of fix_workspace: another workspace is shown.
Shown(o, w, a) == IF o.current = w THEN Activate(o, a) ELSE o

\* fix_workspace and workspace_destroy.  m.torn and m.hidden note the windows
\* the move to another workspace does not do right by.
Destroy(o, w) ==
    LET a == Heir(o, w)
        n == Shown([o EXCEPT !.workspaces = SelectSeq(@, LAMBDA x : x # w)], w, a)
        k == FoldLeft(LAMBDA p, v : MoveView(p, v, w, a), n, n.stack[w])
    IN [k EXCEPT !.torn   = @ \cup Torn(n, w, a),
                 !.hidden = @ \cup TakenAway(n, w, a)]

\* workspace_set_position
SetPosition(o, w, i) ==
    [o EXCEPT !.workspaces = InsertAt(RemoveAt(@, Position(o, w)), i, w)]

\* workspace_switch_to: effect says whether the animation takes it on.  Past
\* either end there is nothing to show: the animation goes there and back, and
\* without it a pointer from outside the array is activated.
SwitchTo(o, i, effect) ==
    IF i \in DOMAIN o.workspaces THEN Activate(o, o.workspaces[i])
    ELSE IF effect THEN o
    ELSE [o EXCEPT !.current = NoWs, !.fell = TRUE]

-----------------------------------------------------------------------------
Init ==
    m = [workspaces |-> [i \in 1 .. InitialCount |-> i],
         created    |-> InitialCount,
         current    |-> 1,
         stack      |-> [w \in Ids |-> <<>>],
         proxies    |-> [v \in Views |-> <<>>],
         at         |-> [v \in Views |-> NoWs],
         sticky     |-> {},
         modal      |-> {},
         late       |-> {},
         torn       |-> {},
         hidden     |-> {},
         fell       |-> FALSE]

\* A freed proxy or a pointer from outside the array in use: what follows is
\* undefined, and not followed here.
Sound == m.torn = {} /\ ~m.fell

Open(v) == m.proxies[v] # <<>>

\* view_init: a new window is in the current workspace
OpenView(v) ==
    /\ Sound /\ ~Open(v)
    /\ ParentOf[v] # NoView => Open(ParentOf[v])
    /\ m' = SetWorkspace(m, v, m.current)

\* modal_create, as the dialog is mapped: it joins its parent everywhere
MapModal(v) ==
    /\ Sound /\ Open(v) /\ v \notin m.modal
    /\ ParentOf[v] # NoView /\ Open(ParentOf[v])
    /\ m' = FoldLeft(LAMBDA p, w : AddWorkspace(p, v, w), [m EXCEPT !.modal = @ \cup {v}],
                     m.proxies[ParentOf[v]])

\* view_destroy; the dialogs of the window have no parent any more
CloseView(v) ==
    /\ Sound /\ Open(v)
    /\ m' = [Unstick(ProxiesDestroy(m, v), v) EXCEPT
                !.modal  = {d \in @ \ {v} : ParentOf[d] # v},
                !.hidden = @ \ {v}]

\* kywc_view_activate: its workspace is shown, and it is raised
ActivateView(v) ==
    /\ Sound /\ Open(v)
    /\ m' = RaiseToTop(Activate(m, m.at[v]), v)

MoveToWorkspace(v, w) ==
    /\ Sound /\ Open(v)
    /\ m' = SetWorkspace(m, v, w)

EnterWorkspace(v, w) ==
    /\ Sound /\ Open(v)
    /\ m' = AddWorkspace(m, v, w)

LeaveWorkspace(v, w) ==
    /\ Sound /\ Open(v)
    /\ m' = RemoveWorkspace(m, v, w)

StickView(v) ==
    /\ Sound /\ Open(v)
    /\ m' = AddAllWorkspaces(m, v)

CreateWorkspace(i) ==
    /\ Sound /\ Len(m.workspaces) < MaxWorkspaces /\ m.created < MaxCreated
    /\ i \in 1 .. Len(m.workspaces) + 1
    /\ m' = Create(m, m.created + 1, i)

\* The protocols refuse to remove the only workspace.
DestroyWorkspace(w) ==
    /\ Sound /\ Len(m.workspaces) > 1
    /\ m' = Destroy(m, w)

MoveWorkspace(w, i) ==
    /\ Sound
    /\ m' = SetPosition(m, w, i)

\* A client's request, the task view, or a step of a swipe, which activates the
\* workspaces it uncovers and then its centre again.
ActivateWorkspace(w) ==
    /\ Sound
    /\ m' = Activate(m, w)

\* The shortcuts and gestures to the left and right, with the animation or
\* (disabled, or held by a swipe in progress) without it.
SwitchWorkspace(d, effect) ==
    /\ Sound
    /\ m' = SwitchTo(m, Position(m, m.current) + d, effect)

Next ==
    \/ \E v \in Views : OpenView(v) \/ MapModal(v) \/ CloseView(v) \/ ActivateView(v)
                        \/ StickView(v)
    \/ \E v \in Views, w \in Members(m) :
            MoveToWorkspace(v, w) \/ EnterWorkspace(v, w) \/ LeaveWorkspace(v, w)
    \/ \E i \in 1 .. MaxWorkspaces : CreateWorkspace(i)
    \/ \E w \in Members(m) : DestroyWorkspace(w) \/ ActivateWorkspace(w)
    \/ \E w \in Members(m), i \in DOMAIN m.workspaces : MoveWorkspace(w, i)
    \/ \E d \in Directions, effect \in BOOLEAN : SwitchWorkspace(d, effect)

Spec == Init /\ [][Next]_m

-----------------------------------------------------------------------------
(***************************************************************************)
(* Properties.                                                             *)
(***************************************************************************)

\* No window is twice in a list, the two lists of proxies name the same pairs,
\* no workspace is twice in the array and there are at most MAX_WORKSPACES.
TypeOK ==
    /\ Len(m.workspaces) \in 1 .. MaxWorkspaces
    /\ Members(m) \subseteq 1 .. m.created /\ IsInjective(m.workspaces)
    /\ m.current \in Ids \cup {NoWs}
    /\ m.at \in [Views -> Ids \cup {NoWs}]
    /\ m.sticky \subseteq {v \in Views : Open(v)} /\ m.modal \subseteq Views
    /\ \A v \in Views : IsInjective(m.proxies[v])
    /\ \A w \in Ids : IsInjective(m.stack[w])
    /\ \A v \in Views, w \in Ids : Proxied(m, v, w) <=> v \in Range(m.stack[w])

\* The current workspace is always one of the array, through creations,
\* removals and moves, until a switch past either end without the animation;
\* the proxies in the workspaces are those of the windows (TypeOK).
CurrentLives == TypeOK /\ (m.fell \/ m.current \in Members(m))

\* A window is always in some existing workspace, and in no other, and hangs
\* below the proxy of one it is in: no removal of a workspace loses it, except
\* one that finds it already in the workspace its windows go to.
WindowsSurvive ==
    \A v \in Views \ m.torn :
        /\ Range(m.proxies[v]) \subseteq Members(m)
        /\ Open(v) => Proxied(m, v, m.at[v])

\* A window that is in the current workspace is on screen: its tree hangs
\* below the proxy of the current workspace, not of another it is in too.
InCurrentIsShown ==
    \A v \in Views \ m.hidden :
        Sound /\ Proxied(m, v, m.current) => m.at[v] = m.current

\* A window in all workspaces stays in all of them while workspaces come, go
\* and move; only a workspace created in front of the others is missed.
StickyIsEverywhere ==
    \A v \in m.sticky \ m.late : Range(m.proxies[v]) = Members(m)

\* "current activated workspace": the manager's current pointer is a workspace.
CurrentIsWorkspace == m.current \in Members(m)

\* "move all views to activate workspace": a window of a destroyed workspace
\* hangs below a workspace it is in.
DestroyMovesAll == \A v \in Views : Open(v) => Proxied(m, v, m.at[v])

=============================================================================
