---------------------------- MODULE DesktopProofs ----------------------------
(***************************************************************************)
(* The theorems about the desktop, for any windows, workspaces and lock    *)
(* elements.  The inductive invariant has three parts: Good, which the     *)
(* handlers keep on the way, and Focused, which they keep when they        *)
(* return; Desk, about the desktop's own variables; and Placed,            *)
(* OnlyCurrent and Excused, which relate the two.                          *)
(*                                                                         *)
(* First come the handlers of workspaces and windows.  Their state has     *)
(* four parts, and most leave some of them alone: how windows are linked,  *)
(* what is activated, which workspaces are enabled, what the pointer has   *)
(* grabbed.  The invariant of each part reads the window's workspace and   *)
(* its own part only.                                                      *)
(***************************************************************************)
EXTENDS DesktopProperties, ListsProofs

\* The states of workspaces and windows that handlers map to each other.
StateType ==
    [ws     : [Workspace -> WorkspaceState],
     win    : [Window -> WindowState],
     failed : Site \cup {NULL}]

-----------------------------------------------------------------------------
(* What two states have in common.                                         *)

SameWorkspaceOfWindows(s, t) ==
    \A w \in Window : t.win[w].workspace = s.win[w].workspace

SameLinks(s, t) ==
    /\ SameWorkspaceOfWindows(s, t)
    /\ t.failed = s.failed
    /\ \A w \in Window : t.win[w].fullscreen = s.win[w].fullscreen
    /\ \A k \in Workspace :
           /\ t.ws[k].windows = s.ws[k].windows
           /\ t.ws[k].window_container = s.ws[k].window_container
           /\ t.ws[k].fullscreen_container = s.ws[k].fullscreen_container

SameFormerly(s, t) ==
    \A k \in Workspace : t.ws[k].formerly = s.ws[k].formerly

SameActivation(s, t) ==
    /\ SameFormerly(s, t)
    /\ \A k \in Workspace : t.ws[k].activated = s.ws[k].activated
    /\ \A w \in Window : t.win[w].activated = s.win[w].activated

SameEnabled(s, t) ==
    \A k \in Workspace : t.ws[k].enabled = s.ws[k].enabled

SameGrab(s, t) ==
    /\ \A k \in Workspace :
           /\ t.ws[k].grab = s.ws[k].grab
           /\ t.ws[k].grabbed = s.ws[k].grabbed
    /\ \A w \in Window : t.win[w].resize_edges = s.win[w].resize_edges

-----------------------------------------------------------------------------
(* The invariant of each part of the state.                                *)

WindowsOf(s, k) == {w \in Window : s.win[w].workspace = k}

\* ContainersPartitionWindows and TaskListFollowsStacking of a workspace in a
\* state.
LinkedAt(s, k) ==
    /\ s.failed = NULL =>
           \A w \in Members(s.ws[k].fullscreen_container) : s.win[w].fullscreen
    /\ Unique(s.ws[k].windows)
    /\ Unique(s.ws[k].window_container)
    /\ Unique(s.ws[k].fullscreen_container)
    /\ Members(s.ws[k].windows) = WindowsOf(s, k)
    /\ Members(s.ws[k].window_container)
           \cup Members(s.ws[k].fullscreen_container) = WindowsOf(s, k)
    /\ Members(s.ws[k].window_container)
           \cap Members(s.ws[k].fullscreen_container) = {}
    /\ SameOrder(s.ws[k].windows, s.ws[k].window_container)

Linked(s) == \A k \in Workspace : LinkedAt(s, k)

\* Workspaces and windows agree on what is activated, what is activated is what
\* is to be activated again, and both are windows of the workspace.
Agreed(s) ==
    /\ \A w \in Window :
           s.win[w].activated <=> \E k \in Workspace : s.ws[k].activated = w
    /\ \A k \in Workspace :
           /\ s.ws[k].activated # NULL => s.ws[k].formerly = s.ws[k].activated
           /\ s.ws[k].formerly # NULL =>
                  s.win[s.ws[k].formerly].workspace = k

Active(s) ==
    /\ Agreed(s)
    /\ \A k \in Workspace : s.ws[k].activated # NULL => s.ws[k].enabled

\* GrabIsBalanced of a state, and the grabbed window is one of the workspace.
Held(s) ==
    /\ \A k \in Workspace :
           /\ s.ws[k].grab # "passthrough" <=> s.ws[k].grabbed # NULL
           /\ s.ws[k].grabbed # NULL => s.win[s.ws[k].grabbed].workspace = k
    /\ \A w \in Window : s.win[w].resize_edges # NULL =>
           \E k \in Workspace : s.ws[k].grab = "resize" /\ s.ws[k].grabbed = w

Good(s) == s \in StateType /\ Linked(s) /\ Active(s) /\ Held(s)

\* FocusIsNotLost of a state. A handler may break it on the way, and restores
\* it before it returns.
FocusedAt(s, k) ==
    s.ws[k].window_container # <<>> =>
        /\ s.ws[k].formerly # NULL
        /\ s.ws[k].enabled => s.ws[k].activated # NULL

Focused(s) == \A k \in Workspace : FocusedAt(s, k)

\* The workspaces but k are left alone.
SameOthers(s, k, t) == \A j \in Workspace : j # k => t.ws[j] = s.ws[j]

-----------------------------------------------------------------------------
(* An invariant depends on its own part of the state only.                 *)

LEMMA LinkedFrame ==
    ASSUME NEW s \in StateType, NEW t \in StateType, Linked(s), SameLinks(s, t)
    PROVE  Linked(t)
  <1> SUFFICES ASSUME NEW k \in Workspace PROVE LinkedAt(t, k)
    BY DEF Linked
  <1>1. WindowsOf(t, k) = WindowsOf(s, k)
    BY DEF SameLinks, SameWorkspaceOfWindows, WindowsOf
  <1>2. Members(s.ws[k].fullscreen_container) \subseteq Window
    BY MembersType DEF StateType, WorkspaceState
  <1>3. LinkedAt(s, k)
    BY DEF Linked
  <1> QED
    BY <1>1, <1>2, <1>3 DEF LinkedAt, SameLinks

LEMMA AgreedFrame ==
    ASSUME NEW s \in StateType, NEW t \in StateType, Agreed(s),
           SameActivation(s, t), SameWorkspaceOfWindows(s, t)
    PROVE  Agreed(t)
  <1>1. \A w \in Window :
            t.win[w].activated <=> \E k \in Workspace : t.ws[k].activated = w
    BY DEF Agreed, SameActivation
  <1>2. ASSUME NEW k \in Workspace
        PROVE  /\ t.ws[k].activated # NULL => t.ws[k].formerly = t.ws[k].activated
               /\ t.ws[k].formerly # NULL =>
                      t.win[t.ws[k].formerly].workspace = k
    <2>1. t.ws[k].formerly \in Window \cup {NULL}
      BY DEF StateType, WorkspaceState
    <2> QED
      BY <2>1 DEF Agreed, SameActivation, SameFormerly, SameWorkspaceOfWindows
  <1> QED
    BY <1>1, <1>2 DEF Agreed

LEMMA ActiveFrame ==
    ASSUME NEW s \in StateType, NEW t \in StateType, Active(s),
           SameActivation(s, t), SameEnabled(s, t), SameWorkspaceOfWindows(s, t)
    PROVE  Active(t)
  BY AgreedFrame DEF Active, SameActivation, SameEnabled

LEMMA HeldFrame ==
    ASSUME NEW s \in StateType, NEW t \in StateType, Held(s), SameGrab(s, t),
           SameWorkspaceOfWindows(s, t)
    PROVE  Held(t)
  <1>1. ASSUME NEW k \in Workspace
        PROVE  /\ t.ws[k].grab # "passthrough" <=> t.ws[k].grabbed # NULL
               /\ t.ws[k].grabbed # NULL =>
                      t.win[t.ws[k].grabbed].workspace = k
    <2>1. t.ws[k].grabbed \in Window \cup {NULL}
      BY DEF StateType, WorkspaceState
    <2> QED
      BY <2>1 DEF Held, SameGrab, SameWorkspaceOfWindows
  <1>2. \A w \in Window : t.win[w].resize_edges # NULL =>
            \E k \in Workspace : t.ws[k].grab = "resize" /\ t.ws[k].grabbed = w
    BY DEF Held, SameGrab
  <1> QED
    BY <1>1, <1>2 DEF Held

LEMMA FocusedFrame ==
    ASSUME NEW s, NEW t, Focused(s), SameLinks(s, t), SameActivation(s, t),
           SameEnabled(s, t)
    PROVE  Focused(t)
  BY DEF Focused, FocusedAt, SameLinks, SameActivation, SameFormerly, SameEnabled

LEMMA FocusedThere ==
    ASSUME NEW s, NEW k, NEW t, SameOthers(s, k, t), FocusedAt(t, k)
    PROVE  Focused(s) => Focused(t)
  BY DEF Focused, FocusedAt, SameOthers

\* All but what is activated.
SameElsewhere(s, t) == SameLinks(s, t) /\ SameEnabled(s, t) /\ SameGrab(s, t)

LEMMA SameElsewhereTwice ==
    ASSUME NEW s, NEW t, NEW u, SameElsewhere(s, t), SameElsewhere(t, u)
    PROVE  SameElsewhere(s, u)
  BY DEF SameElsewhere, SameLinks, SameWorkspaceOfWindows, SameEnabled, SameGrab

LEMMA SameElsewhereItself ==
    ASSUME NEW s PROVE SameElsewhere(s, s)
  BY DEF SameElsewhere, SameLinks, SameWorkspaceOfWindows, SameEnabled, SameGrab

-----------------------------------------------------------------------------
(* One workspace or one window gets another record.  What an operator does *)
(* is a relation of the states before and after it, which a proof expands  *)
(* where it needs it.                                                      *)

PutWs(s, k, r) == [s EXCEPT !.ws[k] = r]
PutWin(s, w, r) == [s EXCEPT !.win[w] = r]

WsChanged(s, k, r, t) ==
    /\ t \in StateType
    /\ t.win = s.win
    /\ t.failed = s.failed
    /\ t.ws[k] = r
    /\ \A j \in Workspace : j # k => t.ws[j] = s.ws[j]

WinChanged(s, w, r, t) ==
    /\ t \in StateType
    /\ t.ws = s.ws
    /\ t.failed = s.failed
    /\ t.win[w] = r
    /\ \A v \in Window : v # w => t.win[v] = s.win[v]

LEMMA PutWsEffect ==
    ASSUME NEW s \in StateType, NEW k \in Workspace, NEW r \in WorkspaceState
    PROVE  WsChanged(s, k, r, PutWs(s, k, r))
  BY DEF StateType, PutWs, WsChanged

LEMMA PutWinEffect ==
    ASSUME NEW s \in StateType, NEW w \in Window, NEW r \in WindowState
    PROVE  WinChanged(s, w, r, PutWin(s, w, r))
  BY DEF StateType, PutWin, WinChanged

\* The fields of a state have their types.
LEMMA Fields ==
    ASSUME NEW s \in StateType
    PROVE  /\ \A k \in Workspace :
                 /\ s.ws[k] \in WorkspaceState
                 /\ s.ws[k].enabled \in BOOLEAN
                 /\ s.ws[k].activated \in Window \cup {NULL}
                 /\ s.ws[k].formerly \in Window \cup {NULL}
                 /\ s.ws[k].grab \in Grab
                 /\ s.ws[k].grabbed \in Window \cup {NULL}
                 /\ s.ws[k].windows \in Seq(Window)
                 /\ s.ws[k].window_container \in Seq(Window)
                 /\ s.ws[k].fullscreen_container \in Seq(Window)
           /\ \A w \in Window :
                 /\ s.win[w] \in WindowState
                 /\ s.win[w].activated \in BOOLEAN
                 /\ s.win[w].fullscreen \in BOOLEAN
                 /\ s.win[w].workspace \in Workspace \cup {NULL}
                 /\ s.win[w].resize_edges \in Edge \cup {NULL}
           /\ s.failed \in Site \cup {NULL}
  BY DEF StateType, WorkspaceState, WindowState

\* The window's own flag is set, and nothing else.
FlagSet(s, v, b, t) ==
    /\ t \in StateType
    /\ t.ws = s.ws
    /\ SameElsewhere(s, t)
    /\ t.win[v].activated = b
    /\ \A w \in Window : w # v => t.win[w] = s.win[w]

LEMMA SetActivatedEffect ==
    ASSUME NEW s \in StateType, NEW v \in Window, NEW b \in BOOLEAN
    PROVE  FlagSet(s, v, b, SetActivated(s, v, b))
  <1> DEFINE t == SetActivated(s, v, b)
             r == [s.win[v] EXCEPT !.activated = b]
  <1>1. t = PutWin(s, v, r)
    BY DEF SetActivated, PutWin
  <1>2. /\ r \in WindowState
        /\ r.activated = b
        /\ r.workspace = s.win[v].workspace
        /\ r.fullscreen = s.win[v].fullscreen
        /\ r.resize_edges = s.win[v].resize_edges
    BY DEF StateType, WindowState
  <1> HIDE DEF r, t
  <1>3. WinChanged(s, v, r, t)
    BY <1>1, <1>2, PutWinEffect
  <1>4. \A w \in Window :
            /\ t.win[w].workspace = s.win[w].workspace
            /\ t.win[w].fullscreen = s.win[w].fullscreen
            /\ t.win[w].resize_edges = s.win[w].resize_edges
    BY <1>2, <1>3 DEF WinChanged
  <1>5. SameLinks(s, t)
    BY <1>3, <1>4 DEF WinChanged, SameLinks, SameWorkspaceOfWindows
  <1>6. SameEnabled(s, t) /\ SameGrab(s, t)
    BY <1>3, <1>4 DEF WinChanged, SameEnabled, SameGrab
  <1>7. FlagSet(s, v, b, t)
    BY <1>2, <1>3, <1>5, <1>6 DEF WinChanged, FlagSet, SameElsewhere
  <1> QED
    BY <1>7 DEF t

\* The activated and the formerly activated window of a workspace are assigned.
Assign(s, k, a, f) == [s EXCEPT !.ws[k] = [@ EXCEPT !.activated = a, !.formerly = f]]

Assigned(s, k, a, f, t) ==
    /\ t \in StateType
    /\ t.win = s.win
    /\ SameElsewhere(s, t)
    /\ t.ws[k].activated = a
    /\ t.ws[k].formerly = f
    /\ \A j \in Workspace : j # k => t.ws[j] = s.ws[j]

LEMMA AssignEffect ==
    ASSUME NEW s \in StateType, NEW k \in Workspace,
           NEW a \in Window \cup {NULL}, NEW f \in Window \cup {NULL}
    PROVE  Assigned(s, k, a, f, Assign(s, k, a, f))
  <1> DEFINE t == Assign(s, k, a, f)
             r == [s.ws[k] EXCEPT !.activated = a, !.formerly = f]
  <1>1. t = PutWs(s, k, r)
    BY DEF PutWs, Assign
  <1>2. /\ r \in WorkspaceState
        /\ r.activated = a
        /\ r.formerly = f
        /\ r.enabled = s.ws[k].enabled
        /\ r.windows = s.ws[k].windows
        /\ r.window_container = s.ws[k].window_container
        /\ r.fullscreen_container = s.ws[k].fullscreen_container
        /\ r.grab = s.ws[k].grab
        /\ r.grabbed = s.ws[k].grabbed
    BY DEF StateType, WorkspaceState
  <1> HIDE DEF r, t
  <1>3. WsChanged(s, k, r, t)
    BY <1>1, <1>2, PutWsEffect
  <1>4. \A j \in Workspace :
            /\ t.ws[j].enabled = s.ws[j].enabled
            /\ t.ws[j].windows = s.ws[j].windows
            /\ t.ws[j].window_container = s.ws[j].window_container
            /\ t.ws[j].fullscreen_container = s.ws[j].fullscreen_container
            /\ t.ws[j].grab = s.ws[j].grab
            /\ t.ws[j].grabbed = s.ws[j].grabbed
    BY <1>2, <1>3 DEF WsChanged
  <1>5. SameLinks(s, t)
    BY <1>3, <1>4 DEF WsChanged, SameLinks, SameWorkspaceOfWindows
  <1>6. SameEnabled(s, t) /\ SameGrab(s, t)
    BY <1>3, <1>4 DEF WsChanged, SameEnabled, SameGrab
  <1>7. Assigned(s, k, a, f, t)
    BY <1>2, <1>3, <1>5, <1>6 DEF WsChanged, Assigned, SameElsewhere
  <1> QED
    BY <1>7 DEF t

-----------------------------------------------------------------------------
(* Activation.                                                             *)

\* Nothing is activated on k, and only k's activated window was deactivated.
Deactivated(s, k, t) ==
    /\ t \in StateType
    /\ SameElsewhere(s, t)
    /\ SameFormerly(s, t)
    /\ Agreed(t)
    /\ t.ws[k].activated = NULL
    /\ \A j \in Workspace : j # k => t.ws[j] = s.ws[j]

LEMMA DeactivateEffect ==
    ASSUME NEW s \in StateType, NEW k \in Workspace, Agreed(s)
    PROVE  Deactivated(s, k, Deactivate(s, k))
  <1> DEFINE t == Deactivate(s, k)
             w == s.ws[k].activated
  <1>1. CASE w = NULL
    <2>1. t = s
      BY <1>1 DEF Deactivate
    <2> QED
      BY <1>1, <2>1, SameElsewhereItself DEF Deactivated, SameFormerly
  <1>2. CASE w # NULL
    <2> DEFINE p == Assign(s, k, NULL, w)
    <2>1. w \in Window /\ s.ws[k].activated = w /\ s.ws[k].formerly = w
      BY <1>2, Fields DEF Agreed
    <2>2. t = SetActivated(p, w, FALSE)
      <3>1. [s EXCEPT !.ws[k].formerly = w, !.ws[k].activated = NULL] = p
        BY <2>1 DEF Assign, StateType, WorkspaceState
      <3> QED
        BY <1>2, <3>1 DEF Deactivate
    <2> HIDE DEF w
    <2>3. Assigned(s, k, NULL, w, p)
      BY <2>1, AssignEffect
    <2> HIDE DEF p, t
    <2>4. FlagSet(p, w, FALSE, t)
      <3>1. p \in StateType
        BY <2>3 DEF Assigned
      <3> QED
        BY <2>1, <2>2, <3>1, SetActivatedEffect
    <2>5. /\ t \in StateType
          /\ SameElsewhere(s, p) /\ SameElsewhere(p, t)
          /\ t.ws[k].activated = NULL
          /\ t.ws[k].formerly = w
          /\ \A j \in Workspace : j # k => t.ws[j] = s.ws[j]
          /\ ~t.win[w].activated
          /\ \A v \in Window : v # w => t.win[v] = s.win[v]
      BY <2>3, <2>4 DEF Assigned, FlagSet
    <2>6. SameElsewhere(s, t) /\ SameFormerly(s, t)
      BY <2>1, <2>5, SameElsewhereTwice DEF SameFormerly
    <2>7. ASSUME NEW v \in Window
          PROVE  t.win[v].activated <=> \E j \in Workspace : t.ws[j].activated = v
      <3>1. CASE v = w
        <4>1. ASSUME NEW j \in Workspace, t.ws[j].activated = w PROVE FALSE
          <5>1. j # k /\ s.ws[j].activated = w
            BY <2>1, <2>5, <4>1, ConstantsAreDistinct
          <5>2. s.ws[j].formerly = w
            BY <1>2, <5>1 DEF Agreed
          <5> QED
            BY <1>2, <2>1, <5>1, <5>2 DEF Agreed
        <4> QED
          BY <2>5, <3>1, <4>1
      <3>2. CASE v # w
        <4>1. t.win[v].activated <=> s.win[v].activated
          BY <2>5, <3>2
        <4>2. \A j \in Workspace : t.ws[j].activated = v <=> s.ws[j].activated = v
          BY <2>1, <2>5, <3>2, ConstantsAreDistinct
        <4> QED
          BY <4>1, <4>2 DEF Agreed
      <3> QED
        BY <3>1, <3>2
    <2>8. ASSUME NEW j \in Workspace
          PROVE  /\ t.ws[j].activated # NULL => t.ws[j].formerly = t.ws[j].activated
                 /\ t.ws[j].formerly # NULL =>
                        t.win[t.ws[j].formerly].workspace = j
      <3>1. t.ws[j].formerly = s.ws[j].formerly
        BY <2>6 DEF SameFormerly
      <3>2. t.ws[j].activated # NULL => t.ws[j].activated = s.ws[j].activated
        BY <2>5
      <3>3. \A v \in Window : t.win[v].workspace = s.win[v].workspace
        BY <2>6 DEF SameElsewhere, SameLinks, SameWorkspaceOfWindows
      <3>4. s.ws[j].formerly \in Window \cup {NULL}
        BY Fields
      <3> QED
        BY <3>1, <3>2, <3>3, <3>4 DEF Agreed
    <2>9. Agreed(t)
      BY <2>7, <2>8 DEF Agreed
    <2> QED
      BY <2>5, <2>6, <2>9 DEF Deactivated, t
  <1> QED
    BY <1>1, <1>2

\* Window w is the one k activates, at once or when it is enabled; no window
\* if w is NULL.
Activated(s, k, w, t) ==
    /\ t \in StateType
    /\ SameElsewhere(s, t)
    /\ Active(t)
    /\ t.ws[k].formerly = IF w = NULL THEN s.ws[k].formerly ELSE w
    /\ t.ws[k].activated = IF s.ws[k].enabled THEN w ELSE NULL
    /\ \A j \in Workspace : j # k => t.ws[j] = s.ws[j]

\* What remains to be shown of a state u in which w is the only window that
\* became activated or formerly activated on k.
LEMMA AgreedAfter ==
    ASSUME NEW s \in StateType, NEW k \in Workspace, NEW w \in Window, Agreed(s),
           s.win[w].workspace = k, s.ws[k].activated = NULL,
           NEW u \in StateType, NEW a \in {NULL, w},
           SameElsewhere(s, u),
           u.ws[k].activated = a, u.ws[k].formerly = w,
           \A j \in Workspace : j # k => u.ws[j] = s.ws[j],
           u.win[w].activated <=> a = w,
           \A v \in Window : v # w => u.win[v].activated = s.win[v].activated
    PROVE  Agreed(u)
  <1>1. \A v \in Window : u.win[v].workspace = s.win[v].workspace
    BY DEF SameElsewhere, SameLinks, SameWorkspaceOfWindows
  <1>2. ASSUME NEW v \in Window
        PROVE  u.win[v].activated <=> \E j \in Workspace : u.ws[j].activated = v
    <2>1. CASE v = w
      <3>1. ASSUME NEW j \in Workspace, j # k PROVE u.ws[j].activated # w
        <4>1. SUFFICES ASSUME s.ws[j].activated = w PROVE FALSE
          BY <3>1
        <4>2. w # NULL /\ s.ws[j].formerly = w
          BY <4>1, ConstantsAreDistinct DEF Agreed
        <4> QED
          BY <3>1, <4>2 DEF Agreed
      <3> QED
        BY <2>1, <3>1, ConstantsAreDistinct
    <2>2. CASE v # w
      <3>1. v # NULL
        BY ConstantsAreDistinct
      <3>2. \A j \in Workspace : u.ws[j].activated = v <=> s.ws[j].activated = v
        BY <2>2, <3>1
      <3> QED
        BY <2>2, <3>2 DEF Agreed
    <2> QED
      BY <2>1, <2>2
  <1>3. ASSUME NEW j \in Workspace
        PROVE  /\ u.ws[j].activated # NULL => u.ws[j].formerly = u.ws[j].activated
               /\ u.ws[j].formerly # NULL =>
                      u.win[u.ws[j].formerly].workspace = j
    <2>1. CASE j = k
      BY <1>1, <2>1
    <2>2. CASE j # k
      <3>1. s.ws[j].formerly \in Window \cup {NULL}
        BY Fields
      <3> QED
        BY <1>1, <2>2, <3>1 DEF Agreed
    <2> QED
      BY <2>1, <2>2
  <1> QED
    BY <1>2, <1>3 DEF Agreed

LEMMA ActivateWindowEffect ==
    ASSUME NEW s \in StateType, NEW k \in Workspace, Active(s),
           NEW w \in Window \cup {NULL}, w # NULL => s.win[w].workspace = k
    PROVE  Activated(s, k, w, ActivateWindow(s, k, w))
  <1> DEFINE t == ActivateWindow(s, k, w)
             idle == Deactivate(s, k)
  <1>a. s.ws[k].enabled \in BOOLEAN
    BY Fields
  <1>b. Deactivated(s, k, idle)
    BY DeactivateEffect DEF Active
  <1> HIDE DEF idle
  <1>c. /\ idle \in StateType
        /\ SameElsewhere(s, idle)
        /\ Agreed(idle)
        /\ idle.ws[k].activated = NULL
        /\ idle.ws[k].formerly = s.ws[k].formerly
        /\ \A j \in Workspace : j # k => idle.ws[j] = s.ws[j]
        /\ \A v \in Window : idle.win[v].workspace = s.win[v].workspace
        /\ idle.ws[k].enabled = s.ws[k].enabled
    BY <1>b DEF Deactivated, SameFormerly, SameElsewhere, SameLinks,
                SameWorkspaceOfWindows, SameEnabled
  <1>1. CASE s.ws[k].activated = w
    <2>1. t = s
      BY <1>1 DEF ActivateWindow
    <2>2. w # NULL => s.ws[k].enabled /\ s.ws[k].formerly = w
      BY <1>1 DEF Active, Agreed
    <2> HIDE DEF t
    <2>3. Activated(s, k, w, t)
      BY <1>1, <2>1, <2>2, SameElsewhereItself DEF Activated
    <2> QED
      BY <2>3 DEF t
  <1>2. CASE s.ws[k].activated # w /\ w = NULL
    <2>1. t = idle
      BY <1>2 DEF ActivateWindow, idle
    <2>2. \A j \in Workspace : idle.ws[j].activated # NULL => idle.ws[j].enabled
      BY <1>c DEF Active
    <2> HIDE DEF t
    <2>3. Activated(s, k, w, t)
      BY <1>2, <1>c, <2>1, <2>2 DEF Activated, Active
    <2> QED
      BY <2>3 DEF t
  <1>3. CASE s.ws[k].activated # w /\ w # NULL /\ s.ws[k].enabled
    <2> DEFINE p == Assign(idle, k, w, w)
    <2>1. w \in Window
      BY <1>3
    <2>2. t = SetActivated(p, w, TRUE)
      <3>1. [idle EXCEPT !.ws[k].activated = w, !.ws[k].formerly = w] = p
        BY <1>c DEF Assign, StateType, WorkspaceState
      <3> QED
        BY <1>3, <3>1 DEF ActivateWindow, idle
    <2>3. Assigned(idle, k, w, w, p)
      BY <1>c, <2>1, AssignEffect
    <2> HIDE DEF p, t
    <2>4. FlagSet(p, w, TRUE, t)
      <3>1. p \in StateType
        BY <2>3 DEF Assigned
      <3> QED
        BY <2>1, <2>2, <3>1, SetActivatedEffect
    <2>5. /\ t \in StateType
          /\ SameElsewhere(idle, p) /\ SameElsewhere(p, t)
          /\ t.ws[k].activated = w
          /\ t.ws[k].formerly = w
          /\ \A j \in Workspace : j # k => t.ws[j] = idle.ws[j]
          /\ t.win[w].activated
          /\ \A v \in Window : v # w => t.win[v].activated = idle.win[v].activated
      BY <2>3, <2>4 DEF Assigned, FlagSet
    <2>6. SameElsewhere(idle, t) /\ SameElsewhere(s, t)
      BY <1>c, <2>5, SameElsewhereTwice
    <2>7. Agreed(t)
      BY <1>3, <1>c, <2>1, <2>5, <2>6, AgreedAfter
    <2>8. \A j \in Workspace : t.ws[j].activated # NULL => t.ws[j].enabled
      <3>1. t.ws[k].enabled
        BY <1>3, <2>6 DEF SameElsewhere, SameEnabled
      <3> QED
        BY <1>c, <2>5, <3>1 DEF Active
    <2>9. Activated(s, k, w, t)
      BY <1>3, <1>c, <2>5, <2>6, <2>7, <2>8 DEF Activated, Active
    <2> QED
      BY <2>9 DEF t
  <1>4. CASE s.ws[k].activated # w /\ w # NULL /\ ~s.ws[k].enabled
    <2>1. w \in Window
      BY <1>4
    <2>2. t = Assign(idle, k, NULL, w)
      <3>1. [idle EXCEPT !.ws[k].formerly = w] = Assign(idle, k, NULL, w)
        BY <1>c DEF Assign, StateType, WorkspaceState
      <3> QED
        BY <1>4, <3>1 DEF ActivateWindow, idle
    <2> HIDE DEF t
    <2>3. Assigned(idle, k, NULL, w, t)
      BY <1>c, <2>1, <2>2, AssignEffect
    <2>4. /\ t \in StateType
          /\ t.win = idle.win
          /\ SameElsewhere(idle, t)
          /\ t.ws[k].activated = NULL
          /\ t.ws[k].formerly = w
          /\ \A j \in Workspace : j # k => t.ws[j] = idle.ws[j]
      BY <2>3 DEF Assigned
    <2>5. SameElsewhere(s, t)
      BY <1>c, <2>4, SameElsewhereTwice
    <2>6. ~t.win[w].activated
      <3>1. \A j \in Workspace : idle.ws[j].activated # w
        <4>1. SUFFICES ASSUME NEW j \in Workspace, idle.ws[j].activated = w
                       PROVE  FALSE
          OBVIOUS
        <4>2. j # k /\ idle.ws[j].formerly = w
          BY <1>4, <1>c, <4>1 DEF Agreed
        <4> QED
          BY <1>4, <1>c, <4>2 DEF Agreed
      <3> QED
        BY <1>c, <2>1, <2>4, <3>1 DEF Agreed
    <2>7. Agreed(t)
      BY <1>4, <1>c, <2>1, <2>4, <2>6, AgreedAfter
    <2>8. \A j \in Workspace : t.ws[j].activated # NULL => t.ws[j].enabled
      BY <1>c, <2>4 DEF Active
    <2>9. Activated(s, k, w, t)
      BY <1>4, <1>c, <2>4, <2>5, <2>7, <2>8 DEF Activated, Active
    <2> QED
      BY <2>9 DEF t
  <1> QED
    BY <1>1, <1>2, <1>3, <1>4, <1>a

\* Workspace k is enabled or disabled. Enabling it activates the window that was
\* activated last, disabling it deactivates its window.
Enabled(s, k, b, t) ==
    /\ t \in StateType
    /\ SameLinks(s, t)
    /\ SameGrab(s, t)
    /\ SameFormerly(s, t)
    /\ Active(t)
    /\ t.ws[k].enabled = b
    /\ s.ws[k].enabled # b /\ b => t.ws[k].activated = s.ws[k].formerly
    /\ s.ws[k].enabled = b => t.ws[k].activated = s.ws[k].activated
    /\ \A j \in Workspace : j # k => t.ws[j] = s.ws[j]

LEMMA EnableWorkspaceEffect ==
    ASSUME NEW s \in StateType, NEW k \in Workspace, NEW b \in BOOLEAN, Active(s)
    PROVE  Enabled(s, k, b, EnableWorkspace(s, k, b))
  <1> DEFINE t == EnableWorkspace(s, k, b)
             r == [s.ws[k] EXCEPT !.enabled = b]
             flagged == PutWs(s, k, r)
             f == s.ws[k].formerly
  <1>a. s.ws[k].enabled \in BOOLEAN /\ f \in Window \cup {NULL}
    BY Fields
  <1>b. [s EXCEPT !.ws[k].enabled = b] = flagged
    BY DEF PutWs
  <1>c. /\ r \in WorkspaceState
        /\ r.enabled = b
        /\ r.activated = s.ws[k].activated
        /\ r.formerly = s.ws[k].formerly
        /\ r.windows = s.ws[k].windows
        /\ r.window_container = s.ws[k].window_container
        /\ r.fullscreen_container = s.ws[k].fullscreen_container
        /\ r.grab = s.ws[k].grab
        /\ r.grabbed = s.ws[k].grabbed
    BY DEF StateType, WorkspaceState
  <1>d. /\ s.ws[k].enabled = b => t = s
        /\ s.ws[k].enabled # b /\ b => t = ActivateWindow(flagged, k, f)
        /\ s.ws[k].enabled # b /\ ~b => t = Deactivate(flagged, k)
    <2> HIDE DEF flagged
    <2> QED
      BY <1>b DEF EnableWorkspace
  <1> HIDE DEF t, r, flagged
  <1>e. WsChanged(s, k, r, flagged)
    BY <1>c, PutWsEffect DEF flagged
  <1>f. /\ flagged \in StateType
        /\ flagged.win = s.win
        /\ flagged.failed = s.failed
        /\ flagged.ws[k] = r
        /\ \A j \in Workspace : j # k => flagged.ws[j] = s.ws[j]
    BY <1>e DEF WsChanged
  <1>g. /\ SameWorkspaceOfWindows(s, flagged)
        /\ SameActivation(s, flagged)
        /\ SameGrab(s, flagged)
    BY <1>c, <1>f DEF SameWorkspaceOfWindows, SameActivation, SameFormerly, SameGrab
  <1>h. SameLinks(s, flagged)
    BY <1>c, <1>f, <1>g DEF SameLinks
  <1>i. Agreed(flagged)
    BY <1>f, <1>g, AgreedFrame DEF Active
  <1>j. ASSUME SameElsewhere(flagged, t)
        PROVE  SameLinks(s, t) /\ SameGrab(s, t) /\ t.ws[k].enabled = b
    <2>1. SameLinks(s, t)
      BY <1>h, <1>j DEF SameElsewhere, SameLinks, SameWorkspaceOfWindows
    <2>2. SameGrab(s, t)
      BY <1>g, <1>j DEF SameElsewhere, SameGrab
    <2>3. t.ws[k].enabled = b
      BY <1>c, <1>f, <1>j DEF SameElsewhere, SameEnabled
    <2> QED
      BY <2>1, <2>2, <2>3
  <1>1. CASE s.ws[k].enabled = b
    <2>1. t = s
      BY <1>1, <1>d
    <2>2. SameElsewhere(s, t) /\ SameFormerly(s, t)
      BY <2>1, SameElsewhereItself DEF SameFormerly
    <2>3. SameLinks(s, t) /\ SameGrab(s, t)
      BY <2>2 DEF SameElsewhere
    <2>4. Enabled(s, k, b, t)
      BY <1>1, <2>1, <2>2, <2>3 DEF Enabled
    <2> QED
      BY <2>4 DEF t
  <1>2. CASE s.ws[k].enabled # b /\ b
    <2>1. s.ws[k].activated = NULL
      BY <1>2, <1>a DEF Active
    <2>2. Active(flagged)
      BY <1>2, <1>c, <1>f, <1>i, <2>1 DEF Active
    <2>3. f # NULL => flagged.win[f].workspace = k
      BY <1>f DEF Active, Agreed
    <2>4. Activated(flagged, k, f, t)
      BY <1>2, <1>a, <1>d, <1>f, <2>2, <2>3, ActivateWindowEffect
    <2>5. /\ t \in StateType
          /\ SameElsewhere(flagged, t)
          /\ Active(t)
          /\ t.ws[k].formerly = f
          /\ t.ws[k].activated = f
          /\ \A j \in Workspace : j # k => t.ws[j] = s.ws[j]
      BY <1>2, <1>c, <1>f, <2>4 DEF Activated
    <2>6. Enabled(s, k, b, t)
      BY <1>2, <1>j, <2>5 DEF Enabled, SameFormerly
    <2> QED
      BY <2>6 DEF t
  <1>3. CASE s.ws[k].enabled # b /\ ~b
    <2>1. Deactivated(flagged, k, t)
      BY <1>3, <1>d, <1>f, <1>i, DeactivateEffect
    <2>2. /\ t \in StateType
          /\ SameElsewhere(flagged, t)
          /\ SameFormerly(flagged, t)
          /\ Agreed(t)
          /\ t.ws[k].activated = NULL
          /\ \A j \in Workspace : j # k => t.ws[j] = s.ws[j]
      BY <1>f, <2>1 DEF Deactivated
    <2>3. SameFormerly(s, t)
      BY <1>g, <2>2 DEF SameActivation, SameFormerly
    <2>4. Active(t)
      BY <2>2 DEF Active
    <2>5. Enabled(s, k, b, t)
      BY <1>3, <1>j, <2>2, <2>3, <2>4 DEF Enabled
    <2> QED
      BY <2>5 DEF t
  <1> QED
    BY <1>1, <1>2, <1>3

-----------------------------------------------------------------------------
(* Interactive move and resize.                                            *)

\* A step of the pointer's FSM: all but the grab is left alone.
GrabStep(s, t) ==
    /\ t \in StateType
    /\ SameLinks(s, t)
    /\ SameActivation(s, t)
    /\ SameEnabled(s, t)
    /\ Held(t)

LEMMA GrabStepItself ==
    ASSUME NEW s \in StateType, Held(s) PROVE GrabStep(s, s)
  BY DEF GrabStep, SameLinks, SameWorkspaceOfWindows, SameActivation, SameFormerly,
         SameEnabled

\* The grab of workspace k and the resize edges of window w are assigned.
Grabbed(s, k, grab, grabbed, w, edges, t) ==
    /\ t \in StateType
    /\ SameLinks(s, t)
    /\ SameActivation(s, t)
    /\ SameEnabled(s, t)
    /\ t.ws[k].grab = grab
    /\ t.ws[k].grabbed = grabbed
    /\ t.win[w].resize_edges = edges
    /\ \A j \in Workspace : j # k =>
           t.ws[j].grab = s.ws[j].grab /\ t.ws[j].grabbed = s.ws[j].grabbed
    /\ \A v \in Window : v # w => t.win[v].resize_edges = s.win[v].resize_edges

\* The workspace's own edges e do not matter to the invariant.
LEMMA GrabEffect ==
    ASSUME NEW s \in StateType, NEW k \in Workspace, NEW w \in Window,
           NEW grab \in Grab, NEW grabbed \in Window \cup {NULL},
           NEW edges \in Edge \cup {NULL}, NEW e \in Edge \cup {NULL},
           NEW r, r = [s.ws[k] EXCEPT !.grab = grab, !.grabbed = grabbed,
                                      !.resize_edges = e],
           NEW v, v = [s.win[w] EXCEPT !.resize_edges = edges],
           NEW t, t = PutWin(PutWs(s, k, r), w, v)
    PROVE  Grabbed(s, k, grab, grabbed, w, edges, t)
  <1> DEFINE p == PutWs(s, k, r)
  <1>1. /\ r \in WorkspaceState
        /\ r.grab = grab
        /\ r.grabbed = grabbed
        /\ r.enabled = s.ws[k].enabled
        /\ r.activated = s.ws[k].activated
        /\ r.formerly = s.ws[k].formerly
        /\ r.windows = s.ws[k].windows
        /\ r.window_container = s.ws[k].window_container
        /\ r.fullscreen_container = s.ws[k].fullscreen_container
    BY DEF StateType, WorkspaceState
  <1>2. /\ v \in WindowState
        /\ v.resize_edges = edges
        /\ v.workspace = s.win[w].workspace
        /\ v.activated = s.win[w].activated
        /\ v.fullscreen = s.win[w].fullscreen
    BY DEF StateType, WindowState
  <1>3. WsChanged(s, k, r, p)
    BY <1>1, PutWsEffect
  <1>4. p \in StateType
    <2> HIDE DEF p
    <2> QED BY <1>3 DEF WsChanged
  <1>5. WinChanged(p, w, v, t)
    BY <1>2, <1>4, PutWinEffect
  <1> HIDE DEF p
  <1>6. /\ t \in StateType
        /\ t.failed = s.failed
        /\ t.ws[k] = r
        /\ t.win[w] = v
        /\ \A j \in Workspace : j # k => t.ws[j] = s.ws[j]
        /\ \A u \in Window : u # w => t.win[u] = s.win[u]
    BY <1>3, <1>5 DEF WsChanged, WinChanged
  <1>7. SameWorkspaceOfWindows(s, t)
    BY <1>2, <1>6 DEF SameWorkspaceOfWindows
  <1>8. \A j \in Workspace :
            /\ t.ws[j].windows = s.ws[j].windows
            /\ t.ws[j].window_container = s.ws[j].window_container
            /\ t.ws[j].fullscreen_container = s.ws[j].fullscreen_container
            /\ t.ws[j].enabled = s.ws[j].enabled
            /\ t.ws[j].activated = s.ws[j].activated
            /\ t.ws[j].formerly = s.ws[j].formerly
    BY <1>1, <1>6
  <1>9. \A u \in Window : /\ t.win[u].fullscreen = s.win[u].fullscreen
                          /\ t.win[u].activated = s.win[u].activated
    BY <1>2, <1>6
  <1>10. SameLinks(s, t)
    BY <1>6, <1>7, <1>8, <1>9 DEF SameLinks
  <1>11. SameActivation(s, t) /\ SameEnabled(s, t)
    BY <1>8, <1>9 DEF SameActivation, SameFormerly, SameEnabled
  <1> QED
    BY <1>1, <1>2, <1>6, <1>10, <1>11 DEF Grabbed

LEMMA ResetGrabEffect ==
    ASSUME NEW s \in StateType, NEW k \in Workspace, Held(s)
    PROVE  /\ GrabStep(s, ResetGrab(s, k))
           /\ ResetGrab(s, k).ws[k].grabbed = NULL
           /\ \A j \in Workspace : j # k =>
                  ResetGrab(s, k).ws[j].grabbed = s.ws[j].grabbed
  <1> DEFINE t == ResetGrab(s, k)
             g == s.ws[k].grabbed
  <1>1. CASE s.ws[k].grab = "passthrough"
    <2>1. t = s
      BY <1>1 DEF ResetGrab
    <2>2. g = NULL
      BY <1>1 DEF Held
    <2> HIDE DEF t
    <2>3. GrabStep(s, t) /\ t.ws[k].grabbed = NULL
          /\ \A j \in Workspace : j # k => t.ws[j].grabbed = s.ws[j].grabbed
      BY <2>1, <2>2, GrabStepItself
    <2> QED
      BY <2>3 DEF t
  <1>2. CASE s.ws[k].grab # "passthrough"
    <2> DEFINE e == s.ws[k].resize_edges
               r == [s.ws[k] EXCEPT !.grab = "passthrough", !.grabbed = NULL,
                                    !.resize_edges = e]
               v == [s.win[g] EXCEPT !.resize_edges = NULL]
    <2>1. g \in Window /\ g # NULL /\ s.ws[k].grabbed = g
      BY <1>2, Fields DEF Held
    <2>2. e \in Edge \cup {NULL} /\ "passthrough" \in Grab
      BY DEF StateType, WorkspaceState, Grab
    <2>3. t = PutWin(PutWs(s, k, r), g, v)
      <3> HIDE DEF g
      <3>1. r = [s.ws[k] EXCEPT !.grab = "passthrough", !.grabbed = NULL]
        BY DEF StateType, WorkspaceState
      <3>2. [s EXCEPT !.win[g].resize_edges = NULL, !.ws[k].grab = "passthrough",
                      !.ws[k].grabbed = NULL] = PutWin(PutWs(s, k, r), g, v)
        <4> HIDE DEF r
        <4> QED
          BY <2>1, <3>1 DEF PutWin, PutWs, StateType, WorkspaceState, WindowState
      <3> QED
        BY <1>2, <2>1, <3>2 DEF ResetGrab
    <2>4. /\ r = [s.ws[k] EXCEPT !.grab = "passthrough", !.grabbed = NULL,
                                 !.resize_edges = e]
          /\ v = [s.win[g] EXCEPT !.resize_edges = NULL]
      OBVIOUS
    <2> HIDE DEF r, v, e, g, t
    <2>5. Grabbed(s, k, "passthrough", NULL, g, NULL, t)
      BY <2>1, <2>2, <2>3, <2>4, GrabEffect
    <2>6. ASSUME NEW j \in Workspace
          PROVE  /\ t.ws[j].grab # "passthrough" <=> t.ws[j].grabbed # NULL
                 /\ t.ws[j].grabbed # NULL =>
                        t.win[t.ws[j].grabbed].workspace = j
      <3>1. CASE j = k
        BY <2>5, <3>1 DEF Grabbed
      <3>2. CASE j # k
        <4>1. s.ws[j].grabbed \in Window \cup {NULL}
          BY Fields
        <4> QED
          BY <2>5, <3>2, <4>1
             DEF Grabbed, Held, SameLinks, SameWorkspaceOfWindows
      <3> QED
        BY <3>1, <3>2
    <2>7. ASSUME NEW u \in Window, t.win[u].resize_edges # NULL
          PROVE  \E j \in Workspace : t.ws[j].grab = "resize" /\ t.ws[j].grabbed = u
      <3>1. u # g /\ s.win[u].resize_edges # NULL
        BY <2>5, <2>7 DEF Grabbed
      <3>2. PICK j \in Workspace : s.ws[j].grab = "resize" /\ s.ws[j].grabbed = u
        BY <3>1 DEF Held
      <3>3. j # k
        BY <2>1, <3>1, <3>2
      <3> QED
        BY <2>5, <3>2, <3>3 DEF Grabbed
    <2>8. Held(t)
      BY <2>6, <2>7 DEF Held
    <2>9. GrabStep(s, t) /\ t.ws[k].grabbed = NULL
          /\ \A j \in Workspace : j # k => t.ws[j].grabbed = s.ws[j].grabbed
      BY <2>5, <2>8 DEF Grabbed, GrabStep
    <2> QED
      BY <2>9 DEF t
  <1> QED
    BY <1>1, <1>2

\* A window of workspace k is grabbed when no other is.
LEMMA HeldAfterGrab ==
    ASSUME NEW s \in StateType, NEW k \in Workspace, NEW w \in Window, Held(s),
           s.win[w].workspace = k, s.ws[k].grab = "passthrough",
           NEW grab \in {"move", "resize"}, NEW edges \in Edge \cup {NULL},
           grab = "resize" \/ edges = s.win[w].resize_edges,
           NEW t, Grabbed(s, k, grab, w, w, edges, t)
    PROVE  GrabStep(s, t)
  <1>1. w # NULL
    BY ConstantsAreDistinct
  <1>2. ASSUME NEW j \in Workspace
        PROVE  /\ t.ws[j].grab # "passthrough" <=> t.ws[j].grabbed # NULL
               /\ t.ws[j].grabbed # NULL => t.win[t.ws[j].grabbed].workspace = j
    <2>1. CASE j = k
      BY <1>1, <2>1 DEF Grabbed, SameLinks, SameWorkspaceOfWindows
    <2>2. CASE j # k
      <3>1. s.ws[j].grabbed \in Window \cup {NULL}
        BY Fields
      <3> QED
        BY <2>2, <3>1 DEF Grabbed, Held, SameLinks, SameWorkspaceOfWindows
    <2> QED
      BY <2>1, <2>2
  <1>3. ASSUME NEW u \in Window, t.win[u].resize_edges # NULL
        PROVE  \E j \in Workspace : t.ws[j].grab = "resize" /\ t.ws[j].grabbed = u
    <2>1. CASE u = w /\ grab = "resize"
      BY <2>1 DEF Grabbed
    <2>2. CASE ~(u = w /\ grab = "resize")
      <3>1. s.win[u].resize_edges # NULL
        BY <1>3, <2>2 DEF Grabbed
      <3>2. PICK j \in Workspace : s.ws[j].grab = "resize" /\ s.ws[j].grabbed = u
        BY <3>1 DEF Held
      <3>3. j # k
        BY <3>2
      <3> QED
        BY <3>2, <3>3 DEF Grabbed
    <2> QED
      BY <2>1, <2>2
  <1>4. Held(t)
    BY <1>2, <1>3 DEF Held
  <1> QED
    BY <1>4 DEF Grabbed, GrabStep

LEMMA BeginWindowMoveEffect ==
    ASSUME NEW s \in StateType, NEW k \in Workspace, NEW w \in Window, Held(s),
           s.win[w].workspace = k
    PROVE  GrabStep(s, BeginWindowMove(s, k, w))
  <1>1. k # NULL
    BY ConstantsAreDistinct
  <1>2. CASE s.failed # NULL \/ s.ws[k].grab # "passthrough"
    <2>1. BeginWindowMove(s, k, w) = s
      BY <1>1, <1>2 DEF BeginWindowMove, Check
    <2> QED
      BY <2>1, GrabStepItself
  <1>3. CASE s.failed = NULL /\ s.ws[k].grab = "passthrough"
    <2> DEFINE t == BeginWindowMove(s, k, w)
               e == s.ws[k].resize_edges
               edges == s.win[w].resize_edges
               r == [s.ws[k] EXCEPT !.grab = "move", !.grabbed = w,
                                    !.resize_edges = e]
               v == [s.win[w] EXCEPT !.resize_edges = edges]
    <2>1. e \in Edge \cup {NULL} /\ edges \in Edge \cup {NULL} /\ "move" \in Grab
      BY DEF StateType, WorkspaceState, WindowState, Grab
    <2>2. t = PutWin(PutWs(s, k, r), w, v)
      <3>1. r = [s.ws[k] EXCEPT !.grab = "move", !.grabbed = w]
        BY DEF StateType, WorkspaceState
      <3>2. v = s.win[w]
        BY DEF StateType, WindowState
      <3>3. [s EXCEPT !.ws[k].grab = "move", !.ws[k].grabbed = w]
                = PutWin(PutWs(s, k, r), w, v)
        <4> HIDE DEF r, v
        <4> QED
          BY <3>1, <3>2 DEF PutWin, PutWs, StateType, WorkspaceState, WindowState
      <3> QED
        BY <1>1, <1>3, <3>3 DEF BeginWindowMove, Check
    <2>3. /\ r = [s.ws[k] EXCEPT !.grab = "move", !.grabbed = w,
                                 !.resize_edges = e]
          /\ v = [s.win[w] EXCEPT !.resize_edges = edges]
      OBVIOUS
    <2>4. edges = s.win[w].resize_edges
      OBVIOUS
    <2> HIDE DEF r, v, e, edges, t
    <2>5. Grabbed(s, k, "move", w, w, edges, t)
      BY <2>1, <2>2, <2>3, GrabEffect
    <2>6. GrabStep(s, t)
      BY <1>3, <2>1, <2>4, <2>5, HeldAfterGrab
    <2> QED
      BY <2>6 DEF t
  <1> QED
    BY <1>2, <1>3

LEMMA BeginWindowResizeEffect ==
    ASSUME NEW s \in StateType, NEW k \in Workspace, NEW w \in Window, Held(s),
           s.win[w].workspace = k, NEW edges \in Edge
    PROVE  GrabStep(s, BeginWindowResize(s, k, w, edges))
  <1> DEFINE t == BeginWindowResize(s, k, w, edges)
             stored == [s EXCEPT !.ws[k].resize_edges = edges]
  <1>1. k # NULL
    BY ConstantsAreDistinct
  <1>2. CASE s.failed # NULL
    <2>1. t = s
      BY <1>1, <1>2 DEF BeginWindowResize, Check
    <2> QED
      BY <2>1, GrabStepItself
  <1>3. CASE s.failed = NULL /\ s.ws[k].grab # "passthrough"
    <2> DEFINE r == [s.ws[k] EXCEPT !.resize_edges = edges]
    <2>1. t = PutWs(s, k, r)
      <3>1. stored.ws[k].grab = s.ws[k].grab
        BY DEF StateType, WorkspaceState
      <3> QED
        BY <1>1, <1>3, <3>1 DEF BeginWindowResize, Check, PutWs
    <2>2. /\ r \in WorkspaceState
          /\ r.grab = s.ws[k].grab
          /\ r.grabbed = s.ws[k].grabbed
          /\ r.enabled = s.ws[k].enabled
          /\ r.activated = s.ws[k].activated
          /\ r.formerly = s.ws[k].formerly
          /\ r.windows = s.ws[k].windows
          /\ r.window_container = s.ws[k].window_container
          /\ r.fullscreen_container = s.ws[k].fullscreen_container
      <3>1. s.ws[k] \in WorkspaceState /\ edges \in Edge \cup {NULL}
        BY Fields
      <3>2. r \in WorkspaceState
        BY <3>1 DEF WorkspaceState
      <3>3. \A f \in DOMAIN s.ws[k] : f # "resize_edges" => r[f] = s.ws[k][f]
        OBVIOUS
      <3> QED
        BY <3>1, <3>2, <3>3 DEF WorkspaceState
    <2> HIDE DEF r, t
    <2>3. WsChanged(s, k, r, t)
      BY <2>1, <2>2, PutWsEffect
    <2>4. /\ SameLinks(s, t) /\ SameActivation(s, t)
          /\ SameEnabled(s, t) /\ SameGrab(s, t)
      BY <2>2, <2>3 DEF WsChanged, SameLinks, SameWorkspaceOfWindows,
                        SameActivation, SameFormerly, SameEnabled, SameGrab
    <2>5. GrabStep(s, t)
      BY <2>3, <2>4, HeldFrame DEF WsChanged, GrabStep, SameLinks
    <2> QED
      BY <2>5 DEF t
  <1>4. CASE s.failed = NULL /\ s.ws[k].grab = "passthrough"
    <2> DEFINE r == [s.ws[k] EXCEPT !.grab = "resize", !.grabbed = w,
                                    !.resize_edges = edges]
               v == [s.win[w] EXCEPT !.resize_edges = edges]
    <2>1. t = PutWin(PutWs(s, k, r), w, v)
      <3>1. stored.ws[k].grab = s.ws[k].grab
        BY DEF StateType, WorkspaceState
      <3>2. [stored EXCEPT !.ws[k].grab = "resize", !.ws[k].grabbed = w,
                           !.win[w].resize_edges = edges]
                = PutWin(PutWs(s, k, r), w, v)
        <4> DEFINE q == [s.ws[k] EXCEPT !.resize_edges = edges]
                   p == PutWs(s, k, q)
        <4>1. stored = p
          BY DEF PutWs
        <4>2. q \in WorkspaceState
          <5>1. s.ws[k] \in WorkspaceState /\ edges \in Edge \cup {NULL}
            BY Fields
          <5> QED
            BY <5>1 DEF WorkspaceState
        <4>3. r = [q EXCEPT !.grab = "resize", !.grabbed = w]
          BY DEF StateType, WorkspaceState
        <4>4. PutWs(p, k, r) = PutWs(s, k, r)
          <5> HIDE DEF q, r
          <5> QED
            BY DEF PutWs, StateType
        <4> HIDE DEF q, r, v
        <4>5. p \in StateType /\ p.ws[k] = q /\ p.win = s.win
          BY <4>2, PutWsEffect DEF WsChanged
        <4> HIDE DEF p
        <4>6. [p EXCEPT !.ws[k].grab = "resize", !.ws[k].grabbed = w,
                        !.win[w].resize_edges = edges]
                  = PutWin(PutWs(p, k, r), w, v)
          BY <4>3, <4>5 DEF PutWin, PutWs, StateType, WorkspaceState, WindowState, v
        <4> HIDE DEF stored
        <4> QED
          BY <4>1, <4>4, <4>6
      <3> QED
        BY <1>1, <1>4, <3>1, <3>2 DEF BeginWindowResize, Check
    <2>2. /\ r = [s.ws[k] EXCEPT !.grab = "resize", !.grabbed = w,
                                 !.resize_edges = edges]
          /\ v = [s.win[w] EXCEPT !.resize_edges = edges]
          /\ "resize" \in Grab
      BY DEF Grab
    <2> HIDE DEF r, v, t
    <2>3. Grabbed(s, k, "resize", w, w, edges, t)
      BY <2>1, <2>2, GrabEffect
    <2>4. GrabStep(s, t)
      BY <1>4, <2>3, HeldAfterGrab
    <2> QED
      BY <2>4 DEF t
  <1> QED
    BY <1>2, <1>3, <1>4

-----------------------------------------------------------------------------
(* Lists and containers.                                                   *)

\* The lists of workspace k, and the workspace and the fullscreen flag of window
\* w are assigned.
Relink(s, k, w, windows, ordinary, fullscreen, workspace, flag) ==
    PutWin(PutWs(s, k, [s.ws[k] EXCEPT !.windows = windows,
                                       !.window_container = ordinary,
                                       !.fullscreen_container = fullscreen]),
           w, [s.win[w] EXCEPT !.workspace = workspace, !.fullscreen = flag])

\* All but the links is left alone.
SameButLinks(s, t) == SameActivation(s, t) /\ SameEnabled(s, t) /\ SameGrab(s, t)

Relinked(s, k, w, windows, ordinary, fullscreen, workspace, flag, t) ==
    /\ t \in StateType
    /\ SameButLinks(s, t)
    /\ t.failed = s.failed
    /\ t.ws[k].windows = windows
    /\ t.ws[k].window_container = ordinary
    /\ t.ws[k].fullscreen_container = fullscreen
    /\ t.win[w].workspace = workspace
    /\ t.win[w].fullscreen = flag
    /\ \A j \in Workspace : j # k => t.ws[j] = s.ws[j]
    /\ \A v \in Window : v # w => t.win[v] = s.win[v]

LEMMA RelinkEffect ==
    ASSUME NEW s \in StateType, NEW k \in Workspace, NEW w \in Window,
           NEW windows \in Seq(Window), NEW ordinary \in Seq(Window),
           NEW fullscreen \in Seq(Window),
           NEW workspace \in Workspace \cup {NULL}, NEW flag \in BOOLEAN
    PROVE  Relinked(s, k, w, windows, ordinary, fullscreen, workspace, flag,
               Relink(s, k, w, windows, ordinary, fullscreen, workspace, flag))
  <1> DEFINE r == [s.ws[k] EXCEPT !.windows = windows,
                                  !.window_container = ordinary,
                                  !.fullscreen_container = fullscreen]
             v == [s.win[w] EXCEPT !.workspace = workspace, !.fullscreen = flag]
             p == PutWs(s, k, r)
             t == Relink(s, k, w, windows, ordinary, fullscreen, workspace, flag)
  <1>1. t = PutWin(p, w, v)
    BY DEF Relink
  <1>2. /\ r \in WorkspaceState
        /\ r.windows = windows
        /\ r.window_container = ordinary
        /\ r.fullscreen_container = fullscreen
        /\ r.grab = s.ws[k].grab
        /\ r.grabbed = s.ws[k].grabbed
        /\ r.enabled = s.ws[k].enabled
        /\ r.activated = s.ws[k].activated
        /\ r.formerly = s.ws[k].formerly
    BY DEF StateType, WorkspaceState
  <1>3. /\ v \in WindowState
        /\ v.workspace = workspace
        /\ v.fullscreen = flag
        /\ v.activated = s.win[w].activated
        /\ v.resize_edges = s.win[w].resize_edges
    BY DEF StateType, WindowState
  <1> HIDE DEF r, v, t
  <1>4. WsChanged(s, k, r, p)
    BY <1>2, PutWsEffect
  <1> HIDE DEF p
  <1>5. WinChanged(p, w, v, t)
    <2>1. p \in StateType
      BY <1>4 DEF WsChanged
    <2> QED
      BY <1>1, <1>3, <2>1, PutWinEffect
  <1>6. /\ t \in StateType
        /\ t.failed = s.failed
        /\ t.ws[k] = r
        /\ t.win[w] = v
        /\ \A j \in Workspace : j # k => t.ws[j] = s.ws[j]
        /\ \A u \in Window : u # w => t.win[u] = s.win[u]
    BY <1>4, <1>5 DEF WsChanged, WinChanged
  <1>7. \A j \in Workspace :
            /\ t.ws[j].grab = s.ws[j].grab
            /\ t.ws[j].grabbed = s.ws[j].grabbed
            /\ t.ws[j].enabled = s.ws[j].enabled
            /\ t.ws[j].activated = s.ws[j].activated
            /\ t.ws[j].formerly = s.ws[j].formerly
    BY <1>2, <1>6
  <1>8. \A u \in Window : /\ t.win[u].activated = s.win[u].activated
                          /\ t.win[u].resize_edges = s.win[u].resize_edges
    BY <1>3, <1>6
  <1>9. SameButLinks(s, t)
    BY <1>7, <1>8
       DEF SameButLinks, SameActivation, SameFormerly, SameEnabled, SameGrab
  <1>10. Relinked(s, k, w, windows, ordinary, fullscreen, workspace, flag, t)
    BY <1>2, <1>3, <1>6, <1>9 DEF Relinked
  <1> QED
    BY <1>10 DEF t

\* The lists of other workspaces do not know a window of k.
LEMMA RelinkedElsewhere ==
    ASSUME NEW s \in StateType, NEW k \in Workspace, NEW w \in Window, Linked(s),
           s.win[w].workspace \in {k, NULL},
           NEW windows, NEW ordinary, NEW fullscreen, NEW flag,
           NEW workspace \in {k, NULL},
           NEW t, Relinked(s, k, w, windows, ordinary, fullscreen, workspace, flag, t),
           LinkedAt(t, k)
    PROVE  Linked(t)
  <1>1. ASSUME NEW j \in Workspace, j # k PROVE LinkedAt(t, j)
    <2>1. WindowsOf(t, j) = WindowsOf(s, j) /\ w \notin WindowsOf(s, j)
      BY <1>1, ConstantsAreDistinct DEF Relinked, WindowsOf
    <2>2. LinkedAt(s, j)
      BY DEF Linked
    <2>3. t.ws[j] = s.ws[j] /\ t.failed = s.failed
      BY <1>1 DEF Relinked
    <2>4. \A u \in Members(s.ws[j].fullscreen_container) : t.win[u] = s.win[u]
      BY <2>1, <2>2 DEF Relinked, LinkedAt, WindowsOf
    <2> QED
      BY <2>1, <2>2, <2>3, <2>4 DEF LinkedAt
  <1> QED
    BY <1>1 DEF Linked

\* A window that no workspace holds may change its workspace.
Unheld(s, w) ==
    \A k \in Workspace : s.ws[k].formerly # w /\ s.ws[k].grabbed # w

LEMMA UnheldMayMove ==
    ASSUME NEW s \in StateType, NEW t \in StateType, NEW w \in Window,
           Active(s), Held(s), SameButLinks(s, t), Unheld(s, w),
           \A v \in Window : v # w => t.win[v].workspace = s.win[v].workspace
    PROVE  Active(t) /\ Held(t)
  <1>1. ASSUME NEW k \in Workspace
        PROVE  t.ws[k].formerly # NULL => t.win[t.ws[k].formerly].workspace = k
    <2>1. t.ws[k].formerly = s.ws[k].formerly /\ s.ws[k].formerly # w
      BY DEF SameButLinks, SameActivation, SameFormerly, Unheld
    <2>2. s.ws[k].formerly \in Window \cup {NULL}
      BY Fields
    <2> QED
      BY <2>1, <2>2 DEF Active, Agreed
  <1>2. Agreed(t)
    BY <1>1 DEF Active, Agreed, SameButLinks, SameActivation, SameFormerly
  <1>3. Active(t)
    BY <1>2 DEF Active, SameButLinks, SameActivation, SameEnabled
  <1>4. ASSUME NEW k \in Workspace
        PROVE  /\ t.ws[k].grab # "passthrough" <=> t.ws[k].grabbed # NULL
               /\ t.ws[k].grabbed # NULL => t.win[t.ws[k].grabbed].workspace = k
    <2>1. /\ t.ws[k].grabbed = s.ws[k].grabbed /\ s.ws[k].grabbed # w
          /\ t.ws[k].grab = s.ws[k].grab
      BY DEF SameButLinks, SameGrab, Unheld
    <2>2. s.ws[k].grabbed \in Window \cup {NULL}
      BY Fields
    <2> QED
      BY <2>1, <2>2 DEF Held
  <1>5. \A u \in Window : t.win[u].resize_edges # NULL =>
            \E k \in Workspace : t.ws[k].grab = "resize" /\ t.ws[k].grabbed = u
    BY DEF Held, SameButLinks, SameGrab
  <1> QED
    BY <1>3, <1>4, <1>5 DEF Held

\* A failing assertion ends the program, and changes nothing else.
Failed(s, site, t) ==
    /\ t \in StateType
    /\ t.ws = s.ws
    /\ t.win = s.win
    /\ t.failed = site

LEMMA FailEffect ==
    ASSUME NEW s \in StateType, NEW site \in Site
    PROVE  Failed(s, site, [s EXCEPT !.failed = site])
  BY DEF StateType, Failed

LEMMA FailedIsGood ==
    ASSUME NEW s, Good(s), NEW site \in Site, NEW t, Failed(s, site, t)
    PROVE  Good(t) /\ SameEnabled(s, t)
  <1>1. site # NULL
    BY ConstantsAreDistinct
  <1>2. Linked(t)
    BY <1>1 DEF Good, Failed, Linked, LinkedAt, WindowsOf
  <1> QED
    BY <1>2 DEF Good, Failed, Active, Agreed, Held, SameEnabled

-----------------------------------------------------------------------------
(* Unmapping and mapping.                                                  *)

\* The workspace k does not hold w any longer, and activates what it did if that
\* is another window.
SameActivationAt(s, k, t) ==
    /\ t.ws[k].activated = s.ws[k].activated
    /\ t.ws[k].formerly = s.ws[k].formerly

Released(s, k, w, t) ==
    /\ t \in StateType
    /\ SameLinks(s, t)
    /\ SameEnabled(s, t)
    /\ Active(t)
    /\ Held(t)
    /\ w \notin {t.ws[k].activated, t.ws[k].formerly, t.ws[k].grabbed}
    /\ \A j \in Workspace :
           j # k \/ w \notin {s.ws[k].activated, s.ws[k].formerly} =>
               SameActivationAt(s, j, t)

LEMMA ReleaseWindowEffect ==
    ASSUME NEW s, Good(s), NEW k \in Workspace, NEW w \in Window
    PROVE  Released(s, k, w, ReleaseWindow(s, k, w))
  <1> DEFINE free == IF s.ws[k].grabbed = w THEN ResetGrab(s, k) ELSE s
             idle == IF free.ws[k].activated = w THEN Deactivate(free, k) ELSE free
             t == IF idle.ws[k].formerly = w
                  THEN [idle EXCEPT !.ws[k].formerly = NULL] ELSE idle
  <1>1. ReleaseWindow(s, k, w) = t
    BY DEF ReleaseWindow
  <1>2. s \in StateType /\ Active(s) /\ Held(s) /\ w # NULL
    BY ConstantsAreDistinct DEF Good
  <1> HIDE DEF t, idle
  <1>3. GrabStep(s, free) /\ free.ws[k].grabbed # w
    <2>1. CASE s.ws[k].grabbed = w
      BY <1>2, <2>1, ResetGrabEffect
    <2>2. CASE s.ws[k].grabbed # w
      BY <1>2, <2>2, GrabStepItself
    <2> QED
      BY <2>1, <2>2
  <1> HIDE DEF free
  <1>4. /\ free \in StateType
        /\ SameLinks(s, free) /\ SameEnabled(s, free)
        /\ Active(free) /\ Held(free)
        /\ \A j \in Workspace : SameActivationAt(s, j, free)
    BY <1>2, <1>3, ActiveFrame
       DEF GrabStep, SameLinks, SameActivation, SameFormerly, SameActivationAt
  <1>5. /\ idle \in StateType
        /\ SameElsewhere(free, idle)
        /\ Active(idle)
        /\ idle.ws[k].activated # w
        /\ \A j \in Workspace : j # k \/ free.ws[k].activated # w =>
               SameActivationAt(free, j, idle)
        /\ idle.ws[k].formerly = free.ws[k].formerly
    <2>1. CASE free.ws[k].activated = w
      <3>1. idle = Deactivate(free, k)
        BY <2>1 DEF idle
      <3>2. Deactivated(free, k, idle)
        BY <1>4, <3>1, DeactivateEffect DEF Active
      <3>3. \A j \in Workspace : idle.ws[j].activated # NULL => idle.ws[j].enabled
        BY <1>4, <3>2 DEF Deactivated, Active
      <3> QED
        BY <1>2, <2>1, <3>2, <3>3
           DEF Deactivated, Active, SameActivationAt, SameFormerly
    <2>2. CASE free.ws[k].activated # w
      <3>1. idle = free
        BY <2>2 DEF idle
      <3> QED
        BY <1>4, <2>2, <3>1, SameElsewhereItself DEF SameActivationAt
    <2> QED
      BY <2>1, <2>2
  <1>6. /\ t \in StateType
        /\ SameElsewhere(idle, t)
        /\ Active(t)
        /\ t.ws[k].activated # w
        /\ t.ws[k].formerly # w
        /\ \A j \in Workspace : j # k \/ idle.ws[k].formerly # w =>
               SameActivationAt(idle, j, t)
    <2>1. CASE idle.ws[k].formerly = w
      <3>1. idle.ws[k].activated = NULL
        BY <1>5, <2>1 DEF Active, Agreed
      <3>2. [idle EXCEPT !.ws[k].formerly = NULL] = Assign(idle, k, NULL, NULL)
        BY <1>5, <3>1 DEF Assign, StateType, WorkspaceState
      <3>3. t = Assign(idle, k, NULL, NULL)
        BY <2>1, <3>2 DEF t
      <3>4. Assigned(idle, k, NULL, NULL, t)
        BY <1>5, <3>3, AssignEffect
      <3>5. /\ t \in StateType
            /\ t.win = idle.win
            /\ SameElsewhere(idle, t)
            /\ t.ws[k].activated = NULL
            /\ t.ws[k].formerly = NULL
            /\ \A j \in Workspace : j # k => t.ws[j] = idle.ws[j]
        BY <3>4 DEF Assigned
      <3>6. \A j \in Workspace : t.ws[j].activated = idle.ws[j].activated
        BY <3>1, <3>5
      <3>7. Agreed(t)
        BY <1>5, <3>5, <3>6 DEF Active, Agreed
      <3>8. Active(t)
        BY <1>5, <3>5, <3>7 DEF Active
      <3> QED
        BY <1>2, <2>1, <3>5, <3>8 DEF SameActivationAt
    <2>2. CASE idle.ws[k].formerly # w
      <3>1. t = idle
        BY <2>2 DEF t
      <3> QED
        BY <1>5, <2>2, <3>1, SameElsewhereItself DEF SameActivationAt
    <2> QED
      BY <2>1, <2>2
  <1>7. SameElsewhere(free, t)
    BY <1>5, <1>6, SameElsewhereTwice
  <1>8. SameLinks(s, t) /\ SameEnabled(s, t)
    BY <1>4, <1>7 DEF SameElsewhere, SameLinks, SameWorkspaceOfWindows, SameEnabled
  <1>9. Held(t)
    BY <1>4, <1>6, <1>7, HeldFrame DEF SameElsewhere, SameLinks
  <1>10. t.ws[k].grabbed # w
    BY <1>3, <1>7 DEF SameElsewhere, SameGrab
  <1>12. ASSUME NEW j \in Workspace,
                j # k \/ w \notin {s.ws[k].activated, s.ws[k].formerly}
         PROVE  SameActivationAt(s, j, t)
    <2>1. SameActivationAt(s, j, free) /\ SameActivationAt(s, k, free)
      BY <1>4
    <2>2. SameActivationAt(free, j, idle)
      BY <1>5, <1>12, <2>1 DEF SameActivationAt
    <2>3. SameActivationAt(idle, j, t)
      BY <1>5, <1>6, <1>12, <2>1 DEF SameActivationAt
    <2> QED
      BY <2>1, <2>2, <2>3 DEF SameActivationAt
  <1>11. Released(s, k, w, t)
    BY <1>6, <1>8, <1>9, <1>10, <1>12 DEF Released
  <1> QED
    BY <1>1, <1>11

\* w is no window of any workspace any longer.
Unlinked(s, w, t) ==
    /\ t \in StateType
    /\ SameButLinks(s, t)
    /\ t.failed = s.failed
    /\ t.win[w].workspace = NULL
    /\ \A v \in Window : v # w => t.win[v] = s.win[v]
    /\ \A j \in Workspace : t.ws[j].window_container # <<>> =>
           s.ws[j].window_container # <<>>
    /\ Linked(t)

LEMMA UnlinkWindowEffect ==
    ASSUME NEW s \in StateType, Linked(s), NEW k \in Workspace, NEW w \in Window,
           s.win[w].workspace = k, InItsContainer(s, k, w)
    PROVE  Unlinked(s, w, UnlinkWindow(s, k, w))
  <1> DEFINE t == UnlinkWindow(s, k, w)
             l == s.ws[k].windows
             o == s.ws[k].window_container
             f == s.ws[k].fullscreen_container
             flag == s.win[w].fullscreen
             newo == IF flag THEN o ELSE Remove(o, w)
             newf == IF flag THEN Remove(f, w) ELSE f
  <1>1. /\ l \in Seq(Window) /\ o \in Seq(Window) /\ f \in Seq(Window)
        /\ flag \in BOOLEAN
    BY Fields
  <1>2. /\ Unique(l) /\ Unique(o) /\ Unique(f)
        /\ Members(l) = WindowsOf(s, k)
        /\ Members(o) \cup Members(f) = WindowsOf(s, k)
        /\ Members(o) \cap Members(f) = {}
        /\ s.failed = NULL => \A v \in Members(f) : s.win[v].fullscreen
        /\ SameOrder(l, o)
    BY DEF Linked, LinkedAt
  <1>3. w \in Members(l)
    BY <1>2 DEF WindowsOf
  <1>4. IF flag THEN w \in Members(f) ELSE w \in Members(o)
    BY DEF InItsContainer
  <1>5. t = Relink(s, k, w, Remove(l, w), newo, newf, NULL, flag)
    <2> DEFINE r == [s.ws[k] EXCEPT !.windows = Remove(l, w),
                                    !.window_container = newo,
                                    !.fullscreen_container = newf]
               v == [s.win[w] EXCEPT !.workspace = NULL, !.fullscreen = flag]
               unlinked == [s EXCEPT !.ws[k].windows = Remove(@, w),
                                     !.win[w].workspace = NULL]
               q == [s.ws[k] EXCEPT !.windows = Remove(l, w)]
    <2>1. v = [s.win[w] EXCEPT !.workspace = NULL]
      BY DEF StateType, WindowState
    <2>2. unlinked = PutWin(PutWs(s, k, q), w, v)
      <3> HIDE DEF v
      <3> QED
        BY <2>1 DEF PutWin, PutWs, StateType, WorkspaceState, WindowState
    <2>3. r = IF flag THEN [q EXCEPT !.fullscreen_container = Remove(@, w)]
                      ELSE [q EXCEPT !.window_container = Remove(@, w)]
      BY DEF StateType, WorkspaceState
    <2>4. PutWin(PutWs(s, k, r), w, v)
              = IF flag
                THEN [unlinked EXCEPT !.ws[k].fullscreen_container = Remove(@, w)]
                ELSE [unlinked EXCEPT !.ws[k].window_container = Remove(@, w)]
      <3> HIDE DEF q, r, v, unlinked
      <3> QED
        BY <2>2, <2>3 DEF PutWin, PutWs, StateType
    <2> HIDE DEF r, v, unlinked
    <2>5. t = PutWin(PutWs(s, k, r), w, v)
      BY <2>4 DEF UnlinkWindow, unlinked
    <2> QED
      BY <2>5 DEF Relink, r, v
  <1>6. /\ Remove(l, w) \in Seq(Window)
        /\ newo \in Seq(Window)
        /\ newf \in Seq(Window)
    BY <1>1, RemoveType
  <1>7. /\ Unique(Remove(l, w)) /\ Members(Remove(l, w)) = Members(l) \ {w}
        /\ Unique(newo) /\ Members(newo) = Members(o) \ {w}
        /\ Unique(newf) /\ Members(newf) = Members(f) \ {w}
    <2>1. Unique(Remove(l, w)) /\ Members(Remove(l, w)) = Members(l) \ {w}
      BY <1>1, <1>2, <1>3, RemoveMembers
    <2>2. CASE flag
      BY <1>1, <1>2, <1>4, <2>1, <2>2, RemoveMembers
    <2>3. CASE ~flag
      BY <1>1, <1>2, <1>4, <2>1, <2>3, RemoveMembers
    <2> QED
      BY <2>2, <2>3
  <1>13. SameOrder(Remove(l, w), newo)
    <2>1. CASE flag
      BY <1>1, <1>2, <1>3, <1>4, <2>1, SameOrderRemove
    <2>2. CASE ~flag
      BY <1>1, <1>2, <1>3, <1>4, <2>2, SameOrderRemove
    <2> QED
      BY <2>1, <2>2
  <1> HIDE DEF t, newo, newf, l, o, f, flag
  <1>8. Relinked(s, k, w, Remove(l, w), newo, newf, NULL, flag, t)
    BY <1>1, <1>5, <1>6, RelinkEffect, ZenonT(60)
  <1>9. WindowsOf(t, k) = WindowsOf(s, k) \ {w}
    BY <1>8, ConstantsAreDistinct DEF Relinked, WindowsOf
  <1>10. LinkedAt(t, k)
    <2>1. Members(f) \subseteq Window
      BY <1>1, MembersType
    <2>2. \A u \in Members(newf) : u # w /\ t.win[u] = s.win[u]
      BY <1>7, <1>8, <2>1 DEF Relinked
    <2> QED
      BY <1>2, <1>7, <1>8, <1>9, <1>13, <2>2 DEF Relinked, LinkedAt
  <1>11. Linked(t)
    BY <1>8, <1>10, RelinkedElsewhere
  <1>14. newo # <<>> => o # <<>>
    BY <1>4 DEF Members, newo
  <1>15. \A j \in Workspace : t.ws[j].window_container # <<>> =>
             s.ws[j].window_container # <<>>
    BY <1>8, <1>14 DEF Relinked, o
  <1>12. Unlinked(s, w, t)
    BY <1>8, <1>11, <1>15 DEF Unlinked, Relinked
  <1> QED
    BY <1>12 DEF t

\* What every handler of a window on workspace k keeps. The only assertions that
\* may fail are those on the container of the window.
Kept(s, k, t) ==
    /\ Good(t)
    /\ SameEnabled(s, t)
    /\ \A v \in Window : t.win[v].workspace \in {s.win[v].workspace, NULL, k}
    /\ t.failed \in {s.failed, "container_remove", "container_raise",
                     "window_to_fullscreen"}

\* What it is when it returns.
Handled(s, k, t) == Kept(s, k, t) /\ (Focused(s) => Focused(t))

LEMMA KeptItself ==
    ASSUME NEW s, Good(s), NEW k PROVE Kept(s, k, s)
  BY DEF Kept, SameEnabled

LEMMA HandledItself ==
    ASSUME NEW s, Good(s), NEW k PROVE Handled(s, k, s)
  BY KeptItself DEF Handled

LEMMA KeptTwice ==
    ASSUME NEW s, NEW t, NEW u, NEW k, Kept(s, k, t), Kept(t, k, u)
    PROVE  Kept(s, k, u)
  BY DEF Kept, SameEnabled

LEMMA HandledTwice ==
    ASSUME NEW s, NEW t, NEW u, NEW k, Handled(s, k, t), Handled(t, k, u)
    PROVE  Handled(s, k, u)
  BY KeptTwice DEF Handled

LEMMA FailedIsKept ==
    ASSUME NEW s, Good(s), NEW k, NEW t,
           NEW site \in {"container_remove", "container_raise",
                         "window_to_fullscreen"},
           t = [s EXCEPT !.failed = site]
    PROVE  Handled(s, k, t) /\ t.failed # NULL /\ t.win = s.win
  <1>1. site \in Site /\ site # NULL
    BY ConstantsAreDistinct DEF Site
  <1>2. Failed(s, site, t)
    BY <1>1, FailEffect DEF Good
  <1> QED
    BY <1>1, <1>2, FailedIsGood DEF Handled, Kept, Failed, Focused, FocusedAt

\* Activating a window of k, or none, keeps what handlers keep.
LEMMA ActivateWindowIsKept ==
    ASSUME NEW s, Good(s), NEW k \in Workspace, NEW w \in Window \cup {NULL},
           w # NULL => s.win[w].workspace = k
    PROVE  /\ Kept(s, k, ActivateWindow(s, k, w))
           /\ SameLinks(s, ActivateWindow(s, k, w))
           /\ SameOthers(s, k, ActivateWindow(s, k, w))
           /\ w # NULL => FocusedAt(ActivateWindow(s, k, w), k)
  <1> DEFINE t == ActivateWindow(s, k, w)
  <1>1. Activated(s, k, w, t)
    BY ActivateWindowEffect DEF Good
  <1> HIDE DEF t
  <1>2. /\ t \in StateType
        /\ SameLinks(s, t) /\ SameEnabled(s, t) /\ SameGrab(s, t)
        /\ Active(t)
    BY <1>1 DEF Activated, SameElsewhere
  <1>3. Good(t)
    BY <1>2, LinkedFrame, HeldFrame DEF Good, SameLinks
  <1>4. Kept(s, k, t) /\ SameLinks(s, t)
    BY <1>2, <1>3 DEF Kept, SameLinks, SameWorkspaceOfWindows
  <1>5. SameOthers(s, k, t) /\ (w # NULL => FocusedAt(t, k))
    BY <1>1, <1>2 DEF Activated, SameOthers, FocusedAt, SameEnabled
  <1> QED
    BY <1>4, <1>5 DEF t

\* Activating a window gives the workspace focus.
LEMMA ActivateWindowIsHandled ==
    ASSUME NEW s, Good(s), NEW k \in Workspace, NEW w \in Window,
           s.win[w].workspace = k
    PROVE  Handled(s, k, ActivateWindow(s, k, w))
  <1>1. w # NULL
    BY ConstantsAreDistinct
  <1> QED
    BY <1>1, ActivateWindowIsKept, FocusedThere DEF Handled

LEMMA GrabStepIsHandled ==
    ASSUME NEW s, Good(s), NEW k, NEW t, GrabStep(s, t)
    PROVE  Handled(s, k, t)
  <1>1. Good(t)
    BY LinkedFrame, ActiveFrame DEF Good, GrabStep, SameLinks
  <1>2. Focused(s) => Focused(t)
    BY FocusedFrame DEF GrabStep
  <1> QED
    BY <1>1, <1>2 DEF Handled, Kept, GrabStep, SameLinks, SameWorkspaceOfWindows

\* The topmost window of the window container is one of the workspace.
LEMMA ActivateTopmostIsKept ==
    ASSUME NEW s, Good(s), NEW k \in Workspace
    PROVE  /\ Kept(s, k, ActivateTopmost(s, k))
           /\ SameLinks(s, ActivateTopmost(s, k))
           /\ SameOthers(s, k, ActivateTopmost(s, k))
           /\ FocusedAt(ActivateTopmost(s, k), k)
  <1> DEFINE o == s.ws[k].window_container
  <1>1. CASE o = <<>>
    <2>1. ActivateTopmost(s, k) = s
      BY <1>1 DEF ActivateTopmost
    <2> QED
      BY <1>1, <2>1, KeptItself
         DEF SameLinks, SameWorkspaceOfWindows, SameOthers, FocusedAt
  <1>2. CASE o # <<>>
    <2>1. ActivateTopmost(s, k) = ActivateWindow(s, k, Head(o))
      BY <1>2 DEF ActivateTopmost
    <2>2. o \in Seq(Window) /\ Members(o) \subseteq WindowsOf(s, k)
      BY Fields DEF Good, Linked, LinkedAt
    <2> HIDE DEF o
    <2>3. Head(o) \in WindowsOf(s, k) /\ Head(o) # NULL
      BY <1>2, <2>2, EndsAreMembers, ConstantsAreDistinct DEF WindowsOf
    <2> QED
      BY <2>1, <2>3, ActivateWindowIsKept DEF WindowsOf
  <1> QED
    BY <1>1, <1>2

LEMMA UnmapWindowIsHandled ==
    ASSUME NEW s, Good(s), NEW k \in Workspace, NEW w \in Window,
           s.win[w].workspace = k, s.failed = NULL
    PROVE  /\ Handled(s, k, UnmapWindow(s, k, w))
           /\ UnmapWindow(s, k, w).failed = NULL =>
                  UnmapWindow(s, k, w).win[w].workspace = NULL
  <1> DEFINE t == UnmapWindow(s, k, w)
             free == ReleaseWindow(s, k, w)
             unmapped == UnlinkWindow(free, k, w)
             needed == w \in {s.ws[k].activated, s.ws[k].formerly}
  <1>1. CASE ~InItsContainer(s, k, w)
    <2>1. t = [s EXCEPT !.failed = "container_remove"]
      BY <1>1 DEF UnmapWindow, Check
    <2> QED
      BY <2>1, FailedIsKept
  <1>2. CASE InItsContainer(s, k, w)
    <2>1. t = IF needed THEN ActivateTopmost(unmapped, k) ELSE unmapped
      BY <1>2 DEF UnmapWindow, Check
    <2> HIDE DEF t, unmapped
    <2>2. Released(s, k, w, free)
      BY ReleaseWindowEffect
    <2> HIDE DEF free
    <2>3. /\ free \in StateType
          /\ SameLinks(s, free) /\ SameEnabled(s, free)
          /\ Active(free) /\ Held(free)
          /\ free.ws[k].formerly # w /\ free.ws[k].grabbed # w
          /\ free.win[w].workspace = k
          /\ free.failed = NULL
      BY <2>2 DEF Released, SameLinks, SameWorkspaceOfWindows
    <2>4. Linked(free)
      BY <2>3, LinkedFrame DEF Good
    <2>5. InItsContainer(free, k, w)
      BY <1>2, <2>3 DEF InItsContainer, SameLinks
    <2>6. Unlinked(free, w, unmapped)
      BY <2>3, <2>4, <2>5, UnlinkWindowEffect DEF unmapped
    <2>7. Unheld(free, w)
      <3>1. ASSUME NEW j \in Workspace
            PROVE  free.ws[j].formerly # w /\ free.ws[j].grabbed # w
        <4>1. CASE j = k
          BY <2>3, <4>1
        <4>2. CASE j # k
          BY <2>3, <4>2, ConstantsAreDistinct DEF Active, Agreed, Held
        <4> QED
          BY <4>1, <4>2
      <3> QED
        BY <3>1 DEF Unheld
    <2>8. /\ unmapped \in StateType
          /\ SameButLinks(free, unmapped)
          /\ unmapped.failed = NULL
          /\ unmapped.win[w].workspace = NULL
          /\ \A v \in Window :
                 v # w => unmapped.win[v].workspace = free.win[v].workspace
          /\ Linked(unmapped)
      BY <2>3, <2>6 DEF Unlinked
    <2>9. Good(unmapped)
      BY <2>3, <2>7, <2>8, UnheldMayMove DEF Good
    <2>10. SameEnabled(s, unmapped)
      BY <2>3, <2>8 DEF SameButLinks, SameEnabled
    <2>11. \A v \in Window :
               unmapped.win[v].workspace \in {s.win[v].workspace, NULL}
      BY <2>3, <2>8 DEF SameLinks, SameWorkspaceOfWindows
    <2>12. Kept(s, k, unmapped)
      BY <2>8, <2>9, <2>10, <2>11 DEF Kept
    <2>13. /\ Kept(unmapped, k, ActivateTopmost(unmapped, k))
           /\ SameLinks(unmapped, ActivateTopmost(unmapped, k))
           /\ SameOthers(unmapped, k, ActivateTopmost(unmapped, k))
           /\ FocusedAt(ActivateTopmost(unmapped, k), k)
      BY <2>9, ActivateTopmostIsKept
    <2>15. ASSUME NEW j \in Workspace, j # k \/ ~needed, FocusedAt(s, j)
           PROVE  FocusedAt(unmapped, j)
      <3>1. SameActivationAt(s, j, free)
        BY <2>2, <2>15 DEF Released
      <3>2. /\ unmapped.ws[j].activated = s.ws[j].activated
            /\ unmapped.ws[j].formerly = s.ws[j].formerly
        BY <2>8, <3>1
           DEF SameActivationAt, SameButLinks, SameActivation, SameFormerly
      <3>3. unmapped.ws[j].window_container # <<>> =>
                s.ws[j].window_container # <<>>
        BY <2>3, <2>6 DEF Unlinked, SameLinks
      <3> QED
        BY <2>10, <2>15, <3>2, <3>3 DEF FocusedAt, SameEnabled
    <2>16. Focused(s) => Focused(t)
      <3>1. CASE ~needed
        BY <2>1, <2>15, <3>1 DEF Focused
      <3>2. CASE needed
        BY <2>1, <2>13, <2>15, <3>2 DEF Focused, SameOthers, FocusedAt
      <3> QED
        BY <3>1, <3>2
    <2>14. Handled(s, k, t) /\ t.win[w].workspace = NULL
      <3>1. CASE t = unmapped
        BY <2>8, <2>12, <2>16, <3>1 DEF Handled
      <3>2. CASE t = ActivateTopmost(unmapped, k)
        <4> HIDE DEF t
        <4>1. Kept(s, k, t)
          BY <2>12, <2>13, <3>2, KeptTwice
        <4>2. SameLinks(unmapped, t)
          BY <2>13, <3>2
        <4> QED
          BY <2>8, <2>16, <4>1, <4>2 DEF Handled, SameLinks, SameWorkspaceOfWindows
      <3> QED
        BY <2>1, <3>1, <3>2
    <2> QED
      BY <2>14 DEF t
  <1> QED
    BY <1>1, <1>2

LEMMA MapWindowIsHandled ==
    ASSUME NEW s, Good(s), NEW k \in Workspace, NEW w \in Window,
           s.failed = NULL => s.win[w].workspace = NULL
    PROVE  /\ Handled(s, k, MapWindow(s, k, w))
           /\ MapWindow(s, k, w).failed = s.failed
  <1>1. CASE s.failed # NULL
    <2>1. MapWindow(s, k, w) = s
      BY <1>1 DEF MapWindow, Check
    <2> QED
      BY <2>1, HandledItself
  <1>2. CASE s.failed = NULL
    <2> DEFINE l == s.ws[k].windows
               o == s.ws[k].window_container
               f == s.ws[k].fullscreen_container
               flag == s.win[w].fullscreen
               t == Relink(s, k, w, PushFront(l, w), PushFront(o, w), f, k, flag)
    <2>1. s \in StateType /\ Linked(s) /\ s.win[w].workspace = NULL
      BY <1>2 DEF Good
    <2>2. MapWindow(s, k, w) = ActivateWindow(t, k, w)
      <3> DEFINE r == [s.ws[k] EXCEPT !.windows = PushFront(l, w),
                                      !.window_container = PushFront(o, w),
                                      !.fullscreen_container = f]
                 v == [s.win[w] EXCEPT !.workspace = k, !.fullscreen = flag]
      <3>1. r = [s.ws[k] EXCEPT !.window_container = PushFront(@, w),
                                !.windows = PushFront(@, w)]
        BY <2>1 DEF StateType, WorkspaceState
      <3>2. v = [s.win[w] EXCEPT !.workspace = k]
        BY <2>1 DEF StateType, WindowState
      <3>3. PutWin(PutWs(s, k, r), w, v)
                = [s EXCEPT !.ws[k].window_container = PushFront(@, w),
                            !.ws[k].windows = PushFront(@, w),
                            !.win[w].workspace = k]
        <4> HIDE DEF r, v
        <4> QED
          BY <2>1, <3>1, <3>2
             DEF PutWin, PutWs, StateType, WorkspaceState, WindowState
      <3> QED
        BY <1>2, <2>1, <3>3 DEF MapWindow, Check, Relink
    <2>3. /\ l \in Seq(Window) /\ o \in Seq(Window) /\ f \in Seq(Window)
          /\ flag \in BOOLEAN
      BY <2>1, Fields
    <2>4. /\ Unique(l) /\ Unique(o) /\ Unique(f)
          /\ Members(l) = WindowsOf(s, k)
          /\ Members(o) \cup Members(f) = WindowsOf(s, k)
          /\ Members(o) \cap Members(f) = {}
          /\ \A v \in Members(f) : s.win[v].fullscreen
          /\ SameOrder(l, o)
      BY <1>2, <2>1 DEF Linked, LinkedAt
    <2>5. w \notin WindowsOf(s, k)
      BY <2>1, ConstantsAreDistinct DEF WindowsOf
    <2> HIDE DEF l, o, f, flag, t
    <2>6. /\ PushFront(l, w) \in Seq(Window)
          /\ Unique(PushFront(l, w))
          /\ Members(PushFront(l, w)) = Members(l) \cup {w}
          /\ PushFront(o, w) \in Seq(Window)
          /\ Unique(PushFront(o, w))
          /\ Members(PushFront(o, w)) = Members(o) \cup {w}
          /\ SameOrder(PushFront(l, w), PushFront(o, w))
      BY <2>3, <2>4, <2>5, PushFrontMembers, SameOrderPushFront
    <2>7. Relinked(s, k, w, PushFront(l, w), PushFront(o, w), f, k, flag, t)
      BY <2>1, <2>3, <2>6, RelinkEffect DEF t
    <2>8. WindowsOf(t, k) = WindowsOf(s, k) \cup {w}
      BY <2>7 DEF Relinked, WindowsOf
    <2>9. LinkedAt(t, k)
      <3>1. \A v \in Members(f) : t.win[v].fullscreen
        BY <2>4, <2>5, <2>7 DEF Relinked, WindowsOf
      <3> QED
        BY <2>4, <2>5, <2>6, <2>7, <2>8, <3>1 DEF Relinked, LinkedAt
    <2>10. Linked(t)
      BY <2>1, <2>7, <2>9, RelinkedElsewhere
    <2>11. Unheld(s, w)
      BY <2>1, ConstantsAreDistinct DEF Unheld, Good, Active, Agreed, Held
    <2>12. Good(t)
      BY <2>7, <2>10, <2>11, UnheldMayMove DEF Good, Relinked
    <2>13. Kept(s, k, t) /\ t.win[w].workspace = k
      BY <2>7, <2>12 DEF Kept, Relinked, SameButLinks
    <2>14. /\ Kept(t, k, ActivateWindow(t, k, w))
           /\ ActivateWindow(t, k, w).failed = t.failed
           /\ SameOthers(t, k, ActivateWindow(t, k, w))
           /\ FocusedAt(ActivateWindow(t, k, w), k)
      BY <2>12, <2>13, ActivateWindowIsKept, ConstantsAreDistinct DEF SameLinks
    <2>15. t.failed = s.failed /\ SameOthers(s, k, t)
      BY <2>7 DEF Relinked, SameButLinks, SameOthers
    <2>16. Kept(s, k, MapWindow(s, k, w))
      BY <2>2, <2>13, <2>14, KeptTwice
    <2>17. SameOthers(s, k, MapWindow(s, k, w))
      BY <2>2, <2>14, <2>15 DEF SameOthers
    <2>18. Focused(s) => Focused(MapWindow(s, k, w))
      BY <2>2, <2>14, <2>17, FocusedThere
    <2> QED
      BY <2>2, <2>14, <2>15, <2>16, <2>18 DEF Handled
  <1> QED
    BY <1>1, <1>2

\* w, a window of k, gets other lists with the same members, or another container.
LEMMA RelinkedIsKept ==
    ASSUME NEW s, Good(s), NEW k \in Workspace, NEW w \in Window,
           s.win[w].workspace = k,
           NEW windows, NEW ordinary, NEW fullscreen, NEW flag,
           NEW t, Relinked(s, k, w, windows, ordinary, fullscreen, k, flag, t),
           Unique(windows), Unique(ordinary), Unique(fullscreen),
           Members(windows) = WindowsOf(s, k),
           Members(ordinary) \cup Members(fullscreen) = WindowsOf(s, k),
           Members(ordinary) \cap Members(fullscreen) = {},
           SameOrder(windows, ordinary),
           s.failed = NULL =>
               \A v \in Members(fullscreen) : IF v = w THEN flag
                                              ELSE s.win[v].fullscreen
    PROVE  Kept(s, k, t) /\ t.win[w].workspace = k /\ t.failed = s.failed
  <1>1. SameWorkspaceOfWindows(s, t)
    BY DEF Relinked, SameWorkspaceOfWindows
  <1>2. WindowsOf(t, k) = WindowsOf(s, k)
    BY <1>1 DEF SameWorkspaceOfWindows, WindowsOf
  <1>3. s.failed = NULL => \A v \in Members(fullscreen) : t.win[v].fullscreen
    BY DEF Relinked, WindowsOf
  <1>4. LinkedAt(t, k)
    BY <1>2, <1>3 DEF Relinked, LinkedAt
  <1>5. Linked(t)
    BY <1>4, RelinkedElsewhere DEF Good
  <1>6. Active(t) /\ Held(t)
    BY <1>1, ActiveFrame, HeldFrame DEF Good, Relinked, SameButLinks
  <1>7. Good(t)
    BY <1>5, <1>6 DEF Good, Relinked
  <1> QED
    BY <1>1, <1>7 DEF Kept, Relinked, SameButLinks, SameWorkspaceOfWindows

LEMMA RaiseWindowIsHandled ==
    ASSUME NEW s, Good(s), NEW k \in Workspace, NEW w \in Window,
           s.win[w].workspace = k
    PROVE  /\ Handled(s, k, RaiseWindow(s, k, w))
           /\ RaiseWindow(s, k, w).win[w].workspace = k
  <1> DEFINE t == RaiseWindow(s, k, w)
             l == s.ws[k].windows
             o == s.ws[k].window_container
             f == s.ws[k].fullscreen_container
             flag == s.win[w].fullscreen
  <1>1. CASE s.failed # NULL
    <2>1. t = s
      BY <1>1 DEF RaiseWindow, Check
    <2> QED
      BY <2>1, HandledItself
  <1>2. CASE s.failed = NULL /\ w \notin Members(o)
    <2>1. t = [s EXCEPT !.failed = "container_raise"]
      BY <1>2 DEF RaiseWindow, Check
    <2> QED
      BY <2>1, FailedIsKept
  <1>3. CASE s.failed = NULL /\ w \in Members(o)
    <2>1. s \in StateType /\ LinkedAt(s, k)
      BY DEF Good, Linked
    <2>2. /\ l \in Seq(Window) /\ o \in Seq(Window) /\ f \in Seq(Window)
          /\ flag \in BOOLEAN
      BY <2>1, Fields
    <2>3. t = Relink(s, k, w, MoveToFront(l, w), MoveToFront(o, w), f, k, flag)
      <3> DEFINE r == [s.ws[k] EXCEPT !.windows = MoveToFront(l, w),
                                      !.window_container = MoveToFront(o, w),
                                      !.fullscreen_container = f]
                 v == [s.win[w] EXCEPT !.workspace = k, !.fullscreen = flag]
      <3>1. r = [s.ws[k] EXCEPT !.windows = MoveToFront(@, w),
                                !.window_container = MoveToFront(@, w)]
        BY <2>1 DEF StateType, WorkspaceState
      <3>2. v = s.win[w]
        BY <2>1 DEF StateType, WindowState
      <3>3. PutWin(PutWs(s, k, r), w, v)
                = [s EXCEPT !.ws[k].windows = MoveToFront(@, w),
                            !.ws[k].window_container = MoveToFront(@, w)]
        <4> HIDE DEF r, v
        <4> QED
          BY <2>1, <3>1, <3>2, ZenonT(60)
             DEF PutWin, PutWs, StateType, WorkspaceState, WindowState
      <3> QED
        BY <1>3, <3>3 DEF RaiseWindow, Check, Relink
    <2>4. /\ Unique(l) /\ Unique(o) /\ Unique(f)
          /\ Members(l) = WindowsOf(s, k)
          /\ Members(o) \cup Members(f) = WindowsOf(s, k)
          /\ Members(o) \cap Members(f) = {}
          /\ \A v \in Members(f) : s.win[v].fullscreen
          /\ SameOrder(l, o)
      BY <1>3, <2>1 DEF LinkedAt
    <2>5. w \in Members(l) /\ w \in Members(o)
      BY <1>3, <2>4
    <2> HIDE DEF t, l, o, f, flag
    <2>6. /\ MoveToFront(l, w) \in Seq(Window)
          /\ Unique(MoveToFront(l, w))
          /\ Members(MoveToFront(l, w)) = Members(l)
          /\ MoveToFront(o, w) \in Seq(Window)
          /\ Unique(MoveToFront(o, w))
          /\ Members(MoveToFront(o, w)) = Members(o)
          /\ SameOrder(MoveToFront(l, w), MoveToFront(o, w))
      BY <2>2, <2>4, <2>5, MoveToFrontMembers, SameOrderMoveToFront
    <2>7. Relinked(s, k, w, MoveToFront(l, w), MoveToFront(o, w), f, k, flag, t)
      BY <2>1, <2>2, <2>3, <2>6, RelinkEffect
    <2>8. w \notin Members(f)
      BY <2>4, <2>5
    <2>9. Kept(s, k, t) /\ t.win[w].workspace = k
      BY <2>4, <2>6, <2>7, <2>8, RelinkedIsKept
    <2>10. FocusedAt(s, k) => FocusedAt(t, k)
      <3>1. s.ws[k].window_container # <<>>
        BY <2>5 DEF Members, o
      <3> QED
        BY <2>7, <3>1 DEF Relinked, SameButLinks, SameActivation, SameFormerly,
                          SameEnabled, FocusedAt
    <2>11. SameOthers(s, k, t)
      BY <2>7 DEF Relinked, SameOthers
    <2>12. Focused(s) => Focused(t)
      BY <2>10, <2>11, FocusedThere DEF Focused
    <2> QED
      BY <2>9, <2>12 DEF t, Handled
  <1> QED
    BY <1>1, <1>2, <1>3

-----------------------------------------------------------------------------
(* Fullscreen.                                                             *)

\* Only the window's own flag was set.
Flagged(s, w, b, t) ==
    /\ t \in StateType
    /\ t.ws = s.ws
    /\ t.failed = s.failed
    /\ t.win[w].fullscreen = b
    /\ \A v \in Window : v # w => t.win[v] = s.win[v]
    /\ SameWorkspaceOfWindows(s, t)
    /\ SameButLinks(s, t)

LEMMA FullscreenFlagEffect ==
    ASSUME NEW s \in StateType, NEW w \in Window, NEW b \in BOOLEAN
    PROVE  Flagged(s, w, b, [s EXCEPT !.win[w].fullscreen = b])
  <1> DEFINE t == [s EXCEPT !.win[w].fullscreen = b]
             r == [s.win[w] EXCEPT !.fullscreen = b]
  <1>1. t = PutWin(s, w, r)
    BY DEF PutWin
  <1>2. /\ r \in WindowState
        /\ r.fullscreen = b
        /\ r.workspace = s.win[w].workspace
        /\ r.activated = s.win[w].activated
        /\ r.resize_edges = s.win[w].resize_edges
    BY DEF StateType, WindowState
  <1> HIDE DEF r, t
  <1>3. WinChanged(s, w, r, t)
    BY <1>1, <1>2, PutWinEffect
  <1>4. /\ t.win[w] = r /\ t.ws = s.ws
        /\ \A v \in Window : v # w => t.win[v] = s.win[v]
    BY <1>3 DEF WinChanged
  <1>5. \A v \in Window :
            /\ t.win[v].workspace = s.win[v].workspace
            /\ t.win[v].activated = s.win[v].activated
            /\ t.win[v].resize_edges = s.win[v].resize_edges
    BY <1>2, <1>4
  <1>6. SameWorkspaceOfWindows(s, t) /\ SameButLinks(s, t)
    BY <1>4, <1>5 DEF SameWorkspaceOfWindows, SameButLinks, SameActivation,
       SameFormerly, SameEnabled, SameGrab
  <1>7. Flagged(s, w, b, t)
    BY <1>2, <1>3, <1>4, <1>6 DEF Flagged, WinChanged
  <1> QED
    BY <1>7 DEF t

\* Nothing looks at the flag of a window that is not mapped, or once the program
\* has ended.
LEMMA FlaggedIsHandled ==
    ASSUME NEW s, Good(s), NEW w \in Window, NEW b,
           NEW k \in Workspace \cup {NULL}, NEW t, Flagged(s, w, b, t),
           s.win[w].workspace = NULL
    PROVE  Handled(s, k, t)
  <1>1. s \in StateType /\ Linked(s) /\ Active(s) /\ Held(s)
    BY DEF Good
  <1>2. ASSUME NEW j \in Workspace PROVE LinkedAt(t, j)
    <2>1. LinkedAt(s, j)
      BY <1>1 DEF Linked
    <2>2. WindowsOf(t, j) = WindowsOf(s, j) /\ w \notin WindowsOf(s, j)
      BY ConstantsAreDistinct DEF Flagged, SameWorkspaceOfWindows, WindowsOf
    <2>3. \A v \in Members(s.ws[j].fullscreen_container) : t.win[v] = s.win[v]
      BY <2>1, <2>2 DEF LinkedAt, Flagged, WindowsOf
    <2> QED
      BY <2>1, <2>2, <2>3 DEF LinkedAt, Flagged
  <1>3. Active(t) /\ Held(t)
    BY <1>1, ActiveFrame, HeldFrame DEF Flagged, SameButLinks
  <1> QED
    BY <1>2, <1>3 DEF Handled, Kept, Good, Linked, Flagged, SameButLinks,
                      SameWorkspaceOfWindows, Focused, FocusedAt

LEMMA FlaggedAndFailedIsHandled ==
    ASSUME NEW s, Good(s), NEW w \in Window, NEW b,
           NEW k, NEW t, Flagged(s, w, b, t),
           NEW u, Failed(t, "window_to_fullscreen", u)
    PROVE  Handled(s, k, u)
  <1>1. s \in StateType /\ Linked(s) /\ Active(s) /\ Held(s)
    BY DEF Good
  <1>2. /\ u \in StateType /\ u.failed = "window_to_fullscreen"
        /\ u.failed # NULL
        /\ u.ws = s.ws
        /\ SameWorkspaceOfWindows(s, u)
        /\ SameButLinks(s, u)
    BY ConstantsAreDistinct DEF Site, Flagged, Failed, SameWorkspaceOfWindows,
       SameButLinks, SameActivation, SameFormerly, SameEnabled, SameGrab
  <1>3. ASSUME NEW j \in Workspace PROVE LinkedAt(u, j)
    <2>1. LinkedAt(s, j)
      BY <1>1 DEF Linked
    <2>2. WindowsOf(u, j) = WindowsOf(s, j)
      BY <1>2 DEF SameWorkspaceOfWindows, WindowsOf
    <2> QED
      BY <1>2, <2>1, <2>2 DEF LinkedAt
  <1>4. Active(u) /\ Held(u)
    BY <1>1, <1>2, ActiveFrame, HeldFrame DEF SameButLinks
  <1> QED
    BY <1>2, <1>3, <1>4 DEF Handled, Kept, Good, Linked, SameButLinks,
                            SameWorkspaceOfWindows, Focused, FocusedAt

\* The flag and the lists change together.
LEMMA FlaggedAndRelinked ==
    ASSUME NEW s, NEW k \in Workspace, NEW w \in Window, NEW b,
           NEW x, Flagged(s, w, b, x),
           NEW windows, NEW ordinary, NEW fullscreen, NEW workspace, NEW t,
           Relinked(x, k, w, windows, ordinary, fullscreen, workspace, b, t)
    PROVE  Relinked(s, k, w, windows, ordinary, fullscreen, workspace, b, t)
  <1>1. SameButLinks(s, t)
    BY DEF Flagged, Relinked, SameButLinks, SameActivation, SameFormerly,
       SameEnabled, SameGrab
  <1> QED
    BY <1>1 DEF Flagged, Relinked

\* "Activating no window" is deactivation.
LEMMA ActivatingNone ==
    ASSUME NEW s, NEW k PROVE ActivateWindow(s, k, NULL) = Deactivate(s, k)
  <1>1. CASE s.ws[k].activated = NULL
    <2>1. Deactivate(s, k) = s
      BY <1>1 DEF Deactivate
    <2>2. ActivateWindow(s, k, NULL) = s
      BY <1>1 DEF ActivateWindow
    <2> QED
      BY <2>1, <2>2
  <1>2. CASE s.ws[k].activated # NULL
    BY <1>2 DEF ActivateWindow
  <1> QED
    BY <1>1, <1>2

LEMMA CommitFullscreenIsHandled ==
    ASSUME NEW s, Good(s), s.failed = NULL, NEW w \in Window, NEW b \in BOOLEAN
    PROVE  Handled(s, s.win[w].workspace, CommitFullscreen(s, w, b))
  <1> DEFINE t == CommitFullscreen(s, w, b)
             k == s.win[w].workspace
             x == [s EXCEPT !.win[w].fullscreen = b]
  <1>1. s \in StateType /\ k \in Workspace \cup {NULL}
    BY Fields DEF Good
  <1>2. Flagged(s, w, b, x)
    BY <1>1, FullscreenFlagEffect
  <1>3. CASE s.win[w].fullscreen = b
    <2>1. t = s
      BY <1>3 DEF CommitFullscreen
    <2> QED
      BY <2>1, HandledItself
  <1>4. CASE s.win[w].fullscreen # b /\ k = NULL
    <2>1. t = x
      BY <1>4 DEF CommitFullscreen
    <2> QED
      BY <1>1, <1>2, <1>4, <2>1, FlaggedIsHandled
  <1>5. CASE s.win[w].fullscreen # b /\ k # NULL
    <2>1. k \in Workspace /\ t = WindowToFullscreen(x, k, w)
      BY <1>1, <1>5 DEF CommitFullscreen
    <2> DEFINE l == s.ws[k].windows
               o == s.ws[k].window_container
               f == s.ws[k].fullscreen_container
               from == IF b THEN o ELSE f
               windows == IF b THEN l ELSE MoveToFront(l, w)
               ordinary == IF b THEN Remove(o, w) ELSE PushFront(o, w)
               fullscreen == IF b THEN PushFront(f, w) ELSE Remove(f, w)
               moved == Relink(x, k, w, windows, ordinary, fullscreen, k, b)
               idle == Deactivate(moved, k)
    <2>2. /\ x \in StateType /\ x.ws = s.ws /\ x.failed = NULL
          /\ x.win[w].fullscreen = b /\ x.win[w].workspace = k
      BY <1>2 DEF Flagged, SameWorkspaceOfWindows
    <2> HIDE DEF x
    <2>3. t = IF w \in Members(from) THEN ActivateWindow(idle, k, w)
              ELSE [x EXCEPT !.failed = "window_to_fullscreen"]
      <3> DEFINE r == [x.ws[k] EXCEPT !.windows = windows,
                                      !.window_container = ordinary,
                                      !.fullscreen_container = fullscreen]
                 v == [x.win[w] EXCEPT !.workspace = k, !.fullscreen = b]
      <3>1. v = x.win[w]
        BY <2>2 DEF StateType, WindowState
      <3>2. CASE b
        <4>1. r = [x.ws[k] EXCEPT !.window_container = Remove(@, w),
                                  !.fullscreen_container = PushFront(@, w)]
          BY <2>1, <2>2, <3>2 DEF StateType, WorkspaceState
        <4>2. PutWin(PutWs(x, k, r), w, v)
                  = [x EXCEPT !.ws[k].window_container = Remove(@, w),
                              !.ws[k].fullscreen_container = PushFront(@, w)]
          <5> HIDE DEF r, v
          <5> QED
            BY <2>1, <2>2, <3>1, <4>1, ZenonT(60)
               DEF PutWin, PutWs, StateType, WorkspaceState, WindowState
        <4>3. moved = [x EXCEPT !.ws[k].window_container = Remove(@, w),
                                !.ws[k].fullscreen_container = PushFront(@, w)]
          BY <4>2 DEF Relink
        <4> HIDE DEF moved
        <4> QED
          BY <2>1, <2>2, <3>2, <4>3, ZenonT(30) DEF WindowToFullscreen, Check
      <3>3. CASE ~b
        <4>1. r = [x.ws[k] EXCEPT !.fullscreen_container = Remove(@, w),
                                  !.window_container = PushFront(@, w),
                                  !.windows = MoveToFront(@, w)]
          BY <2>1, <2>2, <3>3 DEF StateType, WorkspaceState
        <4>2. PutWin(PutWs(x, k, r), w, v)
                  = [x EXCEPT !.ws[k].fullscreen_container = Remove(@, w),
                              !.ws[k].window_container = PushFront(@, w),
                              !.ws[k].windows = MoveToFront(@, w)]
          <5> HIDE DEF r, v
          <5> QED
            BY <2>1, <2>2, <3>1, <4>1, ZenonT(60)
               DEF PutWin, PutWs, StateType, WorkspaceState, WindowState
        <4>3. moved = [x EXCEPT !.ws[k].fullscreen_container = Remove(@, w),
                                !.ws[k].window_container = PushFront(@, w),
                                !.ws[k].windows = MoveToFront(@, w)]
          BY <4>2 DEF Relink
        <4> HIDE DEF moved
        <4> QED
          BY <2>1, <2>2, <3>3, <4>3, ZenonT(30) DEF WindowToFullscreen, Check
      <3> QED
        BY <3>2, <3>3
    <2> HIDE DEF moved, idle, t
    <2>4. CASE w \notin Members(from)
      <3>1. Failed(x, "window_to_fullscreen", t)
        BY <2>2, <2>3, <2>4, FailEffect DEF Site
      <3> QED
        BY <1>2, <3>1, FlaggedAndFailedIsHandled DEF t
    <2>5. CASE w \in Members(from)
      <3>a. s.win[w].workspace = k
        OBVIOUS
      <3> HIDE DEF k
      <3>1. /\ l \in Seq(Window) /\ o \in Seq(Window) /\ f \in Seq(Window)
            /\ Unique(l) /\ Unique(o) /\ Unique(f)
            /\ Members(l) = WindowsOf(s, k)
            /\ Members(o) \cup Members(f) = WindowsOf(s, k)
            /\ Members(o) \cap Members(f) = {}
            /\ \A v \in Members(f) : s.win[v].fullscreen
            /\ SameOrder(l, o)
        BY <1>1, <2>1, Fields DEF Good, Linked, LinkedAt
      <3> HIDE DEF l, o, f
      <3>2. w \in Members(l)
        BY <3>1, <2>1 DEF WindowsOf, k
      <3>3. /\ windows \in Seq(Window) /\ Unique(windows)
            /\ Members(windows) = WindowsOf(s, k)
        BY <3>1, <3>2, MoveToFrontMembers
      <3>4. /\ ordinary \in Seq(Window) /\ Unique(ordinary)
            /\ Members(ordinary) = IF b THEN Members(o) \ {w}
                                   ELSE Members(o) \cup {w}
            /\ fullscreen \in Seq(Window) /\ Unique(fullscreen)
            /\ Members(fullscreen) = IF b THEN Members(f) \cup {w}
                                     ELSE Members(f) \ {w}
            /\ SameOrder(windows, ordinary)
        <4>1. CASE b
          <5>1. w \in Members(o) /\ w \notin Members(f)
            BY <2>5, <3>1, <4>1
          <5>2. /\ ordinary = Remove(o, w)
                /\ fullscreen = PushFront(f, w)
            BY <4>1
          <5>3. /\ ordinary \in Seq(Window) /\ Unique(ordinary)
                /\ Members(ordinary) = Members(o) \ {w}
                /\ SameOrder(l, ordinary)
            BY <3>1, <5>1, <5>2, RemoveType, RemoveMembers, SameOrderRemove
          <5>4. /\ fullscreen \in Seq(Window) /\ Unique(fullscreen)
                /\ Members(fullscreen) = Members(f) \cup {w}
            BY <3>1, <5>1, <5>2, PushFrontMembers
          <5> QED
            BY <4>1, <5>3, <5>4
        <4>2. CASE ~b
          <5>1. w \in Members(f) /\ w \notin Members(o)
            BY <2>5, <3>1, <4>2
          <5>2. /\ fullscreen = Remove(f, w)
                /\ ordinary = PushFront(o, w)
            BY <4>2
          <5>3. /\ fullscreen \in Seq(Window) /\ Unique(fullscreen)
                /\ Members(fullscreen) = Members(f) \ {w}
            BY <3>1, <5>1, <5>2, RemoveType, RemoveMembers
          <5>4. /\ ordinary \in Seq(Window) /\ Unique(ordinary)
                /\ Members(ordinary) = Members(o) \cup {w}
                /\ SameOrder(MoveToFront(l, w), ordinary)
            BY <3>1, <3>2, <5>1, <5>2, PushFrontMembers, SameOrderMoveToFront
          <5> QED
            BY <4>2, <5>3, <5>4
        <4> QED
          BY <4>1, <4>2
      <3> HIDE DEF windows, ordinary, fullscreen
      <3>5. Relinked(s, k, w, windows, ordinary, fullscreen, k, b, moved)
        <4>1. Relinked(x, k, w, windows, ordinary, fullscreen, k, b, moved)
          BY <2>1, <2>2, <3>3, <3>4, RelinkEffect DEF moved
        <4> QED
          BY <1>2, <2>1, <4>1, FlaggedAndRelinked
      <3>6. /\ Members(ordinary) \cup Members(fullscreen) = WindowsOf(s, k)
            /\ Members(ordinary) \cap Members(fullscreen) = {}
            /\ \A v \in Members(fullscreen) : IF v = w THEN b
                                              ELSE s.win[v].fullscreen
        BY <3>1, <3>2, <3>4, <2>5
      <3>7. Kept(s, k, moved) /\ moved.win[w].workspace = k
        BY <2>1, <3>a, <3>3, <3>4, <3>5, <3>6, RelinkedIsKept
      <3>8. Good(moved)
        BY <3>7 DEF Kept
      <3>9. idle = ActivateWindow(moved, k, NULL)
        BY ActivatingNone DEF idle
      <3>10. /\ Kept(moved, k, idle) /\ SameLinks(moved, idle)
             /\ SameOthers(moved, k, idle)
        BY <2>1, <3>8, <3>9, ActivateWindowIsKept
      <3>11. Good(idle) /\ idle.win[w].workspace = k
        BY <3>7, <3>10 DEF Kept, SameLinks, SameWorkspaceOfWindows
      <3>12. /\ Kept(idle, k, ActivateWindow(idle, k, w))
             /\ SameOthers(idle, k, ActivateWindow(idle, k, w))
             /\ FocusedAt(ActivateWindow(idle, k, w), k)
        BY <2>1, <3>11, ActivateWindowIsKept, ConstantsAreDistinct
      <3>13. t = ActivateWindow(idle, k, w)
        BY <2>3, <2>5
      <3>14. Kept(s, k, t)
        BY <3>7, <3>10, <3>12, <3>13, KeptTwice
      <3>15. SameOthers(s, k, t)
        BY <3>5, <3>10, <3>12, <3>13 DEF SameOthers, Relinked
      <3>16. Focused(s) => Focused(t)
        BY <3>12, <3>13, <3>15, FocusedThere
      <3> QED
        BY <3>14, <3>16 DEF t, k, Handled
    <2> QED
      BY <2>4, <2>5
  <1> QED
    BY <1>1, <1>3, <1>4, <1>5

\* The button brings the window to the front, if it is not fullscreen.
LEMMA WindowButtonIsHandled ==
    ASSUME NEW s, Good(s), NEW k \in Workspace, NEW w \in Window,
           s.win[w].workspace = k
    PROVE  /\ Handled(s, k, WindowButton(s, w))
           /\ WindowButton(s, w).win[w].workspace = k
  <1> DEFINE t == WindowButton(s, w)
             a == ActivateWindow(s, k, w)
  <1>1. t \in {a, RaiseWindow(a, k, w)}
    BY DEF WindowButton
  <1> HIDE DEF t, a
  <1>2. Handled(s, k, a) /\ SameLinks(s, a)
    BY ActivateWindowIsKept, ActivateWindowIsHandled DEF a
  <1>3. Good(a) /\ a.win[w].workspace = k
    BY <1>2 DEF Handled, Kept, SameLinks, SameWorkspaceOfWindows
  <1>4. /\ Handled(a, k, RaiseWindow(a, k, w))
        /\ RaiseWindow(a, k, w).win[w].workspace = k
    BY <1>3, RaiseWindowIsHandled
  <1>5. Handled(s, k, t) /\ t.win[w].workspace = k
    BY <1>1, <1>2, <1>3, <1>4, HandledTwice
  <1> QED
    BY <1>5 DEF t

-----------------------------------------------------------------------------
(* The desktop.                                                            *)

Desk ==
    /\ workspaces \in Seq(Workspace)
    /\ Unique(workspaces)
    /\ current \in Attached
    /\ locked \in BOOLEAN
    /\ lock_element \in LockElement \cup {NULL}
    /\ lock_element # NULL => locked
    /\ elements \in Seq(Workspace \cup LockElement \cup {Curtain})
    /\ CurtainAboveWorkspaces
    /\ task_list_enabled \in BOOLEAN

\* Windows are mapped on workspaces of the desktop.
Placed(s) == \A w \in Window : s.win[w].workspace \in Attached \cup {NULL}

OnlyCurrent(s) ==
    /\ \A k \in Workspace : s.ws[k].enabled => k = current
    /\ ~locked => s.ws[current].enabled

Excused(s) == s.failed \notin {"map_window", "unmap_window", "begin_window"}

IInv ==
    /\ Good(State)
    /\ Desk
    /\ Placed(State)
    /\ OnlyCurrent(State)
    /\ Excused(State)
    /\ Focused(State)

\* The step of ReenablingReactivates.
Reactivates ==
    \A k \in Workspace :
        ~ws[k].enabled /\ ws'[k].enabled => ws'[k].activated = ws[k].formerly

-----------------------------------------------------------------------------
(* Steps that run handlers and leave the desktop's own variables alone.    *)

LEMMA BecomesState ==
    ASSUME NEW st \in StateType, Becomes(st)
    PROVE  State' = st
  BY DEF Becomes, State, StateType

LEMMA CurrentWorkspace ==
    ASSUME IInv
    PROVE  /\ State \in StateType
           /\ current \in Workspace
           /\ Attached \subseteq Workspace
           /\ State.ws = ws /\ State.win = win /\ State.failed = failed
           /\ \A w \in Window : win[w].workspace \in Attached \cup {NULL}
  BY MembersType DEF IInv, Good, Desk, Placed, Attached, State

\* A state that handlers may leave behind.
Allowed(s) ==
    /\ Good(s)
    /\ SameEnabled(State, s)
    /\ Placed(s)
    /\ Excused(s)
    /\ Focused(s)

LEMMA HandledIsAllowed ==
    ASSUME IInv, NEW s, NEW t, NEW k \in Attached \cup {NULL},
           Allowed(s), Handled(s, k, t)
    PROVE  Allowed(t)
  BY DEF Allowed, Handled, Kept, SameEnabled, Placed, Excused

LEMMA StateIsAllowed ==
    ASSUME IInv PROVE Allowed(State)
  BY DEF IInv, Allowed, SameEnabled

LEMMA HandlerStep ==
    ASSUME IInv, NEW st, Allowed(st), Becomes(st), UNCHANGED desktopVars,
           task_list_enabled' \in BOOLEAN
    PROVE  IInv' /\ Reactivates
  <1>1. State' = st
    BY BecomesState DEF Allowed, Good
  <1>2. ws' = st.ws
    BY DEF Becomes
  <1>3. Desk' /\ Attached' = Attached /\ current' = current /\ locked' = locked
    BY DEF IInv, Desk, Attached, desktopVars, CurtainAboveWorkspaces
  <1>4. OnlyCurrent(State)'
    BY <1>1, <1>3, CurrentWorkspace DEF IInv, OnlyCurrent, Allowed, SameEnabled
  <1>5. IInv'
    BY <1>1, <1>3, <1>4 DEF IInv, OnlyCurrent, Allowed, Placed, Excused, Focused,
       FocusedAt
  <1>6. Reactivates
    BY <1>2, CurrentWorkspace DEF Reactivates, Allowed, SameEnabled
  <1> QED
    BY <1>5, <1>6

LEMMA ReleaseIsAllowed ==
    ASSUME IInv, NEW s, Allowed(s), NEW k \in Workspace
    PROVE  /\ Allowed(ResetGrab(s, k))
           /\ SameLinks(s, ResetGrab(s, k))
  <1> DEFINE t == ResetGrab(s, k)
  <1>1. GrabStep(s, t)
    BY ResetGrabEffect DEF Allowed, Good
  <1> HIDE DEF t
  <1>2. Handled(s, current, t)
    BY <1>1, GrabStepIsHandled DEF Allowed
  <1>3. Allowed(t) /\ SameLinks(s, t)
    BY <1>1, <1>2, HandledIsAllowed DEF IInv, Desk, GrabStep
  <1> QED
    BY <1>3 DEF t

\* Whether or not the removal of an element makes the pointer leave.
LEMMA RemovalStep ==
    ASSUME IInv, NEW st, Allowed(st), NEW k \in Workspace,
           BecomesAfterRemoval(st, k), UNCHANGED <<desktopVars, task_list_enabled>>
    PROVE  IInv' /\ Reactivates
  <1>1. UNCHANGED desktopVars /\ task_list_enabled' \in BOOLEAN
    BY DEF IInv, Desk
  <1>2. CASE Becomes(st)
    BY <1>1, <1>2, HandlerStep
  <1>3. CASE Becomes(ResetGrab(st, k))
    BY <1>1, <1>3, ReleaseIsAllowed, HandlerStep
  <1> QED
    BY <1>2, <1>3 DEF BecomesAfterRemoval

-----------------------------------------------------------------------------
(* Windows: requests and commits of the clients.                           *)

LEMMA TryMapStep ==
    ASSUME IInv, NEW w \in Window, TryMap(w)
    PROVE  IInv' /\ Reactivates
  <1> DEFINE st == MapWindow(State, current, w)
  <1>1. /\ Becomes(st) /\ UNCHANGED desktopVars
        /\ task_list_enabled' = task_list_enabled
        /\ win[w].workspace = NULL
    BY DEF TryMap
  <1> HIDE DEF st
  <1>2. Handled(State, current, st)
    BY <1>1, CurrentWorkspace, MapWindowIsHandled DEF IInv, st
  <1>3. Allowed(st)
    BY <1>2, StateIsAllowed, HandledIsAllowed DEF IInv, Desk
  <1> QED
    BY <1>1, <1>3, HandlerStep DEF IInv, Desk

LEMMA SurfaceUnmapStep ==
    ASSUME IInv, NEW w \in Window, SurfaceUnmap(w)
    PROVE  IInv' /\ Reactivates
  <1> DEFINE k == win[w].workspace
             st == UnmapWindow(State, k, w)
  <1>1. /\ BecomesAfterRemoval(st, k)
        /\ UNCHANGED <<desktopVars, task_list_enabled>>
        /\ k # NULL /\ failed = NULL
    BY DEF SurfaceUnmap
  <1> HIDE DEF st
  <1>2. k \in Attached /\ k \in Workspace
    BY <1>1, CurrentWorkspace
  <1>3. Handled(State, k, st)
    BY <1>1, <1>2, CurrentWorkspace, UnmapWindowIsHandled DEF IInv, st
  <1>4. Allowed(st)
    BY <1>2, <1>3, StateIsAllowed, HandledIsAllowed
  <1> QED
    BY <1>1, <1>2, <1>4, RemovalStep

LEMMA CommitUnmappedStep ==
    ASSUME IInv, NEW w \in Window, NEW ready \in BOOLEAN, NEW b \in BOOLEAN,
           CommitUnmapped(w, ready, b)
    PROVE  IInv' /\ Reactivates
  <1> DEFINE mapped == IF ready THEN MapWindow(State, current, w) ELSE State
             k == mapped.win[w].workspace
             st == CommitFullscreen(mapped, w, b)
  <1>1. /\ Becomes(st) /\ UNCHANGED desktopVars
        /\ task_list_enabled' = task_list_enabled
        /\ win[w].workspace = NULL /\ State.failed = NULL
    BY CurrentWorkspace DEF CommitUnmapped
  <1>2. Handled(State, current, mapped) /\ mapped.failed = NULL
    BY <1>1, CurrentWorkspace, MapWindowIsHandled, HandledItself DEF IInv
  <1> HIDE DEF mapped
  <1>3. Allowed(mapped)
    BY <1>2, StateIsAllowed, HandledIsAllowed DEF IInv, Desk
  <1>4. k \in Attached \cup {NULL}
    BY <1>3 DEF Allowed, Placed
  <1>5. Handled(mapped, k, st)
    BY <1>2, <1>3, CommitFullscreenIsHandled DEF Allowed
  <1> HIDE DEF st, k
  <1>6. Allowed(st)
    BY <1>3, <1>4, <1>5, HandledIsAllowed
  <1> QED
    BY <1>1, <1>6, HandlerStep DEF IInv, Desk

LEMMA CommitMappedStep ==
    ASSUME IInv, NEW w \in Window, NEW b \in BOOLEAN, CommitMapped(w, b)
    PROVE  IInv' /\ Reactivates
  <1> DEFINE k == win[w].workspace
             st == CommitFullscreen(State, w, b)
  <1>1. /\ BecomesAfterRemoval(st, k)
        /\ UNCHANGED <<desktopVars, task_list_enabled>>
        /\ k # NULL /\ failed = NULL
    BY DEF CommitMapped
  <1> HIDE DEF st
  <1>2. k \in Attached /\ k \in Workspace /\ State.win[w].workspace = k
    BY <1>1, CurrentWorkspace
  <1>3. Handled(State, k, st)
    BY <1>1, <1>2, CurrentWorkspace, CommitFullscreenIsHandled DEF IInv, st
  <1>4. Allowed(st)
    BY <1>2, <1>3, StateIsAllowed, HandledIsAllowed
  <1> QED
    BY <1>1, <1>2, <1>4, RemovalStep

LEMMA RequestMoveStep ==
    ASSUME IInv, NEW w \in Window, RequestMove(w)
    PROVE  IInv' /\ Reactivates
  <1> DEFINE k == win[w].workspace
             st == BeginWindowMove(State, k, w)
  <1>1. /\ Becomes(st) /\ UNCHANGED desktopVars
        /\ task_list_enabled' = task_list_enabled
        /\ k # NULL
    BY DEF RequestMove
  <1> HIDE DEF st
  <1>2. k \in Attached /\ k \in Workspace
    BY <1>1, CurrentWorkspace
  <1>3. GrabStep(State, st)
    BY <1>2, CurrentWorkspace, BeginWindowMoveEffect DEF IInv, Good, st
  <1>4. Handled(State, k, st)
    BY <1>3, GrabStepIsHandled DEF IInv
  <1>5. Allowed(st)
    BY <1>2, <1>4, StateIsAllowed, HandledIsAllowed
  <1> QED
    BY <1>1, <1>5, HandlerStep DEF IInv, Desk

LEMMA RequestResizeStep ==
    ASSUME IInv, NEW w \in Window, NEW edges \in Edge, RequestResize(w, edges)
    PROVE  IInv' /\ Reactivates
  <1> DEFINE k == win[w].workspace
             st == BeginWindowResize(State, k, w, edges)
  <1>1. /\ Becomes(st) /\ UNCHANGED desktopVars
        /\ task_list_enabled' = task_list_enabled
        /\ k # NULL
    BY DEF RequestResize
  <1> HIDE DEF st
  <1>2. k \in Attached /\ k \in Workspace
    BY <1>1, CurrentWorkspace
  <1>3. GrabStep(State, st)
    BY <1>2, CurrentWorkspace, BeginWindowResizeEffect DEF IInv, Good, st
  <1>4. Handled(State, k, st)
    BY <1>3, GrabStepIsHandled DEF IInv
  <1>5. Allowed(st)
    BY <1>2, <1>4, StateIsAllowed, HandledIsAllowed
  <1> QED
    BY <1>1, <1>5, HandlerStep DEF IInv, Desk

-----------------------------------------------------------------------------
(* The pointer.                                                            *)

LEMMA ButtonDownOnResizebarStep ==
    ASSUME IInv, NEW w \in Window, NEW edges \in Edge,
           ButtonDownOnResizebar(w, edges)
    PROVE  IInv' /\ Reactivates
  <1> DEFINE pressed == WindowButton(State, w)
             st == BeginWindowResize(pressed, current, w, edges)
  <1>1. /\ Becomes(st) /\ UNCHANGED desktopVars
        /\ task_list_enabled' = task_list_enabled
        /\ win[w].workspace = current
    BY DEF ButtonDownOnResizebar, PointedAt
  <1> HIDE DEF st, pressed
  <1>2. /\ Handled(State, current, pressed)
        /\ pressed.win[w].workspace = current
    BY <1>1, CurrentWorkspace, WindowButtonIsHandled DEF IInv, pressed
  <1>3. Good(pressed)
    BY <1>2 DEF Handled, Kept
  <1>4. GrabStep(pressed, st)
    BY <1>2, <1>3, CurrentWorkspace, BeginWindowResizeEffect DEF Good, st
  <1>5. Handled(pressed, current, st)
    BY <1>3, <1>4, GrabStepIsHandled
  <1>6. Allowed(st)
    BY <1>2, <1>5, StateIsAllowed, HandledIsAllowed DEF IInv, Desk
  <1> QED
    BY <1>1, <1>6, HandlerStep DEF IInv, Desk

LEMMA ButtonDownStep ==
    ASSUME IInv, NEW w \in Window,
           NEW part \in {"content", "titlebar", "modifier"}, ButtonDown(w, part)
    PROVE  IInv' /\ Reactivates
  <1> DEFINE pressed == WindowButton(State, w)
  <1>1. PICK st : /\ Becomes(st) /\ UNCHANGED desktopVars
                  /\ task_list_enabled' = task_list_enabled
                  /\ win[w].workspace = current
                  /\ \/ part = "modifier" /\ st = BeginWindowMove(State, current, w)
                     \/ part = "content" /\ st = pressed
                     \/ /\ part = "titlebar"
                        /\ st = BeginWindowMove(pressed, current, w)
    BY DEF ButtonDown, PointedAt
  <1> HIDE DEF pressed
  <1>2. /\ Handled(State, current, pressed)
        /\ pressed.win[w].workspace = current
    BY <1>1, CurrentWorkspace, WindowButtonIsHandled DEF IInv, pressed
  <1>3. Allowed(pressed)
    BY <1>2, StateIsAllowed, HandledIsAllowed DEF IInv, Desk
  <1>4. ASSUME NEW s, Allowed(s), s.win[w].workspace = current
        PROVE  Allowed(BeginWindowMove(s, current, w))
    <2> DEFINE t == BeginWindowMove(s, current, w)
    <2>1. Good(s)
      BY <1>4 DEF Allowed
    <2>2. GrabStep(s, t)
      BY <1>4, <2>1, CurrentWorkspace, BeginWindowMoveEffect DEF Good
    <2> HIDE DEF t
    <2>3. Handled(s, current, t)
      BY <2>1, <2>2, GrabStepIsHandled
    <2>4. Allowed(t)
      BY <1>4, <2>3, HandledIsAllowed DEF IInv, Desk
    <2> QED
      BY <2>4 DEF t
  <1>5. State.win[w].workspace = current
    BY <1>1, CurrentWorkspace
  <1>6. Allowed(st)
    BY <1>1, <1>2, <1>3, <1>4, <1>5, StateIsAllowed
  <1> QED
    BY <1>1, <1>6, HandlerStep DEF IInv, Desk

LEMMA ButtonUpStep ==
    ASSUME IInv, NEW target \in Window \cup {NULL}, ButtonUp(target)
    PROVE  IInv' /\ Reactivates
  <1> DEFINE released == ResetGrab(State, current)
  <1>1. PICK st : /\ Becomes(st) /\ UNCHANGED desktopVars
                  /\ task_list_enabled' = task_list_enabled
                  /\ target # NULL => win[target].workspace = current
                  /\ st = IF target = NULL THEN released
                          ELSE WindowButton(released, target)
    BY DEF ButtonUp, PointedAt
  <1> HIDE DEF released
  <1>2. Allowed(released) /\ SameLinks(State, released)
    BY CurrentWorkspace, StateIsAllowed, ReleaseIsAllowed DEF released
  <1>3. CASE target = NULL
    <2>1. Allowed(st)
      BY <1>1, <1>2, <1>3
    <2> QED
      BY <1>1, <2>1, HandlerStep DEF IInv, Desk
  <1>4. CASE target # NULL
    <2>1. Good(released) /\ released.win[target].workspace = current
      BY <1>1, <1>2, <1>4, CurrentWorkspace
         DEF Allowed, SameLinks, SameWorkspaceOfWindows
    <2>2. Handled(released, current, st)
      BY <1>1, <1>4, <2>1, CurrentWorkspace, WindowButtonIsHandled
    <2>3. Allowed(st)
      BY <1>2, <2>2, HandledIsAllowed DEF IInv, Desk
    <2> QED
      BY <1>1, <2>3, HandlerStep DEF IInv, Desk
  <1> QED
    BY <1>3, <1>4

LEMMA PointerLeaveStep ==
    ASSUME IInv, NEW k \in Workspace, PointerLeave(k)
    PROVE  IInv' /\ Reactivates
  <1>1. /\ Becomes(ResetGrab(State, k)) /\ UNCHANGED desktopVars
        /\ task_list_enabled' = task_list_enabled
    BY DEF PointerLeave
  <1> QED
    BY <1>1, StateIsAllowed, ReleaseIsAllowed, HandlerStep DEF IInv, Desk

-----------------------------------------------------------------------------
(* Actions bound to keys and menu items.                                   *)

\* Cycling through the windows of a workspace stays with them.
LEMMA CyclingStays ==
    ASSUME IInv, NEW k \in Workspace, ws[k].windows # <<>>
    PROVE  /\ NextWindow(k) \in WindowsOf(State, k)
           /\ PreviousWindow(k) \in WindowsOf(State, k)
  <1> DEFINE l == ws[k].windows
             w == ws[k].activated
  <1>1. l \in Seq(Window) /\ w \in Window \cup {NULL} /\ State.ws[k] = ws[k]
    BY CurrentWorkspace, Fields
  <1>2. Members(l) = WindowsOf(State, k)
    BY <1>1 DEF IInv, Good, Linked, LinkedAt
  <1>3. w # NULL => w \in WindowsOf(State, k)
    BY <1>1 DEF IInv, Good, Active, Agreed, WindowsOf
  <1> HIDE DEF l, w
  <1>4. {l[1], l[Len(l)]} \subseteq Members(l)
    BY <1>1, EndsAreMembers DEF l
  <1>5. w # NULL => /\ w # l[Len(l)] => l[Position(l, w) + 1] \in Members(l)
                    /\ w # l[1] => l[Position(l, w) - 1] \in Members(l)
    BY <1>1, <1>2, <1>3, NeighboursAreMembers
  <1> QED
    BY <1>2, <1>4, <1>5 DEF NextWindow, PreviousWindow, l, w

LEMMA TaskToStep ==
    ASSUME IInv, NEW w \in WindowsOf(State, current) \cup {NULL}, TaskTo(w)
    PROVE  IInv' /\ Reactivates
  <1>1. PICK st : /\ Becomes(st) /\ UNCHANGED desktopVars
                  /\ task_list_enabled' = TRUE
                  /\ st = IF w = NULL THEN State
                          ELSE ActivateWindow(State, current, w)
    BY DEF TaskTo
  <1>2. Allowed(st)
    <2>1. CASE w = NULL
      BY <1>1, <2>1, StateIsAllowed
    <2>2. CASE w # NULL
      <3>1. Handled(State, current, st)
        BY <1>1, <2>2, CurrentWorkspace, ActivateWindowIsHandled DEF IInv, WindowsOf
      <3> QED
        BY <3>1, StateIsAllowed, HandledIsAllowed DEF IInv, Desk
    <2> QED
      BY <2>1, <2>2
  <1> QED
    BY <1>1, <1>2, HandlerStep

LEMMA TaskToNextStep ==
    ASSUME IInv, TaskToNext
    PROVE  IInv' /\ Reactivates
  <1>1. CASE ws[current].windows = <<>>
    <2>1. TaskTo(NULL)
      BY <1>1 DEF TaskToNext
    <2> QED
      BY <2>1, TaskToStep
  <1>2. CASE ws[current].windows # <<>>
    <2>1. TaskTo(NextWindow(current))
      BY <1>2 DEF TaskToNext
    <2>2. NextWindow(current) \in WindowsOf(State, current)
      BY <1>2, CurrentWorkspace, CyclingStays
    <2> QED
      BY <2>1, <2>2, TaskToStep
  <1> QED
    BY <1>1, <1>2

LEMMA TaskToPreviousStep ==
    ASSUME IInv, TaskToPrevious
    PROVE  IInv' /\ Reactivates
  <1>1. CASE ws[current].windows = <<>>
    <2>1. TaskTo(NULL)
      BY <1>1 DEF TaskToPrevious
    <2> QED
      BY <2>1, TaskToStep
  <1>2. CASE ws[current].windows # <<>>
    <2>1. TaskTo(PreviousWindow(current))
      BY <1>2 DEF TaskToPrevious
    <2>2. PreviousWindow(current) \in WindowsOf(State, current)
      BY <1>2, CurrentWorkspace, CyclingStays
    <2> QED
      BY <2>1, <2>2, TaskToStep
  <1> QED
    BY <1>1, <1>2

\* The activated window is one of the workspace.
LEMMA ActivatedIsMapped ==
    ASSUME IInv, NEW k \in Workspace, ws[k].activated # NULL
    PROVE  /\ ws[k].activated \in Window
           /\ State.win[ws[k].activated].workspace = k
  <1>1. State.ws[k] = ws[k] /\ ws[k].activated \in Window \cup {NULL}
    BY CurrentWorkspace, Fields
  <1> QED
    BY <1>1 DEF IInv, Good, Active, Agreed

LEMMA DeactivateTaskListStep ==
    ASSUME IInv, DeactivateTaskList
    PROVE  IInv' /\ Reactivates
  <1> DEFINE w == ws[current].activated
  <1>1. PICK st : /\ Becomes(st) /\ UNCHANGED desktopVars
                  /\ task_list_enabled' = FALSE
                  /\ st = IF w = NULL THEN State ELSE RaiseWindow(State, current, w)
    BY DEF DeactivateTaskList
  <1> HIDE DEF w
  <1>2. Allowed(st)
    <2>1. CASE w = NULL
      BY <1>1, <2>1, StateIsAllowed
    <2>2. CASE w # NULL
      <3>1. w \in Window /\ State.win[w].workspace = current
        BY <2>2, CurrentWorkspace, ActivatedIsMapped DEF w
      <3>2. Handled(State, current, st)
        BY <1>1, <2>2, <3>1, CurrentWorkspace, RaiseWindowIsHandled DEF IInv
      <3> QED
        BY <3>2, StateIsAllowed, HandledIsAllowed DEF IInv, Desk
    <2> QED
      BY <2>1, <2>2
  <1> QED
    BY <1>1, <1>2, HandlerStep

LEMMA MoveWindowToStep ==
    ASSUME IInv, NEW k \in Attached, MoveWindowTo(k)
    PROVE  IInv' /\ Reactivates
  <1> DEFINE w == ws[current].activated
             unmapped == UnmapWindow(State, current, w)
             st == MapWindow(unmapped, k, w)
  <1>1. /\ BecomesAfterRemoval(st, current)
        /\ UNCHANGED <<desktopVars, task_list_enabled>>
        /\ w # NULL /\ State.failed = NULL
    BY CurrentWorkspace DEF MoveWindowTo
  <1> HIDE DEF st, unmapped, w
  <1>2. w \in Window /\ State.win[w].workspace = current /\ k \in Workspace
    BY <1>1, CurrentWorkspace, ActivatedIsMapped DEF w
  <1>3. /\ Handled(State, current, unmapped)
        /\ unmapped.failed = NULL => unmapped.win[w].workspace = NULL
    BY <1>1, <1>2, CurrentWorkspace, UnmapWindowIsHandled DEF IInv, unmapped
  <1>4. Allowed(unmapped)
    BY <1>3, StateIsAllowed, HandledIsAllowed DEF IInv, Desk
  <1>5. Handled(unmapped, k, st)
    BY <1>2, <1>3, <1>4, MapWindowIsHandled DEF Allowed, st
  <1>6. Allowed(st)
    BY <1>4, <1>5, HandledIsAllowed
  <1> QED
    BY <1>1, <1>6, CurrentWorkspace, RemovalStep

\* The neighbours of the current workspace are workspaces of the desktop.
LEMMA NeighbourWorkspaces ==
    ASSUME IInv
    PROVE  /\ workspaces[1] \in Attached
           /\ workspaces[Len(workspaces)] \in Attached
           /\ current # workspaces[Len(workspaces)] =>
                  workspaces[Position(workspaces, current) + 1] \in Attached
           /\ current # workspaces[1] =>
                  workspaces[Position(workspaces, current) - 1] \in Attached
  <1>1. workspaces \in Seq(Workspace) /\ current \in Members(workspaces)
    BY DEF IInv, Desk, Attached
  <1>2. workspaces # <<>>
    BY <1>1 DEF Members
  <1> QED
    BY <1>1, <1>2, EndsAreMembers, NeighboursAreMembers DEF Attached

LEMMA MovingStep ==
    ASSUME IInv,
           \/ WindowToNextWorkspace
           \/ WindowToPreviousWorkspace
           \/ \E k \in Workspace : MoveToWorkspaceTriggered(k)
    PROVE  IInv' /\ Reactivates
  <1>1. \E k \in Attached : MoveWindowTo(k)
    BY NeighbourWorkspaces DEF WindowToNextWorkspace, WindowToPreviousWorkspace,
       MoveToWorkspaceTriggered, Attached
  <1> QED
    BY <1>1, MoveWindowToStep

-----------------------------------------------------------------------------
(* The desktop's container.                                                *)

Element == Workspace \cup LockElement \cup {Curtain}

\* The lock's element is added on top, and removed.
LEMMA LockElementOnTop ==
    ASSUME IInv, NEW e \in LockElement, ~locked,
           elements' = PushFront(elements, e),
           workspaces' = workspaces, lock_element' = e
    PROVE  /\ elements' \in Seq(Element)
           /\ CurtainAboveWorkspaces'
  <1>1. /\ elements \in Seq(Element) /\ Unique(elements) /\ e \in Element
        /\ Members(elements) = Attached \cup {Curtain}
        /\ \A k \in Attached : Precedes(elements, Curtain, k)
    BY DEF IInv, Desk, CurtainAboveWorkspaces, Element
  <1>2. e \notin Members(elements) /\ e # NULL /\ Attached' = Attached
    BY <1>1, CurrentWorkspace, ConstantsAreDistinct DEF Attached
  <1>3. /\ elements' \in Seq(Element)
        /\ Members(elements') = Members(elements) \cup {e}
        /\ Unique(elements')
    BY <1>1, <1>2, PushFrontMembers
  <1>4. \A k \in Attached : Precedes(elements', Curtain, k)
    BY <1>1, PushFrontOrder
  <1> QED
    BY <1>1, <1>2, <1>3, <1>4 DEF CurtainAboveWorkspaces

LEMMA LockElementRemoved ==
    ASSUME IInv, NEW e \in LockElement, lock_element = e,
           elements' = Remove(elements, e),
           workspaces' = workspaces, lock_element' = NULL
    PROVE  /\ elements' \in Seq(Element)
           /\ CurtainAboveWorkspaces'
  <1>1. /\ elements \in Seq(Element) /\ Unique(elements) /\ e # NULL
        /\ Members(elements) = Attached \cup {Curtain} \cup {e}
        /\ \A k \in Attached : Precedes(elements, Curtain, k)
    BY ConstantsAreDistinct DEF IInv, Desk, CurtainAboveWorkspaces, Element
  <1>2. e \notin Attached /\ e # Curtain /\ Attached' = Attached
    BY CurrentWorkspace, ConstantsAreDistinct DEF Attached
  <1>3. /\ elements' \in Seq(Element)
        /\ Members(elements') = Members(elements) \ {e}
        /\ Unique(elements')
    BY <1>1, RemoveType, RemoveMembers
  <1>4. \A k \in Attached : Precedes(elements', Curtain, k)
    BY <1>1, <1>2, RemoveOrder
  <1> QED
    BY <1>1, <1>2, <1>3, <1>4 DEF CurtainAboveWorkspaces

\* A workspace is added on top, and the curtain raised above it.
LEMMA WorkspaceUnderCurtain ==
    ASSUME IInv, NEW k \in Workspace, k \notin Attached,
           elements' = MoveToFront(PushFront(elements, k), Curtain),
           Attached' = Attached \cup {k}, lock_element' = lock_element
    PROVE  /\ elements' \in Seq(Element)
           /\ CurtainAboveWorkspaces'
  <1> DEFINE pushed == PushFront(elements, k)
             held == {lock_element} \ {NULL}
  <1>1. /\ elements \in Seq(Element) /\ Unique(elements) /\ k \in Element
        /\ Members(elements) = Attached \cup {Curtain} \cup held
        /\ Curtain \in Members(elements)
        /\ held \subseteq LockElement
    BY DEF IInv, Desk, CurtainAboveWorkspaces, Element
  <1>2. k \notin Members(elements) /\ Curtain \notin Attached'
    BY <1>1, CurrentWorkspace, ConstantsAreDistinct
  <1>3. /\ pushed \in Seq(Element)
        /\ Members(pushed) = Members(elements) \cup {k}
        /\ Unique(pushed)
    BY <1>1, <1>2, PushFrontMembers
  <1> HIDE DEF pushed
  <1>4. /\ elements' \in Seq(Element)
        /\ Members(elements') = Members(pushed)
        /\ Unique(elements')
    BY <1>1, <1>3, MoveToFrontMembers DEF pushed
  <1>5. ASSUME NEW j \in Attached' PROVE Precedes(elements', Curtain, j)
    <2>1. j \in Members(pushed) \ {Curtain} /\ Curtain \in Members(pushed)
      BY <1>1, <1>2, <1>3, <1>5
    <2> QED
      BY <1>3, <2>1, MoveToFrontOrder DEF pushed
  <1> QED
    BY <1>1, <1>3, <1>4, <1>5 DEF CurtainAboveWorkspaces

LEMMA WorkspaceRemoved ==
    ASSUME IInv, NEW k \in Attached,
           elements' = Remove(elements, k),
           Attached' = Attached \ {k}, lock_element' = lock_element
    PROVE  /\ elements' \in Seq(Element)
           /\ CurtainAboveWorkspaces'
  <1> DEFINE held == {lock_element} \ {NULL}
  <1>1. /\ elements \in Seq(Element) /\ Unique(elements)
        /\ Members(elements) = Attached \cup {Curtain} \cup held
        /\ held \subseteq LockElement
        /\ \A j \in Attached : Precedes(elements, Curtain, j)
    BY DEF IInv, Desk, CurtainAboveWorkspaces, Element
  <1>2. k \in Members(elements) /\ k # Curtain /\ k \notin held
    BY <1>1, CurrentWorkspace, ConstantsAreDistinct
  <1>3. /\ elements' \in Seq(Element)
        /\ Members(elements') = Members(elements) \ {k}
        /\ Unique(elements')
    BY <1>1, <1>2, RemoveType, RemoveMembers
  <1>4. \A j \in Attached' : Precedes(elements', Curtain, j)
    BY <1>1, <1>2, RemoveOrder
  <1> QED
    BY <1>1, <1>2, <1>3, <1>4 DEF CurtainAboveWorkspaces

-----------------------------------------------------------------------------
(* Enabling and disabling workspaces: switching, locking and unlocking.    *)

LEMMA EnabledIsGood ==
    ASSUME NEW s, Good(s), NEW k \in Workspace, NEW b, NEW t, Enabled(s, k, b, t)
    PROVE  /\ Good(t)
           /\ Placed(s) => Placed(t)
           /\ Excused(s) => Excused(t)
           /\ Focused(s) => Focused(t)
  <1>1. /\ t \in StateType /\ Active(t) /\ SameLinks(s, t) /\ SameGrab(s, t)
        /\ SameWorkspaceOfWindows(s, t)
    BY DEF Enabled, SameLinks
  <1>2. Linked(t) /\ Held(t)
    BY <1>1, LinkedFrame, HeldFrame DEF Good
  <1>3. ASSUME NEW j \in Workspace, FocusedAt(s, j) PROVE FocusedAt(t, j)
    <2>1. /\ t.ws[j].window_container = s.ws[j].window_container
          /\ t.ws[j].formerly = s.ws[j].formerly
      BY DEF Enabled, SameLinks, SameFormerly
    <2>2. CASE j = k
      <3>1. b /\ s.ws[k].enabled = b => t.ws[k].activated = s.ws[k].activated
        BY DEF Enabled
      <3> QED
        BY <1>3, <2>1, <2>2, <3>1 DEF Enabled, FocusedAt
    <2>3. CASE j # k
      BY <1>3, <2>3 DEF Enabled, FocusedAt
    <2> QED
      BY <2>2, <2>3
  <1> QED
    BY <1>1, <1>2, <1>3
       DEF Good, Placed, Excused, Focused, SameLinks, SameWorkspaceOfWindows

LEMMA SwitchToWorkspaceStep ==
    ASSUME IInv, NEW k \in Attached, SwitchToWorkspace(k)
    PROVE  IInv' /\ Reactivates
  <1> DEFINE left == EnableWorkspace(State, current, FALSE)
             st == EnableWorkspace(left, k, TRUE)
  <1>1. /\ Becomes(st)
        /\ current' = k /\ k # current
        /\ workspaces' = workspaces /\ locked' = locked
        /\ lock_element' = lock_element /\ elements' = elements
        /\ task_list_enabled' = task_list_enabled
    BY DEF SwitchToWorkspace
  <1> HIDE DEF st, left
  <1>2. Enabled(State, current, FALSE, left)
    BY CurrentWorkspace, EnableWorkspaceEffect DEF IInv, Good, left
  <1>3. Good(left) /\ Placed(left) /\ Excused(left) /\ Focused(left)
    BY <1>2, CurrentWorkspace, EnabledIsGood DEF IInv
  <1>4. Enabled(left, k, TRUE, st)
    BY <1>3, CurrentWorkspace, EnableWorkspaceEffect DEF Good, st
  <1>5. Good(st) /\ Placed(st) /\ Excused(st) /\ Focused(st)
    BY <1>3, <1>4, CurrentWorkspace, EnabledIsGood
  <1>6. State' = st /\ ws' = st.ws
    BY <1>1, <1>5, BecomesState DEF Good, Becomes
  <1>7. Desk' /\ Attached' = Attached
    BY <1>1 DEF IInv, Desk, Attached, CurtainAboveWorkspaces
  <1>8. /\ st.ws[k].enabled
        /\ \A j \in Workspace : j # k => ~st.ws[j].enabled
    BY <1>2, <1>4, CurrentWorkspace DEF Enabled, IInv, OnlyCurrent
  <1>9. OnlyCurrent(State)'
    BY <1>1, <1>6, <1>8 DEF OnlyCurrent
  <1>10. IInv'
    BY <1>5, <1>6, <1>7, <1>9 DEF IInv, Placed, Excused, Focused, FocusedAt
  <1>11. st.ws[k].activated = State.ws[k].formerly
    <2>1. left.ws[k] = State.ws[k] /\ ~left.ws[k].enabled
      BY <1>1, <1>2, CurrentWorkspace DEF Enabled, IInv, OnlyCurrent
    <2> QED
      BY <1>4, <2>1, CurrentWorkspace DEF Enabled
  <1>12. Reactivates
    BY <1>6, <1>8, <1>11, CurrentWorkspace DEF Reactivates
  <1> QED
    BY <1>10, <1>12

LEMMA SwitchingStep ==
    ASSUME IInv, SwitchToNextWorkspace \/ SwitchToPreviousWorkspace
    PROVE  IInv' /\ Reactivates
  <1>1. \E k \in Attached : SwitchToWorkspace(k)
    BY NeighbourWorkspaces DEF SwitchToNextWorkspace, SwitchToPreviousWorkspace
  <1> QED
    BY <1>1, SwitchToWorkspaceStep

\* What locking and unlocking do to the current workspace.
LEMMA EnableCurrent ==
    ASSUME IInv, NEW b \in BOOLEAN, Becomes(EnableWorkspace(State, current, b)),
           UNCHANGED <<workspaces, current, task_list_enabled>>,
           locked' = ~b
    PROVE  /\ Good(State)' /\ Placed(State)' /\ OnlyCurrent(State)'
           /\ Excused(State)' /\ Focused(State)' /\ Reactivates
  <1> DEFINE st == EnableWorkspace(State, current, b)
  <1>1. Becomes(st)
    OBVIOUS
  <1> HIDE DEF st
  <1>2. Enabled(State, current, b, st)
    BY CurrentWorkspace, EnableWorkspaceEffect DEF IInv, Good, st
  <1>3. Good(st) /\ Placed(st) /\ Excused(st) /\ Focused(st)
    BY <1>2, CurrentWorkspace, EnabledIsGood DEF IInv
  <1>4. State' = st /\ ws' = st.ws
    BY <1>1, <1>3, BecomesState DEF Good, Becomes
  <1>5. /\ st.ws[current].enabled = b
        /\ \A j \in Workspace : j # current => ~st.ws[j].enabled
    BY <1>2, CurrentWorkspace DEF Enabled, IInv, OnlyCurrent
  <1>6. OnlyCurrent(State)'
    BY <1>4, <1>5 DEF OnlyCurrent
  <1>7. Good(State)' /\ Placed(State)' /\ Excused(State)' /\ Focused(State)'
    BY <1>3, <1>4 DEF Placed, Excused, Attached, Focused, FocusedAt
  <1>8. Reactivates
    <2> SUFFICES ASSUME NEW j \in Workspace, ~ws[j].enabled, ws'[j].enabled
                 PROVE  ws'[j].activated = ws[j].formerly
      BY DEF Reactivates
    <2>1. j = current /\ b /\ State.ws[j].enabled # b
      BY <1>4, <1>5, CurrentWorkspace
    <2> QED
      BY <1>2, <1>4, <2>1, CurrentWorkspace DEF Enabled
  <1> QED
    BY <1>6, <1>7, <1>8

LEMMA LockStep ==
    ASSUME IInv, NEW e \in LockElement, Lock(e)
    PROVE  IInv' /\ Reactivates
  <1>1. /\ Becomes(EnableWorkspace(State, current, FALSE))
        /\ UNCHANGED <<workspaces, current, task_list_enabled>>
        /\ locked' = TRUE /\ lock_element' = e
        /\ elements' = PushFront(elements, e) /\ ~locked
    BY DEF Lock
  <1>2. /\ Good(State)' /\ Placed(State)' /\ OnlyCurrent(State)'
        /\ Excused(State)' /\ Focused(State)' /\ Reactivates
    BY <1>1, EnableCurrent
  <1>3. elements' \in Seq(Element) /\ CurtainAboveWorkspaces'
    BY <1>1, LockElementOnTop
  <1>4. Desk'
    BY <1>1, <1>3 DEF IInv, Desk, Attached, Element
  <1> QED
    BY <1>2, <1>4 DEF IInv

LEMMA UnlockStep ==
    ASSUME IInv, NEW e \in LockElement, Unlock(e)
    PROVE  IInv' /\ Reactivates
  <1>1. /\ Becomes(EnableWorkspace(State, current, TRUE))
        /\ UNCHANGED <<workspaces, current, task_list_enabled>>
        /\ locked' = FALSE /\ lock_element' = NULL
        /\ elements' = Remove(elements, e) /\ lock_element = e
    BY DEF Unlock
  <1>2. /\ Good(State)' /\ Placed(State)' /\ OnlyCurrent(State)'
        /\ Excused(State)' /\ Focused(State)' /\ Reactivates
    BY <1>1, EnableCurrent
  <1>3. elements' \in Seq(Element) /\ CurtainAboveWorkspaces'
    BY <1>1, LockElementRemoved
  <1>4. Desk'
    BY <1>1, <1>3 DEF IInv, Desk, Attached, Element
  <1> QED
    BY <1>2, <1>4 DEF IInv

LEMMA LockUnreferenceStep ==
    ASSUME IInv, NEW e \in LockElement, LockUnreference(e)
    PROVE  IInv' /\ Reactivates
  <1>1. /\ UNCHANGED <<ws, win, workspaces, current, locked, task_list_enabled, failed>>
        /\ lock_element' = NULL
        /\ elements' = Remove(elements, e) /\ lock_element = e
    BY DEF LockUnreference
  <1>2. State' = State /\ Attached' = Attached
    BY <1>1 DEF State, Attached
  <1>3. elements' \in Seq(Element) /\ CurtainAboveWorkspaces'
    BY <1>1, LockElementRemoved
  <1>4. Desk'
    BY <1>1, <1>3 DEF IInv, Desk, Attached, Element
  <1>5. IInv'
    BY <1>1, <1>2, <1>4 DEF IInv, Placed, OnlyCurrent, Excused, Focused, FocusedAt
  <1> QED
    BY <1>1, <1>5 DEF Reactivates

-----------------------------------------------------------------------------
(* Creating and destroying workspaces.                                     *)

\* A workspace without windows may be replaced by a new one.
LEMMA RenewedIsGood ==
    ASSUME NEW s, Good(s), NEW k \in Workspace, WindowsOf(s, k) = {}
    PROVE  /\ Good(PutWs(s, k, NewWorkspace))
           /\ WsChanged(s, k, NewWorkspace, PutWs(s, k, NewWorkspace))
           /\ Focused(s) => Focused(PutWs(s, k, NewWorkspace))
  <1> DEFINE t == PutWs(s, k, NewWorkspace)
  <1>1. /\ s \in StateType /\ Linked(s) /\ Active(s) /\ Held(s)
        /\ NewWorkspace \in WorkspaceState
        /\ ~NewWorkspace.enabled
        /\ NewWorkspace.windows = <<>>
        /\ NewWorkspace.window_container = <<>>
        /\ NewWorkspace.fullscreen_container = <<>>
        /\ NewWorkspace.activated = NULL
        /\ NewWorkspace.formerly = NULL
        /\ NewWorkspace.grab = "passthrough"
        /\ NewWorkspace.grabbed = NULL
    BY DEF Good, NewWorkspace, WorkspaceState, Grab
  <1>2. WsChanged(s, k, NewWorkspace, t)
    BY <1>1, PutWsEffect
  <1> HIDE DEF t
  <1>3. /\ t \in StateType /\ t.win = s.win /\ t.failed = s.failed
        /\ t.ws[k] = NewWorkspace
        /\ \A j \in Workspace : j # k => t.ws[j] = s.ws[j]
    BY <1>2 DEF WsChanged
  <1>4. Linked(t)
    <2>1. \A j \in Workspace : WindowsOf(t, j) = WindowsOf(s, j)
      BY <1>3 DEF WindowsOf
    <2>2. Members(<<>>) = {} /\ Unique(<<>>) /\ SameOrder(<<>>, <<>>)
      BY DEF Members, Unique, SameOrder
    <2>3. LinkedAt(t, k)
      BY <1>1, <1>3, <2>1, <2>2 DEF LinkedAt
    <2>4. ASSUME NEW j \in Workspace, j # k PROVE LinkedAt(t, j)
      BY <1>1, <1>3, <2>1, <2>4 DEF Linked, LinkedAt
    <2> QED
      BY <2>3, <2>4 DEF Linked
  <1>5. /\ s.ws[k].activated = NULL
        /\ s.ws[k].formerly = NULL
        /\ s.ws[k].grabbed = NULL
    BY <1>1, Fields DEF Active, Agreed, Held, WindowsOf
  <1>6. Agreed(t)
    <2>1. \A j \in Workspace : /\ t.ws[j].activated = s.ws[j].activated
                               /\ t.ws[j].formerly = s.ws[j].formerly
      BY <1>1, <1>3, <1>5
    <2> QED
      BY <1>1, <1>3, <2>1 DEF Active, Agreed
  <1>7. Active(t)
    BY <1>1, <1>3, <1>6 DEF Active
  <1>8. Held(t)
    <2>1. ASSUME NEW w \in Window, t.win[w].resize_edges # NULL
          PROVE  \E j \in Workspace : t.ws[j].grab = "resize" /\ t.ws[j].grabbed = w
      <3>1. PICK j \in Workspace : s.ws[j].grab = "resize" /\ s.ws[j].grabbed = w
        BY <1>1, <1>3, <2>1 DEF Held
      <3>2. j # k
        BY <1>5, <3>1, ConstantsAreDistinct
      <3> QED
        BY <1>3, <3>1, <3>2
    <2>2. ASSUME NEW j \in Workspace
          PROVE  /\ t.ws[j].grab # "passthrough" <=> t.ws[j].grabbed # NULL
                 /\ t.ws[j].grabbed # NULL => t.win[t.ws[j].grabbed].workspace = j
      <3>1. CASE j = k
        BY <1>1, <1>3, <3>1
      <3>2. CASE j # k
        BY <1>1, <1>3, <3>2 DEF Held
      <3> QED
        BY <3>1, <3>2
    <2> QED
      BY <2>1, <2>2 DEF Held
  <1>9. Good(t)
    BY <1>3, <1>4, <1>7, <1>8 DEF Good
  <1>10. Focused(s) => Focused(t)
    BY <1>1, <1>3 DEF Focused, FocusedAt
  <1> QED
    BY <1>2, <1>9, <1>10 DEF t

\* The desktop's list of workspaces changes, and one that is not the current
\* one is new.
LEMMA RenewedStep ==
    ASSUME IInv, NEW k \in Workspace, k # current, WindowsOf(State, k) = {},
           ws' = [ws EXCEPT ![k] = NewWorkspace],
           UNCHANGED <<win, current, locked, lock_element, task_list_enabled, failed>>,
           Attached \ {k} \subseteq Attached', Desk'
    PROVE  IInv' /\ Reactivates
  <1>1. State' = PutWs(State, k, NewWorkspace)
    BY DEF State, PutWs
  <1>2. /\ Good(State') /\ WsChanged(State, k, NewWorkspace, State')
        /\ Focused(State')
    BY <1>1, RenewedIsGood DEF IInv
  <1>3. /\ ws'[k] = NewWorkspace /\ State'.ws = ws' /\ State'.failed = failed
        /\ State'.win = win /\ ~NewWorkspace.enabled
        /\ \A j \in Workspace : j # k => ws'[j] = ws[j]
    BY <1>2 DEF WsChanged, State, NewWorkspace
  <1>4. OnlyCurrent(State)'
    BY <1>3, CurrentWorkspace DEF IInv, OnlyCurrent
  <1>5. Placed(State)'
    <2>1. \A w \in Window : win[w].workspace \in (Attached \ {k}) \cup {NULL}
      BY CurrentWorkspace DEF WindowsOf
    <2> QED
      BY <1>3, <2>1 DEF Placed
  <1>6. Excused(State)'
    BY <1>3, CurrentWorkspace DEF IInv, Excused
  <1>7. Reactivates
    BY <1>3 DEF Reactivates
  <1> QED
    BY <1>2, <1>4, <1>5, <1>6, <1>7 DEF IInv, Focused, FocusedAt

LEMMA AddWorkspaceStep ==
    ASSUME IInv, NEW k \in Workspace, AddWorkspace(k)
    PROVE  IInv' /\ Reactivates
  <1>1. /\ k \notin Attached
        /\ workspaces' = PushBack(workspaces, k)
        /\ elements' = MoveToFront(PushFront(elements, k), Curtain)
        /\ ws' = [ws EXCEPT ![k] = NewWorkspace]
        /\ UNCHANGED <<win, current, locked, lock_element, task_list_enabled, failed>>
    BY DEF AddWorkspace, Attached
  <1>2. k # current /\ WindowsOf(State, k) = {}
    BY <1>1, CurrentWorkspace, ConstantsAreDistinct DEF WindowsOf, IInv, Desk
  <1>3. /\ workspaces' \in Seq(Workspace)
        /\ Unique(workspaces)'
        /\ Attached' = Attached \cup {k}
    BY <1>1, PushBackMembers DEF IInv, Desk, Attached
  <1>4. elements' \in Seq(Element) /\ CurtainAboveWorkspaces'
    BY <1>1, <1>3, WorkspaceUnderCurtain
  <1>5. Desk'
    BY <1>1, <1>3, <1>4 DEF IInv, Desk, Element
  <1> QED
    BY <1>1, <1>2, <1>3, <1>5, RenewedStep

LEMMA DestroyLastWorkspaceStep ==
    ASSUME IInv, DestroyLastWorkspace
    PROVE  IInv' /\ Reactivates
  <1> DEFINE k == workspaces[Len(workspaces)]
  <1>1. /\ k # current /\ ws[k].windows = <<>>
        /\ workspaces' = Remove(workspaces, k)
        /\ elements' = Remove(elements, k)
        /\ ws' = [ws EXCEPT ![k] = NewWorkspace]
        /\ UNCHANGED <<win, current, locked, lock_element, task_list_enabled, failed>>
    BY DEF DestroyLastWorkspace
  <1>2. k \in Attached /\ k \in Workspace
    BY NeighbourWorkspaces, CurrentWorkspace
  <1> HIDE DEF k
  <1>3. WindowsOf(State, k) = {}
    <2>1. LinkedAt(State, k) /\ State.ws[k].windows = <<>>
      BY <1>1, <1>2, CurrentWorkspace DEF IInv, Good, Linked
    <2>2. Members(<<>>) = {}
      BY DEF Members
    <2> QED
      BY <2>1, <2>2 DEF LinkedAt
  <1>4. /\ workspaces' \in Seq(Workspace)
        /\ Unique(workspaces)'
        /\ Attached' = Attached \ {k}
    <2>1. /\ workspaces \in Seq(Workspace) /\ Unique(workspaces)
          /\ k \in Members(workspaces)
      BY <1>2 DEF IInv, Desk, Attached
    <2> QED
      BY <1>1, <2>1, RemoveType, RemoveMembers DEF Attached
  <1>5. elements' \in Seq(Element) /\ CurtainAboveWorkspaces'
    BY <1>1, <1>2, <1>4, WorkspaceRemoved
  <1>6. Desk'
    BY <1>1, <1>4, <1>5 DEF IInv, Desk, Element
  <1> QED
    BY <1>1, <1>2, <1>3, <1>4, <1>6, RenewedStep

-----------------------------------------------------------------------------
(* The inductive invariant.                                                *)

LEMMA InitHolds ==
    ASSUME Init PROVE IInv
  <1> DEFINE n == Len(InitialWorkspaces)
             stacked == [i \in 1..n |-> InitialWorkspaces[n + 1 - i]]
  <1>1. /\ workspaces = InitialWorkspaces
        /\ current = Head(InitialWorkspaces)
        /\ ws = [k \in Workspace |-> [NewWorkspace EXCEPT !.enabled = (k = current)]]
        /\ win = [w \in Window |-> NewWindow]
        /\ failed = NULL /\ locked = FALSE /\ lock_element = NULL
        /\ task_list_enabled = FALSE
        /\ elements = PushFront(stacked, Curtain)
    BY DEF Init, PushFront
  <1>2. /\ elements \in Seq(Element)
        /\ CurtainAboveWorkspaces
    <2>1. /\ InitialWorkspaces \in Seq(Workspace) /\ Unique(InitialWorkspaces)
          /\ n \in Nat /\ DOMAIN InitialWorkspaces = 1..n
      BY InitialWorkspacesAssumption
    <2> HIDE DEF n
    <2>2. /\ stacked \in [1..n -> Workspace]
          /\ DOMAIN stacked = 1..n
          /\ \A i \in 1..n : n + 1 - i \in 1..n /\ n + 1 - (n + 1 - i) = i
          /\ \A i \in 1..n : stacked[i] = InitialWorkspaces[n + 1 - i]
      BY <2>1
    <2> HIDE DEF stacked
    <2>3. stacked \in Seq(Workspace)
      BY <2>1, <2>2
    <2>4. Members(stacked) = Members(InitialWorkspaces)
      <3>1. \A i \in 1..n : InitialWorkspaces[i] = stacked[n + 1 - i]
        BY <2>2
      <3> QED
        BY <2>1, <2>2, <3>1 DEF Members
    <2>5. Unique(stacked)
      <3> SUFFICES ASSUME NEW i \in 1..n, NEW j \in 1..n, stacked[i] = stacked[j]
                   PROVE  i = j
        BY <2>2 DEF Unique
      <3>1. n + 1 - i = n + 1 - j
        BY <2>1, <2>2 DEF Unique
      <3> QED
        BY <2>1, <3>1
    <2>6. stacked \in Seq(Element) /\ Curtain \in Element
      BY <2>3 DEF Element
    <2>7. Members(stacked) = Attached /\ Curtain \notin Members(stacked)
      BY <1>1, <2>3, <2>4, MembersType, ConstantsAreDistinct DEF Attached
    <2>8. /\ elements \in Seq(Element)
          /\ Members(elements) = Attached \cup {Curtain}
          /\ Unique(elements)
      BY <1>1, <2>5, <2>6, <2>7, PushFrontMembers
    <2>9. \A k \in Attached : Precedes(elements, Curtain, k)
      BY <1>1, <2>6, <2>7, PushFrontOrder
    <2> QED
      BY <1>1, <2>8, <2>9 DEF CurtainAboveWorkspaces
  <1>3. Desk
    <2>1. Head(InitialWorkspaces) \in Members(InitialWorkspaces)
      BY InitialWorkspacesAssumption, EndsAreMembers
    <2> QED
      BY <1>1, <1>2, <2>1, InitialWorkspacesAssumption DEF Desk, Attached, Element
  <1>4. \A k \in Workspace :
            /\ ws[k] \in WorkspaceState
            /\ ws[k].enabled <=> k = current
            /\ ws[k].windows = <<>>
            /\ ws[k].window_container = <<>>
            /\ ws[k].fullscreen_container = <<>>
            /\ ws[k].activated = NULL
            /\ ws[k].formerly = NULL
            /\ ws[k].grab = "passthrough"
            /\ ws[k].grabbed = NULL
    <2> SUFFICES ASSUME NEW k \in Workspace
                 PROVE  /\ ws[k] \in WorkspaceState
                        /\ ws[k].enabled <=> k = current
                        /\ ws[k].windows = <<>>
                        /\ ws[k].window_container = <<>>
                        /\ ws[k].fullscreen_container = <<>>
                        /\ ws[k].activated = NULL
                        /\ ws[k].formerly = NULL
                        /\ ws[k].grab = "passthrough"
                        /\ ws[k].grabbed = NULL
      OBVIOUS
    <2> DEFINE b == k = current
    <2>1. b \in BOOLEAN
      OBVIOUS
    <2>2. ws[k] = [NewWorkspace EXCEPT !.enabled = b]
      BY <1>1
    <2> HIDE DEF b
    <2>3. ws[k] = [enabled |-> b, windows |-> <<>>, window_container |-> <<>>,
                   fullscreen_container |-> <<>>, activated |-> NULL,
                   formerly |-> NULL, grab |-> "passthrough",
                   grabbed |-> NULL, resize_edges |-> NULL]
      BY <2>2 DEF NewWorkspace
    <2>4. ws[k] \in WorkspaceState
      <3>1. <<>> \in Seq(Window) /\ "passthrough" \in Grab
        BY DEF Grab
      <3> QED
        BY <2>1, <2>3, <3>1 DEF WorkspaceState
    <2>5. /\ ws[k].enabled = b
          /\ ws[k].windows = <<>>
          /\ ws[k].window_container = <<>>
          /\ ws[k].fullscreen_container = <<>>
          /\ ws[k].activated = NULL
          /\ ws[k].formerly = NULL
          /\ ws[k].grab = "passthrough"
          /\ ws[k].grabbed = NULL
      BY <2>3
    <2>6. ws[k].enabled <=> k = current
      BY <2>5 DEF b
    <2> QED
      BY <2>4, <2>5, <2>6
  <1>5. \A w \in Window :
            /\ win[w] \in WindowState
            /\ win[w].workspace = NULL
            /\ ~win[w].activated
            /\ win[w].resize_edges = NULL
    BY <1>1 DEF NewWindow, WindowState
  <1>6. State.ws = ws /\ State.win = win /\ State.failed = NULL
    BY <1>1 DEF State
  <1>7. State \in StateType
    BY <1>1, <1>4, <1>5 DEF State, StateType
  <1>8. ASSUME NEW k \in Workspace PROVE LinkedAt(State, k)
    <2>1. Members(<<>>) = {} /\ Unique(<<>>) /\ SameOrder(<<>>, <<>>)
      BY DEF Members, Unique, SameOrder
    <2>2. WindowsOf(State, k) = {}
      BY <1>5, <1>6, ConstantsAreDistinct DEF WindowsOf
    <2> QED
      BY <1>4, <1>6, <2>1, <2>2 DEF LinkedAt
  <1>9. Active(State) /\ Held(State)
    BY <1>4, <1>5, <1>6, ConstantsAreDistinct DEF Active, Agreed, Held
  <1>10. Good(State)
    BY <1>7, <1>8, <1>9 DEF Good, Linked
  <1>11. current \in Workspace
    BY <1>3, MembersType DEF Desk, Attached
  <1>12. Placed(State) /\ OnlyCurrent(State) /\ Excused(State)
    BY <1>4, <1>5, <1>6, <1>11, ConstantsAreDistinct
       DEF Placed, OnlyCurrent, Excused, Site
  <1>13. Focused(State)
    BY <1>4, <1>6 DEF Focused, FocusedAt
  <1> QED
    BY <1>3, <1>10, <1>12, <1>13 DEF IInv

LEMMA WindowStepKeeps ==
    ASSUME IInv, NEW w \in Window, WindowStep(w)
    PROVE  IInv' /\ Reactivates
  <1>1. CASE TryMap(w)
    BY <1>1, TryMapStep
  <1>2. CASE SurfaceUnmap(w)
    BY <1>2, SurfaceUnmapStep
  <1>3. CASE \E ready, b \in BOOLEAN : CommitUnmapped(w, ready, b)
    BY <1>3, CommitUnmappedStep
  <1>8. CASE \E b \in BOOLEAN : CommitMapped(w, b)
    BY <1>8, CommitMappedStep
  <1>4. CASE RequestMove(w)
    BY <1>4, RequestMoveStep
  <1>5. CASE \E edges \in Edge : RequestResize(w, edges)
    BY <1>5, RequestResizeStep
  <1>6. CASE \E edges \in Edge : ButtonDownOnResizebar(w, edges)
    BY <1>6, ButtonDownOnResizebarStep
  <1>7. CASE \E part \in {"content", "titlebar", "modifier"} : ButtonDown(w, part)
    BY <1>7, ButtonDownStep
  <1> QED
    BY <1>1, <1>2, <1>3, <1>4, <1>5, <1>6, <1>7, <1>8 DEF WindowStep

LEMMA StepKeeps ==
    ASSUME IInv, [Next]_vars
    PROVE  IInv' /\ Reactivates
  <1>1. CASE \E w \in Window : WindowStep(w)
    BY <1>1, WindowStepKeeps
  <1>2. CASE \E target \in Window \cup {NULL} : ButtonUp(target)
    BY <1>2, ButtonUpStep
  <1>3. CASE KeyStep
    BY <1>3, TaskToNextStep, TaskToPreviousStep, DeactivateTaskListStep,
       MovingStep, SwitchingStep, DestroyLastWorkspaceStep DEF KeyStep
  <1>4. CASE \E k \in Workspace :
                 PointerLeave(k) \/ MoveToWorkspaceTriggered(k) \/ AddWorkspace(k)
    BY <1>4, PointerLeaveStep, MovingStep, AddWorkspaceStep
  <1>5. CASE \E e \in LockElement : Lock(e) \/ Unlock(e) \/ LockUnreference(e)
    BY <1>5, LockStep, UnlockStep, LockUnreferenceStep
  <1>6. CASE UNCHANGED vars
    <2>1. State' = State /\ Attached' = Attached
      BY <1>6 DEF vars, desktopVars, State, Attached
    <2> QED
      BY <1>6, <2>1 DEF vars, desktopVars, IInv, Desk, Placed, OnlyCurrent,
                        Excused, Focused, FocusedAt, Reactivates, CurtainAboveWorkspaces
  <1> QED
    BY <1>1, <1>2, <1>3, <1>4, <1>5, <1>6 DEF Next

\* The strengthening of all the properties below.
THEOREM Invariance == Spec => []IInv
  <1>1. IInv /\ [Next]_vars => IInv'
    BY StepKeeps
  <1> QED
    BY InitHolds, <1>1, PTL DEF Spec

-----------------------------------------------------------------------------
(* The theorems.                                                           *)

\* The structures of desktop.c, workspace.c and window.c keep their types: no
\* handler stores a pointer that is not one of a window or a workspace.
THEOREM TypeCorrectness == Spec => []TypeOK
  <1>1. IInv => TypeOK
    <2> SUFFICES ASSUME IInv PROVE TypeOK
      OBVIOUS
    <2>1. /\ ws \in [Workspace -> WorkspaceState]
          /\ win \in [Window -> WindowState]
          /\ failed \in Site \cup {NULL}
      BY CurrentWorkspace DEF StateType, State
    <2> QED
      BY <2>1, CurrentWorkspace DEF IInv, Desk, TypeOK
  <1> QED
    BY <1>1, Invariance, PTL

\* A window is told that it is activated exactly if a workspace has it as its
\* activated window (wlmtk_workspace_activate_window, wlmtk_window_set_activated).
THEOREM ActivationNeverParts == Spec => []ActivationAgrees
  <1>1. IInv => ActivationAgrees
    BY CurrentWorkspace DEF IInv, Good, Active, Agreed, ActivationAgrees
  <1> QED
    BY <1>1, Invariance, PTL

\* Only the current workspace is enabled, and only an enabled workspace has an
\* activated window (wlmtk_workspace_enable and its callers).
THEOREM ActivatedWhereEnabled == Spec => []ActivatedOnlyWhereEnabled
  <1>1. IInv => ActivatedOnlyWhereEnabled
    BY CurrentWorkspace
       DEF IInv, Good, Active, Agreed, OnlyCurrent, ActivatedOnlyWhereEnabled
  <1> QED
    BY <1>1, Invariance, PTL

\* wlmtk_workspace_unmap_window leaves no pointer to the window it unmaps.
THEOREM NothingDangles == Spec => []NoDanglingWindow
  <1>1. IInv => NoDanglingWindow
    <2> SUFFICES ASSUME IInv, NEW k \in Workspace
                 PROVE  {ws[k].activated, ws[k].formerly, ws[k].grabbed}
                            \subseteq {w \in Window : win[w].workspace = k} \cup {NULL}
      BY DEF NoDanglingWindow
    <2>1. /\ ws[k].activated \in Window \cup {NULL}
          /\ ws[k].formerly \in Window \cup {NULL}
          /\ ws[k].grabbed \in Window \cup {NULL}
      BY CurrentWorkspace, Fields
    <2>2. /\ ws[k].activated # NULL => ws[k].formerly = ws[k].activated
          /\ ws[k].formerly # NULL => win[ws[k].formerly].workspace = k
          /\ ws[k].grabbed # NULL => win[ws[k].grabbed].workspace = k
      BY CurrentWorkspace DEF IInv, Good, Active, Agreed, Held
    <2> QED
      BY <2>1, <2>2
  <1> QED
    BY <1>1, Invariance, PTL

\* Mapped windows are linked once in the list of their workspace, and in exactly
\* one of its containers.
THEOREM WindowsArePartitioned == Spec => []ContainersPartitionWindows
  <1>1. IInv => ContainersPartitionWindows
    BY CurrentWorkspace
       DEF IInv, Good, Linked, LinkedAt, WindowsOf, ContainersPartitionWindows
  <1> QED
    BY <1>1, Invariance, PTL

\* Task cycling and the task list follow the stacking order of the ordinary
\* windows, through raises and changes to fullscreen and back
\* (wlmtk_workspace_raise_window, wlmtk_workspace_window_to_fullscreen).
THEOREM TaskListIsStacked == Spec => []TaskListFollowsStacking
  <1>1. IInv => TaskListFollowsStacking
    BY CurrentWorkspace
       DEF IInv, Good, Linked, LinkedAt, SameOrder, TaskListFollowsStacking
  <1> QED
    BY <1>1, Invariance, PTL

\* Unmapping, moving or restoring windows never leaves an enabled workspace with
\* ordinary windows without an activated one (wlmtk_workspace_unmap_window).
THEOREM FocusStays == Spec => []FocusIsNotLost
  <1>1. IInv => FocusIsNotLost
    BY CurrentWorkspace DEF IInv, Focused, FocusedAt, FocusIsNotLost
  <1> QED
    BY <1>1, Invariance, PTL

\* The curtain is above every workspace, the ones added later included
\* (wlmtk_desktop_add_workspace, wlmtk_desktop_lock and their inverses).
THEOREM CurtainIsAbove == Spec => []CurtainAboveWorkspaces
  <1>1. IInv => CurtainAboveWorkspaces
    BY DEF IInv, Desk
  <1> QED
    BY <1>1, Invariance, PTL

\* An interactive move or resize that ends early leaves neither a grabbed window
\* nor resize edges behind (the FSM of workspace.c).
THEOREM GrabsBalance == Spec => []GrabIsBalanced
  <1>1. IInv => GrabIsBalanced
    BY CurrentWorkspace DEF IInv, Good, Held, GrabIsBalanced
  <1> QED
    BY <1>1, Invariance, PTL

\* No window is on a destroyed workspace, and the current workspace of a desktop
\* that is not locked is enabled (desktop.c).
THEOREM DesktopIsWhole == Spec => []DesktopStaysWhole
  <1>1. IInv => DesktopStaysWhole
    BY CurrentWorkspace DEF IInv, Desk, OnlyCurrent, DesktopStaysWhole, Mapped
  <1> QED
    BY <1>1, Invariance, PTL

\* The assertions of map_window, unmap_window and begin_window_move/resize hold
\* wherever these are called for the windows of toplevels. It does not extend to
\* the root menu's window, which is not one of Desktop's.
THEOREM AssertionsHold == Spec => []NoOtherFailure
  <1>1. IInv => NoOtherFailure
    BY CurrentWorkspace DEF IInv, Excused, NoOtherFailure
  <1> QED
    BY <1>1, Invariance, PTL

\* The step that enables a workspace activates the window that was activated
\* there last (wlmtk_workspace_enable).
THEOREM ReactivatesFormerly == Spec => ReenablingReactivates
  <1>1. IInv /\ [Next]_vars =>
            [\A k \in Workspace :
                ~ws[k].enabled /\ ws'[k].enabled =>
                    ws'[k].activated = ws[k].formerly]_vars
    BY StepKeeps DEF Reactivates
  <1> QED
    BY <1>1, Invariance, PTL DEF Spec, ReenablingReactivates

\* Switching workspaces, mapping windows and whatever else happens while the
\* desktop is locked never lifts the lock or gives it to another element.
THEOREM LockRefinement == Spec => ImplementsDesktopLock
  <1>1. Init => Promise!Init
    BY DEF Init, Promise!Init
  <1>2. IInv /\ [Next]_vars => [Promise!Next]_Promise!lockVars
    <2> SUFFICES ASSUME IInv, [Next]_vars
                 PROVE  \/ Promise!Next
                        \/ locked' = locked /\ lock_element' = lock_element
      BY DEF Promise!lockVars
    <2>1. CASE \E w \in Window : WindowStep(w)
      BY <2>1 DEF WindowStep, TryMap, SurfaceUnmap, CommitUnmapped,
         CommitMapped, RequestMove, RequestResize, ButtonDownOnResizebar, ButtonDown, desktopVars
    <2>2. CASE \E target \in Window \cup {NULL} : ButtonUp(target)
      BY <2>2 DEF ButtonUp, desktopVars
    <2>3. CASE KeyStep
      BY <2>3 DEF KeyStep, TaskToNext, TaskToPrevious, TaskTo, DeactivateTaskList,
         WindowToNextWorkspace, WindowToPreviousWorkspace, MoveWindowTo,
         SwitchToNextWorkspace, SwitchToPreviousWorkspace, SwitchToWorkspace,
         DestroyLastWorkspace, desktopVars
    <2>4. CASE \E k \in Workspace :
                   PointerLeave(k) \/ MoveToWorkspaceTriggered(k) \/ AddWorkspace(k)
      BY <2>4 DEF PointerLeave, MoveToWorkspaceTriggered, MoveWindowTo,
         AddWorkspace, desktopVars
    <2>5. ASSUME NEW e \in LockElement, Lock(e) PROVE Promise!Next
      BY <2>5 DEF Lock, Promise!Next, Promise!Lock
    <2>6. ASSUME NEW e \in LockElement, Unlock(e) PROVE Promise!Next
      BY <2>6 DEF Unlock, Promise!Next, Promise!Unlock
    <2>7. ASSUME NEW e \in LockElement, LockUnreference(e) PROVE Promise!Next
      <3>1. lock_element # NULL /\ locked
        BY <2>7, ConstantsAreDistinct DEF LockUnreference, IInv, Desk
      <3> QED
        BY <2>7, <3>1 DEF LockUnreference, Promise!Next, Promise!Orphan
    <2>8. CASE UNCHANGED vars
      BY <2>8 DEF vars, desktopVars
    <2> QED
      BY <2>1, <2>2, <2>3, <2>4, <2>5, <2>6, <2>7, <2>8 DEF Next
  <1> QED
    BY <1>1, <1>2, Invariance, PTL DEF Spec, ImplementsDesktopLock, Promise!Spec
=============================================================================
