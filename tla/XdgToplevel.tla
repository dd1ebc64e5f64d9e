---------------------------- MODULE XdgToplevel ----------------------------
(***************************************************************************)
(* Size and state of one XDG toplevel: toolkit/window.c decides what to    *)
(* ask the client for, xdg_toplevel.c sends it as configure events, and    *)
(* the client answers with commits, late and several at once.  The window  *)
(* takes a state when the client commits it, never when it is requested.   *)
(*                                                                         *)
(* One output and the horizontal dimension only.  The window is decorated  *)
(* by the server, with a border that fullscreen windows do not have.  Not  *)
(* modelled: unmapping, the workspace's containers and their assertions    *)
(* (see Desktop), and interactive moves.                                   *)
(***************************************************************************)
EXTENDS Integers, Sequences

CONSTANTS
    Widths,          \* widths a floating client chooses by itself
    OutputWidth,     \* width of a fullscreen window
    MaximizedWidth,  \* width of a maximized window, with its borders
    Border,
    CascadeStep,     \* _wlmtk_workspace_placement_step
    Motions,         \* pointer positions during a resize, relative to its begin
    MaxQueue         \* bound: configure events a client leaves unanswered

ASSUME XdgToplevelAssumption ==
    /\ Widths \subseteq Nat \ {0} /\ Motions \subseteq Int
    /\ {OutputWidth, MaximizedWidth} \subseteq Nat \ {0}
    /\ {Border, CascadeStep, MaxQueue} \subseteq Nat

VARIABLES
    window,    \* the toolkit's window
    toplevel,  \* wlmaker's toplevel, with wlroots' state of it
    resize,    \* the workspace's pointer state machine
    asked      \* history: was the last request for fullscreen one to enter it?
vars == <<window, toplevel, resize, asked>>

NoEdge == "none"
Edges == {"left", "right"}
Configure == [fullscreen : BOOLEAN, maximized : BOOLEAN, width : Int]

(***************************************************************************)
(* latest > 0 is set_size_serial > committed_serial: the last size set is  *)
(* in the configure event queue[latest], or in the scheduled one if latest *)
(* is Len(queue) + 1.                                                      *)
(***************************************************************************)
TypeOK ==
    /\ window \in [x : Int, width : Int, oldWidth : Int, organicX : Int, organicWidth : Int,
                   inorganic : BOOLEAN, fullscreen : BOOLEAN, maximized : BOOLEAN,
                   edges : Edges \cup {NoEdge}, mapped : BOOLEAN, preferred : BOOLEAN]
    /\ toplevel \in [initialized : BOOLEAN, configured : BOOLEAN, idle : BOOLEAN, latest : Nat,
                     properties : SUBSET {"maximized", "fullscreen", "size", "activated"},
                     pending : Configure, scheduled : Configure, current : Configure,
                     queue : Seq(Configure)]
    /\ resize \in [active : BOOLEAN, edges : Edges \cup {NoEdge}, initialWidth : Int]
    /\ asked \in BOOLEAN

Unset == [fullscreen |-> FALSE, maximized |-> FALSE, width |-> 0]

Init ==
    /\ window = [x |-> 0, width |-> 0, oldWidth |-> 0, organicX |-> 0, organicWidth |-> 0,
                 inorganic |-> FALSE, fullscreen |-> FALSE, maximized |-> FALSE,
                 edges |-> NoEdge, mapped |-> FALSE, preferred |-> FALSE]
    /\ toplevel = [initialized |-> FALSE, configured |-> FALSE, idle |-> FALSE, latest |-> 0,
                   properties |-> {}, pending |-> Unset, scheduled |-> Unset,
                   current |-> Unset, queue |-> <<>>]
    /\ resize = [active |-> FALSE, edges |-> NoEdge, initialWidth |-> 0]
    /\ asked = FALSE

-----------------------------------------------------------------------------
(* The window.  Width of the bordered element, and its layout, which keeps   *)
(* the edge firm that is opposite of the one resized by.                     *)
Bordered(w) == w.width + (IF w.fullscreen THEN 0 ELSE 2 * Border)

LayoutKeepingOldBox(w) == [w EXCEPT !.x = IF w.edges = "left" THEN @ + w.oldWidth - Bordered(w) ELSE @]

Layout(w) == [w EXCEPT !.x = IF w.edges = "left" THEN @ + w.oldWidth - Bordered(w) ELSE @,
                       !.oldWidth = Bordered(w)]

PositionChanged(w) == IF w.inorganic THEN w ELSE [w EXCEPT !.organicX = w.x]

SetWindowPosition(w, x) == IF w.mapped THEN PositionChanged([w EXCEPT !.x = x]) ELSE w

SetResizeEdges(w, edges) == [w EXCEPT !.edges = edges, !.oldWidth = Bordered(w)]

CommitSize(w, width) ==
    LET organic == ~w.inorganic /\ ~w.fullscreen /\ ~w.maximized
    IN  Layout([w EXCEPT !.width = width, !.organicWidth = IF organic THEN width ELSE @])

CommitFullscreen(w, fullscreen) ==
    LET decorated == Layout([w EXCEPT !.fullscreen = fullscreen])
    IN  [SetWindowPosition(decorated, IF fullscreen THEN 0 ELSE w.organicX)
         EXCEPT !.inorganic = FALSE]

CommitMaximized(w, maximized) ==
    [SetWindowPosition([w EXCEPT !.maximized = maximized], IF maximized THEN 0 ELSE w.organicX)
     EXCEPT !.inorganic = FALSE]

(* An only window is placed where it is when it fits, and cascaded otherwise. *)
MapWindow(w) ==
    LET placed == IF w.x + Bordered(w) <= MaximizedWidth THEN PositionChanged(w)
                                                         ELSE [w EXCEPT !.x = CascadeStep]
    IN  [placed EXCEPT !.mapped = TRUE]

HasOutput(w) == w.mapped \/ w.preferred

SizeFor(w, inorganic, width) == IF inorganic THEN width ELSE w.organicWidth

-----------------------------------------------------------------------------
(* The toplevel: properties pile up until the first commit, and are then     *)
(* scheduled to be sent in one configure event.  What is pending is not read *)
(* again until it is set again.                                              *)
Flushed(t) ==
    LET p == t.properties
        Latest(prop, field) == IF prop \in p THEN t.pending[field] ELSE t.scheduled[field]
    IN  [t EXCEPT !.scheduled = [fullscreen |-> Latest("fullscreen", "fullscreen"),
                                 maximized |-> Latest("maximized", "maximized"),
                                 width |-> Latest("size", "width")],
                  !.latest = IF "size" \in p THEN Len(t.queue) + 1 ELSE @,
                  !.idle = @ \/ p # {},
                  !.properties = {},
                  !.pending = Unset]

(* A plausible slip: what piles up before the first commit is dropped.       *)
FlushForgetting(t) == IF t.initialized THEN Flushed(t) ELSE [t EXCEPT !.properties = {}]

FlushProperties(t) == IF t.initialized THEN Flushed(t) ELSE t

SetActivated(t) == FlushProperties([t EXCEPT !.properties = @ \cup {"activated"}])

(* Ignored while commits have not caught up with the size last set. *)
RequestSize(t, width) ==
    IF t.latest > 0 THEN t
    ELSE FlushProperties([t EXCEPT !.properties = @ \cup {"size"}, !.pending.width = width])

RequestFullscreen(t, fullscreen) ==
    FlushProperties([t EXCEPT !.properties = @ \cup {"fullscreen"},
                              !.pending.fullscreen = fullscreen,
                              !.pending.maximized = @ /\ ~fullscreen])

RequestMaximized(t, maximized) ==
    FlushProperties([t EXCEPT !.properties = @ \cup {"maximized"},
                              !.pending.maximized = maximized])

-----------------------------------------------------------------------------
(* Requests of the client and of the user, whose actions leave the preferred *)
(* output as it is and are for mapped windows.                               *)
FullscreenRequested(fullscreen, preferred) ==
    LET w == [window EXCEPT !.inorganic = fullscreen, !.preferred = preferred]
        told == RequestFullscreen(toplevel, fullscreen /\ HasOutput(w))
    IN  /\ window' = w
        /\ toplevel' = IF HasOutput(w)
                       THEN RequestSize(told, SizeFor(w, fullscreen, OutputWidth))
                       ELSE told
        /\ asked' = (fullscreen /\ HasOutput(w))
        /\ UNCHANGED resize

ClientRequestsFullscreen ==
    \E fullscreen, output \in BOOLEAN : FullscreenRequested(fullscreen, fullscreen /\ output)

UserRequestsFullscreen ==
    /\ window.mapped
    /\ \E fullscreen \in BOOLEAN : FullscreenRequested(fullscreen, window.preferred)

RequestMaximizedOrNot ==
    \E maximized \in BOOLEAN :
        LET refused == window.fullscreen \/ ~HasOutput(window)
            told == RequestMaximized(toplevel, maximized /\ ~refused)
            width == IF window.mapped THEN MaximizedWidth ELSE OutputWidth
        IN  /\ window' = IF refused THEN window ELSE [window EXCEPT !.inorganic = maximized]
            /\ toplevel' = IF refused THEN told
                           ELSE RequestSize(told, SizeFor(window, maximized, width - 2 * Border))
            /\ UNCHANGED <<resize, asked>>

(* The workspace's edges are set even if a resize is going on already. *)
BeginWindowResize(edges) ==
    /\ window.mapped
    /\ IF resize.active
       THEN resize' = [resize EXCEPT !.edges = edges] /\ UNCHANGED window
       ELSE /\ resize' = [active |-> TRUE, edges |-> edges, initialWidth |-> window.width]
            /\ window' = SetResizeEdges(window, edges)
    /\ UNCHANGED <<toplevel, asked>>

ResizeMotion(rel) ==
    LET width == resize.initialWidth + (IF resize.edges = "left" THEN -rel ELSE rel)
        floating == IF window.maximized THEN RequestMaximized(toplevel, FALSE) ELSE toplevel
    IN  /\ resize.active /\ ~window.fullscreen
        /\ toplevel' = RequestSize(floating, IF width < 1 THEN 1 ELSE width)
        /\ UNCHANGED <<window, resize, asked>>

EndResize ==
    /\ resize.active
    /\ window' = SetResizeEdges(window, NoEdge)
    /\ resize' = [resize EXCEPT !.active = FALSE]
    /\ UNCHANGED <<toplevel, asked>>

-----------------------------------------------------------------------------
(* wlroots sends what is scheduled when the event loop is idle. *)
SendConfigure ==
    /\ toplevel.idle /\ Len(toplevel.queue) < MaxQueue
    /\ toplevel' = [toplevel EXCEPT !.idle = FALSE, !.queue = Append(@, toplevel.scheduled)]
    /\ UNCHANGED <<window, resize, asked>>

InitialCommit ==
    /\ ~toplevel.initialized
    /\ LET t == [toplevel EXCEPT !.initialized = TRUE]
       IN  toplevel' = IF t.properties # {} THEN FlushProperties(t) ELSE [t EXCEPT !.idle = TRUE]
    /\ window' = CommitSize(window, 0)
    /\ UNCHANGED <<resize, asked>>

(* What wlroots holds after a commit that acknowledges k configure events. *)
Acknowledged(t, k) ==
    IF k = 0 THEN t
    ELSE [t EXCEPT !.current = t.queue[k], !.configured = TRUE,
                   !.queue = SubSeq(@, k + 1, Len(@)),
                   !.latest = IF @ > k THEN @ - k ELSE 0]

(* The size of a fullscreen or maximized client is not its own choice. *)
WidthsOf(t, w) ==
    IF t.configured
    THEN (IF (t.current.fullscreen \/ t.current.maximized) /\ t.current.width > 0
          THEN {t.current.width}
          ELSE Widths \cup (IF t.current.width > 0 THEN {t.current.width} ELSE {}))
         \cup (IF w.mapped THEN {} ELSE {0})
    ELSE {0}

(* The handler of the surface's commits: size, map, and then one of the two  *)
(* states that differ.                                                       *)
HandleCommit(t, w, width) ==
    LET sized == CommitSize(w, width)
        maps == width > 0 /\ ~w.mapped
        on == IF maps THEN MapWindow(sized) ELSE sized
        told == IF maps THEN SetActivated(t) ELSE t
        fullscreen == t.current.fullscreen
        maximized == t.current.maximized
        full == CommitFullscreen(on, fullscreen)
        reactivated == IF on.mapped THEN SetActivated(told) ELSE told
    IN  IF fullscreen # on.fullscreen
        THEN /\ window' = full
             /\ toplevel' = IF fullscreen /\ ~HasOutput(full) THEN reactivated
                            ELSE RequestSize(reactivated, SizeFor(full, fullscreen, OutputWidth))
        ELSE IF maximized # on.maximized /\ on.mapped
        THEN LET max == CommitMaximized(on, maximized)
                 borders == Bordered(max) - max.width
             IN  /\ window' = max
                 /\ toplevel' = RequestSize(told, SizeFor(max, maximized, MaximizedWidth - borders))
        ELSE window' = on /\ toplevel' = told

ClientCommit(k) ==
    LET t == Acknowledged(toplevel, k)
    IN  /\ toplevel.initialized
        /\ k <= Len(toplevel.queue)
        /\ \E width \in WidthsOf(t, window) : HandleCommit(t, window, width)
        /\ UNCHANGED <<resize, asked>>

Request ==
    \/ ClientRequestsFullscreen
    \/ UserRequestsFullscreen
    \/ RequestMaximizedOrNot
    \/ \E rel \in Motions : ResizeMotion(rel)

Answer == \E k \in 1 .. MaxQueue : ClientCommit(k)

Resizing ==
    \/ \E edges \in Edges : BeginWindowResize(edges)
    \/ EndResize

Configuring ==
    \/ SendConfigure
    \/ InitialCommit
    \/ ClientCommit(0)
    \/ Answer

Next == Request \/ Resizing \/ Configuring

(* The event loop gets idle, and a client answers configure events. *)
Spec == Init /\ [][Next]_vars /\ WF_vars(SendConfigure) /\ WF_vars(Answer)

-----------------------------------------------------------------------------
RightEdge(w) == w.x + Bordered(w)

(* Whatever sizes the client answers with, late and in batches: while the    *)
(* window is resized by its left edge and keeps its state, its right edge    *)
(* stays where it is (_wlmtk_window_element_layout, "Edges to anchor on").   *)
AnchoredEdgeStays ==
    [][ /\ window.mapped
        /\ window.edges = "left" /\ window'.edges = "left"
        /\ window'.fullscreen = window.fullscreen /\ window'.maximized = window.maximized
        => RightEdge(window') = RightEdge(window) ]_vars

(* The newest configure event, or else what the client acknowledged last.    *)
Newest(t) == IF t.queue = <<>> THEN t.current ELSE t.queue[Len(t.queue)]

(* No request is lost on its way to the client: the state asked for last is  *)
(* what is pending, or else scheduled; what is scheduled is what was sent    *)
(* last, unless it is about to be sent; and sizes are held back only while a *)
(* configure event that is not acknowledged has the last one, as have all    *)
(* events after it (wlmaker_xdg_toplevel_flush_properties, committed_serial). *)
RequestsAreUnderway ==
    LET t == toplevel IN
    /\ t.initialized => t.properties = {}
    /\ asked = IF "fullscreen" \in t.properties THEN t.pending.fullscreen
                                                ELSE t.scheduled.fullscreen
    /\ t.idle \/ t.scheduled = Newest(t)
    /\ t.latest <= Len(t.queue) \/ (t.idle /\ t.latest = Len(t.queue) + 1)
    /\ t.latest > 0 =>
           \A i \in t.latest .. Len(t.queue) : t.queue[i].width = t.scheduled.width

(* Requests pass through pending properties, a scheduled configure event and *)
(* the client, and a commit takes one change at a time: once no requests are *)
(* made any more, the window gets into the state that was last asked for,    *)
(* and wlmaker, wlroots and the client agree on it.                          *)
WindowFollowsRequests ==
    <>[][~Request]_vars
        => <>[](window.mapped => /\ window.fullscreen = asked
                                 /\ window.maximized = toplevel.scheduled.maximized
                                 /\ toplevel.properties = {})

(* window.c's organic_bounding_box: "Position of the window, and size of the *)
(* content window when not in fullscreen or maximized state."  Violated: a   *)
(* request that is withdrawn before the client answered it ends              *)
(* inorganic_sizing, and the maximized size is recorded.                     *)
OrganicSizeIsOrganic ==
    [][ window'.organicWidth # window.organicWidth
        => ~toplevel'.current.fullscreen /\ ~toplevel'.current.maximized ]_vars
=============================================================================
