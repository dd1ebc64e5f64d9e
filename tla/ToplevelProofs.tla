--------------------------- MODULE ToplevelProofs ---------------------------
(***************************************************************************)
(* Proofs about XdgToplevel: its types, and that the edge opposite of a    *)
(* resize by the left edge stays, for every output, border and client.     *)
(***************************************************************************)
EXTENDS XdgToplevel, TLAPS

Windows ==
    [x : Int, width : Int, oldWidth : Int, organicX : Int, organicWidth : Int,
     inorganic : BOOLEAN, fullscreen : BOOLEAN, maximized : BOOLEAN,
     edges : Edges \cup {NoEdge}, mapped : BOOLEAN, preferred : BOOLEAN]

Toplevels ==
    [initialized : BOOLEAN, configured : BOOLEAN, idle : BOOLEAN, latest : Nat,
     properties : SUBSET {"maximized", "fullscreen", "size", "activated"},
     pending : Configure, scheduled : Configure, current : Configure,
     queue : Seq(Configure)]

(* The remembered box is that of the window at all times it is mapped, and   *)
(* not only while it is resized: any layout refreshes it.                    *)
Follows(w) == w.mapped => w.oldWidth = Bordered(w)

IInv == TypeOK /\ Follows(window)

-----------------------------------------------------------------------------
(* The operators on windows keep their type. *)
LEMMA BorderedType == ASSUME NEW w \in Windows PROVE Bordered(w) \in Int
  BY XdgToplevelAssumption DEF Windows, Bordered

LEMMA LayoutType ==
    ASSUME NEW w \in Windows
    PROVE  /\ Layout(w) \in Windows
           /\ Layout(w).oldWidth = Bordered(Layout(w))
           /\ Layout(w).mapped = w.mapped
<1> DEFINE x == IF w.edges = "left" THEN w.x + w.oldWidth - Bordered(w) ELSE w.x
<1>1. x \in Int /\ Bordered(w) \in Int
  BY BorderedType DEF Windows
<1>2. Layout(w) = [w EXCEPT !.x = x, !.oldWidth = Bordered(w)]
  BY DEF Layout
<1>3. Layout(w) \in Windows
  BY <1>1, <1>2 DEF Windows
<1>4. /\ Layout(w).oldWidth = Bordered(w) /\ Layout(w).mapped = w.mapped
      /\ Layout(w).width = w.width /\ Layout(w).fullscreen = w.fullscreen
  BY <1>2 DEF Windows
<1> QED
  BY <1>3, <1>4 DEF Bordered

LEMMA PositionType ==
    ASSUME NEW w \in Windows, NEW x \in Int
    PROVE  /\ PositionChanged(w) \in Windows /\ SetWindowPosition(w, x) \in Windows
           /\ Follows(w) => Follows(PositionChanged(w)) /\ Follows(SetWindowPosition(w, x))
  BY DEF Windows, PositionChanged, SetWindowPosition, Follows, Bordered

LEMMA ResizeEdgesType ==
    ASSUME NEW w \in Windows, NEW edges \in Edges \cup {NoEdge}
    PROVE  SetResizeEdges(w, edges) \in Windows /\ Follows(SetResizeEdges(w, edges))
<1>1. SetResizeEdges(w, edges) \in Windows
  BY BorderedType DEF Windows, SetResizeEdges
<1>2. Follows(SetResizeEdges(w, edges))
  BY DEF Windows, SetResizeEdges, Follows, Bordered
<1> QED
  BY <1>1, <1>2

LEMMA CommitSizeType ==
    ASSUME NEW w \in Windows, NEW width \in Int
    PROVE  /\ CommitSize(w, width) \in Windows /\ Follows(CommitSize(w, width))
           /\ CommitSize(w, width).oldWidth = Bordered(CommitSize(w, width))
<1> DEFINE r == [w EXCEPT !.width = width,
                          !.organicWidth = IF ~w.inorganic /\ ~w.fullscreen /\ ~w.maximized
                                           THEN width ELSE @]
<1>1. r \in Windows
  BY DEF Windows
<1>2. CommitSize(w, width) = Layout(r)
  BY DEF CommitSize
<1> QED
  BY <1>1, <1>2, LayoutType DEF Follows

LEMMA CommitFullscreenType ==
    ASSUME NEW w \in Windows, NEW fullscreen \in BOOLEAN
    PROVE  /\ CommitFullscreen(w, fullscreen) \in Windows
           /\ Follows(CommitFullscreen(w, fullscreen))
           /\ CommitFullscreen(w, fullscreen).fullscreen = fullscreen
<1> DEFINE f == [w EXCEPT !.fullscreen = fullscreen]
           at == IF fullscreen THEN 0 ELSE w.organicX
           p == SetWindowPosition(Layout(f), at)
<1>1. f \in Windows /\ at \in Int /\ f.fullscreen = fullscreen
  BY DEF Windows
<1>2. Layout(f) \in Windows /\ Follows(Layout(f)) /\ Layout(f).fullscreen = fullscreen
  BY <1>1, LayoutType DEF Follows, Layout, Windows
<1>3. p \in Windows /\ Follows(p) /\ p.fullscreen = fullscreen
  <2>1. p \in Windows /\ Follows(p)
    BY <1>1, <1>2, PositionType
  <2>2. p.fullscreen = fullscreen
    BY <1>2 DEF SetWindowPosition, PositionChanged, Windows
  <2> QED BY <2>1, <2>2
<1>4. CommitFullscreen(w, fullscreen) = [p EXCEPT !.inorganic = FALSE]
  BY DEF CommitFullscreen
<1> QED
  BY <1>3, <1>4 DEF Windows, Follows, Bordered

LEMMA CommitMaximizedType ==
    ASSUME NEW w \in Windows, NEW maximized \in BOOLEAN, Follows(w)
    PROVE  /\ CommitMaximized(w, maximized) \in Windows
           /\ Follows(CommitMaximized(w, maximized))
           /\ CommitMaximized(w, maximized).maximized = maximized
<1> DEFINE m == [w EXCEPT !.maximized = maximized]
           at == IF maximized THEN 0 ELSE w.organicX
           p == SetWindowPosition(m, at)
<1>1. m \in Windows /\ at \in Int /\ Follows(m) /\ m.maximized = maximized
  BY DEF Windows, Follows, Bordered
<1>2. p \in Windows /\ Follows(p) /\ p.maximized = maximized
  <2>1. p \in Windows /\ Follows(p)
    BY <1>1, PositionType
  <2>2. p.maximized = maximized
    BY <1>1 DEF SetWindowPosition, PositionChanged, Windows
  <2> QED BY <2>1, <2>2
<1>3. CommitMaximized(w, maximized) = [p EXCEPT !.inorganic = FALSE]
  BY DEF CommitMaximized
<1> QED
  BY <1>2, <1>3 DEF Windows, Follows, Bordered

LEMMA MapWindowType ==
    ASSUME NEW w \in Windows, w.oldWidth = Bordered(w)
    PROVE  MapWindow(w) \in Windows /\ Follows(MapWindow(w))
<1> DEFINE fits == w.x + Bordered(w) <= MaximizedWidth
           placed == IF fits THEN PositionChanged(w) ELSE [w EXCEPT !.x = CascadeStep]
<1>1. placed \in Windows
  BY PositionType, XdgToplevelAssumption DEF Windows
<1>2. placed.oldWidth = Bordered(placed)
  BY DEF Windows, PositionChanged, Bordered
<1>3. MapWindow(w) = [placed EXCEPT !.mapped = TRUE]
  BY DEF MapWindow
<1> QED
  BY <1>1, <1>2, <1>3 DEF Windows, Follows, Bordered

LEMMA SizeForType ==
    ASSUME NEW w \in Windows, NEW inorganic \in BOOLEAN, NEW width \in Int
    PROVE  SizeFor(w, inorganic, width) \in Int
  BY DEF Windows, SizeFor

-----------------------------------------------------------------------------
(* The operators on toplevels keep their type. *)
LEMMA FlushType ==
    ASSUME NEW t \in Toplevels
    PROVE  FlushProperties(t) \in Toplevels
<1>1. Flushed(t) \in Toplevels
  <2> DEFINE p == t.properties
             Latest(prop, field) == IF prop \in p THEN t.pending[field] ELSE t.scheduled[field]
             next == [fullscreen |-> Latest("fullscreen", "fullscreen"),
                      maximized |-> Latest("maximized", "maximized"),
                      width |-> Latest("size", "width")]
             latest == IF "size" \in p THEN Len(t.queue) + 1 ELSE t.latest
  <2>1. t.pending \in Configure /\ t.scheduled \in Configure
        /\ t.queue \in Seq(Configure) /\ t.latest \in Nat /\ t.idle \in BOOLEAN
    BY DEF Toplevels
  <2>2. latest \in Nat
    BY <2>1
  <2>3. next \in Configure
    BY <2>1 DEF Configure
  <2>4. Unset \in Configure
    BY DEF Configure, Unset
  <2>5. (t.idle \/ p # {}) \in BOOLEAN
    OBVIOUS
  <2>6. Flushed(t) = [t EXCEPT !.scheduled = next, !.latest = latest, !.idle = t.idle \/ p # {},
                              !.properties = {}, !.pending = Unset]
    BY DEF Flushed
  <2> HIDE DEF next, latest
  <2> QED
    BY <2>2, <2>3, <2>4, <2>5, <2>6 DEF Toplevels
<1> QED
  BY <1>1 DEF FlushProperties

LEMMA RequestsType ==
    ASSUME NEW t \in Toplevels
    PROVE  /\ SetActivated(t) \in Toplevels
           /\ \A width \in Int : RequestSize(t, width) \in Toplevels
           /\ \A b \in BOOLEAN : /\ RequestFullscreen(t, b) \in Toplevels
                                 /\ RequestMaximized(t, b) \in Toplevels
<1>1. SetActivated(t) \in Toplevels
  <2>1. [t EXCEPT !.properties = @ \cup {"activated"}] \in Toplevels
    BY DEF Toplevels
  <2> QED BY <2>1, FlushType DEF SetActivated
<1>2. ASSUME NEW width \in Int PROVE RequestSize(t, width) \in Toplevels
  <2>1. [t EXCEPT !.properties = @ \cup {"size"}, !.pending.width = width] \in Toplevels
    BY DEF Toplevels, Configure
  <2> QED BY <2>1, FlushType DEF RequestSize
<1>3. ASSUME NEW b \in BOOLEAN PROVE RequestFullscreen(t, b) \in Toplevels
  <2>1. [t EXCEPT !.properties = @ \cup {"fullscreen"}, !.pending.fullscreen = b,
                  !.pending.maximized = @ /\ ~b] \in Toplevels
    BY DEF Toplevels, Configure
  <2> QED BY <2>1, FlushType DEF RequestFullscreen
<1>4. ASSUME NEW b \in BOOLEAN PROVE RequestMaximized(t, b) \in Toplevels
  <2>1. [t EXCEPT !.properties = @ \cup {"maximized"}, !.pending.maximized = b] \in Toplevels
    BY DEF Toplevels, Configure
  <2> QED BY <2>1, FlushType DEF RequestMaximized
<1> QED
  BY <1>1, <1>2, <1>3, <1>4

LEMMA AcknowledgedType ==
    ASSUME NEW t \in Toplevels, NEW k \in Nat, k <= Len(t.queue)
    PROVE  Acknowledged(t, k) \in Toplevels
<1>1. CASE k = 0
  BY <1>1 DEF Acknowledged
<1>2. CASE k # 0
  <2>1. t.queue \in Seq(Configure) /\ k \in 1 .. Len(t.queue)
    BY <1>2 DEF Toplevels
  <2>2. t.queue[k] \in Configure
    BY <2>1
  <2>3. SubSeq(t.queue, k + 1, Len(t.queue)) \in Seq(Configure)
    BY <2>1
  <2>4. (IF t.latest > k THEN t.latest - k ELSE 0) \in Nat
    BY DEF Toplevels
  <2> QED
    BY <1>2, <2>2, <2>3, <2>4 DEF Acknowledged, Toplevels
<1> QED
  BY <1>1, <1>2

LEMMA WidthsType ==
    ASSUME NEW t \in Toplevels, NEW w \in Windows, NEW width \in WidthsOf(t, w)
    PROVE  width \in Int
  BY XdgToplevelAssumption DEF WidthsOf, Toplevels, Configure

-----------------------------------------------------------------------------
(* A commit keeps the invariant, and in a state that does not change it is   *)
(* only the size that is taken.                                              *)
LEMMA HandleCommitStep ==
    ASSUME NEW t \in Toplevels, NEW w \in Windows, Follows(w), NEW width \in Int,
           HandleCommit(t, w, width)
    PROVE  /\ window' \in Windows /\ toplevel' \in Toplevels /\ Follows(window)'
           /\ w.mapped /\ window'.fullscreen = w.fullscreen /\ window'.maximized = w.maximized
              => window' = CommitSize(w, width)
<1> DEFINE sized == CommitSize(w, width)
           maps == width > 0 /\ ~w.mapped
           on == IF maps THEN MapWindow(sized) ELSE sized
           told == IF maps THEN SetActivated(t) ELSE t
           fullscreen == t.current.fullscreen
           maximized == t.current.maximized
           full == CommitFullscreen(on, fullscreen)
           reactivated == IF on.mapped THEN SetActivated(told) ELSE told
           max == CommitMaximized(on, maximized)
           borders == Bordered(max) - max.width
<1>1. /\ sized \in Windows /\ Follows(sized) /\ sized.oldWidth = Bordered(sized)
      /\ sized.mapped = w.mapped
  <2> DEFINE r == [w EXCEPT !.width = width,
                            !.organicWidth = IF ~w.inorganic /\ ~w.fullscreen /\ ~w.maximized
                                             THEN width ELSE @]
  <2>1. r \in Windows /\ r.mapped = w.mapped
    BY DEF Windows
  <2>2. sized = Layout(r)
    BY DEF CommitSize
  <2> QED
    BY <2>1, <2>2, LayoutType, CommitSizeType
<1>2. on \in Windows /\ Follows(on)
  BY <1>1, MapWindowType
<1>3. told \in Toplevels /\ reactivated \in Toplevels
  <2>1. told \in Toplevels
    BY RequestsType
  <2> HIDE DEF told
  <2> QED
    BY <2>1, RequestsType
<1>4. fullscreen \in BOOLEAN /\ maximized \in BOOLEAN
  BY DEF Toplevels, Configure
<1>5. full \in Windows /\ Follows(full) /\ full.fullscreen = fullscreen
  BY <1>2, <1>4, CommitFullscreenType
<1>6. max \in Windows /\ Follows(max) /\ max.maximized = maximized
  BY <1>2, <1>4, CommitMaximizedType
<1>7. w.mapped => on = sized
  OBVIOUS
<1>8. on.fullscreen \in BOOLEAN /\ on.maximized \in BOOLEAN /\ w.mapped \in BOOLEAN
  BY <1>2 DEF Windows
<1>9. sized.fullscreen = w.fullscreen /\ sized.maximized = w.maximized
  BY DEF CommitSize, Layout, Windows
<1>10. CASE fullscreen # on.fullscreen
  <2>1. /\ window' = full
        /\ toplevel' = IF fullscreen /\ ~HasOutput(full) THEN reactivated
                       ELSE RequestSize(reactivated, SizeFor(full, fullscreen, OutputWidth))
    BY <1>10 DEF HandleCommit
  <2>2. SizeFor(full, fullscreen, OutputWidth) \in Int
    BY <1>4, <1>5, SizeForType, XdgToplevelAssumption
  <2>3. toplevel' \in Toplevels
    BY <2>1, <2>2, <1>3, RequestsType
  <2>4. w.mapped => window'.fullscreen # w.fullscreen
    BY <2>1, <1>5, <1>7, <1>9, <1>10
  <2>5. Follows(window)'
    BY <2>1, <1>5 DEF Follows, Bordered
  <2> QED
    BY <2>1, <2>3, <2>4, <2>5, <1>5
<1>11. CASE fullscreen = on.fullscreen /\ maximized # on.maximized /\ on.mapped
  <2>1. /\ window' = max
        /\ toplevel' = RequestSize(told, SizeFor(max, maximized, MaximizedWidth - borders))
    BY <1>11 DEF HandleCommit
  <2>2. MaximizedWidth - borders \in Int
    BY <1>6, BorderedType, XdgToplevelAssumption DEF Windows
  <2>3. SizeFor(max, maximized, MaximizedWidth - borders) \in Int
    BY <1>4, <1>6, <2>2, SizeForType
  <2>4. toplevel' \in Toplevels
    BY <2>1, <2>3, <1>3, RequestsType
  <2>5. w.mapped => window'.maximized # w.maximized
    BY <2>1, <1>6, <1>7, <1>9, <1>11
  <2>6. Follows(window)'
    BY <2>1, <1>6 DEF Follows, Bordered
  <2> QED
    BY <2>1, <2>4, <2>5, <2>6, <1>6
<1>12. CASE fullscreen = on.fullscreen /\ ~(maximized # on.maximized /\ on.mapped)
  <2>1. window' = on /\ toplevel' = told
    BY <1>12 DEF HandleCommit
  <2>2. Follows(window)'
    BY <2>1, <1>2 DEF Follows, Bordered
  <2> QED
    BY <2>1, <2>2, <1>2, <1>3, <1>7
<1> QED
  BY <1>10, <1>11, <1>12

Typed == /\ window \in Windows /\ toplevel \in Toplevels
         /\ resize \in [active : BOOLEAN, edges : Edges \cup {NoEdge}, initialWidth : Int]
         /\ asked \in BOOLEAN

LEMMA TypeIs == (TypeOK <=> Typed) /\ (TypeOK' <=> Typed')
  BY DEF TypeOK, Typed, Windows, Toplevels

LEMMA InitInvariant == Init => IInv
<1> SUFFICES ASSUME Init PROVE IInv
  OBVIOUS
<1>1. window \in Windows /\ Follows(window)
  BY DEF Init, Windows, Follows
<1>2. Unset \in Configure /\ <<>> \in Seq(Configure)
  BY DEF Unset, Configure
<1>3. toplevel \in Toplevels
  BY <1>2 DEF Init, Toplevels
<1>4. resize \in [active : BOOLEAN, edges : Edges \cup {NoEdge}, initialWidth : Int]
  BY DEF Init
<1>5. asked \in BOOLEAN
  BY Zenon DEF Init
<1> QED
  BY <1>1, <1>3, <1>4, <1>5, TypeIs DEF IInv, Typed

LEMMA FullscreenRequestedStep ==
    ASSUME IInv, NEW fullscreen \in BOOLEAN, NEW preferred \in BOOLEAN,
           FullscreenRequested(fullscreen, preferred)
    PROVE  IInv'
<1> DEFINE w == [window EXCEPT !.inorganic = fullscreen, !.preferred = preferred]
           told == RequestFullscreen(toplevel, fullscreen /\ HasOutput(w))
<1>1. window \in Windows /\ toplevel \in Toplevels /\ Follows(window)
  BY TypeIs DEF IInv, Typed
<1>2. w \in Windows /\ Follows(w)
  BY <1>1 DEF Windows, Follows, Bordered
<1>3. HasOutput(w) \in BOOLEAN /\ (fullscreen /\ HasOutput(w)) \in BOOLEAN
  BY <1>2 DEF HasOutput, Windows
<1>4. told \in Toplevels
  BY <1>1, <1>3, RequestsType
<1>5. SizeFor(w, fullscreen, OutputWidth) \in Int
  BY <1>2, SizeForType, XdgToplevelAssumption
<1>6. /\ window' = w
      /\ toplevel' = IF HasOutput(w)
                     THEN RequestSize(told, SizeFor(w, fullscreen, OutputWidth)) ELSE told
      /\ asked' = (fullscreen /\ HasOutput(w)) /\ resize' = resize
  BY DEF FullscreenRequested
<1> HIDE DEF w, told
<1>7. toplevel' \in Toplevels
  BY <1>4, <1>5, <1>6, RequestsType
<1>8. window' \in Windows /\ Follows(window)'
  BY <1>2, <1>6 DEF Follows, Bordered
<1>9. asked' \in BOOLEAN /\ resize' \in [active : BOOLEAN, edges : Edges \cup {NoEdge},
                                         initialWidth : Int]
  BY <1>3, <1>6 DEF IInv, TypeOK
<1> QED
  BY <1>7, <1>8, <1>9, TypeIs DEF IInv, Typed

LEMMA RequestMaximizedStep ==
    ASSUME IInv, RequestMaximizedOrNot
    PROVE  IInv'
<1>1. window \in Windows /\ toplevel \in Toplevels /\ Follows(window)
  BY TypeIs DEF IInv, Typed
<1>2. PICK maximized \in BOOLEAN :
        LET refused == window.fullscreen \/ ~HasOutput(window)
            told == RequestMaximized(toplevel, maximized /\ ~refused)
            width == IF window.mapped THEN MaximizedWidth ELSE OutputWidth
        IN  /\ window' = IF refused THEN window ELSE [window EXCEPT !.inorganic = maximized]
            /\ toplevel' = IF refused THEN told
                           ELSE RequestSize(told, SizeFor(window, maximized, width - 2 * Border))
            /\ UNCHANGED <<resize, asked>>
  BY DEF RequestMaximizedOrNot
<1> DEFINE refused == window.fullscreen \/ ~HasOutput(window)
           told == RequestMaximized(toplevel, maximized /\ ~refused)
           width == (IF window.mapped THEN MaximizedWidth ELSE OutputWidth) - 2 * Border
<1>3. told \in Toplevels
  BY <1>1, RequestsType
<1>4. SizeFor(window, maximized, width) \in Int
  <2>1. width \in Int
    BY XdgToplevelAssumption
  <2> QED
    BY <2>1, <1>1, SizeForType
<1>5. /\ window' = IF refused THEN window ELSE [window EXCEPT !.inorganic = maximized]
      /\ toplevel' = IF refused THEN told ELSE RequestSize(told, SizeFor(window, maximized, width))
      /\ resize' = resize /\ asked' = asked
  BY <1>2
<1>6. window' \in Windows /\ Follows(window)'
  BY <1>1, <1>5 DEF Windows, Follows, Bordered
<1>7. toplevel' \in Toplevels
  <2> HIDE DEF told, width, refused
  <2> QED
    BY <1>3, <1>4, <1>5, RequestsType
<1> QED
  BY <1>5, <1>6, <1>7, TypeIs DEF IInv, Typed

LEMMA ResizeMotionStep ==
    ASSUME IInv, NEW rel \in Motions, ResizeMotion(rel)
    PROVE  IInv'
<1> DEFINE width == resize.initialWidth + (IF resize.edges = "left" THEN -rel ELSE rel)
           least == IF width < 1 THEN 1 ELSE width
           floating == IF window.maximized THEN RequestMaximized(toplevel, FALSE) ELSE toplevel
<1>1. Typed /\ Follows(window)
  BY TypeIs DEF IInv
<1>2. least \in Int
  BY <1>1, XdgToplevelAssumption DEF Typed
<1>3. floating \in Toplevels
  BY <1>1, RequestsType DEF Typed
<1>4. toplevel' = RequestSize(floating, least) /\ UNCHANGED <<window, resize, asked>>
  BY DEF ResizeMotion
<1> HIDE DEF least, floating
<1>5. toplevel' \in Toplevels
  BY <1>2, <1>3, <1>4, RequestsType
<1> QED
  BY <1>1, <1>4, <1>5, TypeIs DEF IInv, Typed, Follows, Bordered

LEMMA ResizingStep ==
    ASSUME IInv, Resizing
    PROVE  IInv'
<1>1. Typed /\ Follows(window)
  BY TypeIs DEF IInv
<1>2. ASSUME NEW edges \in Edges, BeginWindowResize(edges) PROVE IInv'
  <2>1. CASE resize.active
    BY <1>1, <1>2, <2>1, TypeIs DEF BeginWindowResize, IInv, Typed, Follows, Bordered
  <2>2. CASE ~resize.active
    <3>1. /\ window' = SetResizeEdges(window, edges) /\ toplevel' = toplevel /\ asked' = asked
          /\ resize' = [active |-> TRUE, edges |-> edges, initialWidth |-> window.width]
      BY <1>2, <2>2 DEF BeginWindowResize
    <3>2. window' \in Windows /\ Follows(window)'
      BY <1>1, <3>1, ResizeEdgesType DEF Typed, Follows, Bordered
    <3>3. window.width \in Int
      BY <1>1 DEF Typed, Windows
    <3> QED
      BY <1>1, <3>1, <3>2, <3>3, TypeIs DEF IInv, Typed
  <2> QED
    BY <2>1, <2>2
<1>3. ASSUME EndResize PROVE IInv'
  <2>1. /\ window' = SetResizeEdges(window, NoEdge) /\ toplevel' = toplevel /\ asked' = asked
        /\ resize' = [resize EXCEPT !.active = FALSE]
    BY <1>3 DEF EndResize
  <2>2. window' \in Windows /\ Follows(window)'
    BY <1>1, <2>1, ResizeEdgesType DEF Typed, Follows, Bordered
  <2> QED
    BY <1>1, <2>1, <2>2, TypeIs DEF IInv, Typed
<1> QED
  BY <1>2, <1>3 DEF Resizing

LEMMA SendConfigureStep ==
    ASSUME IInv, SendConfigure
    PROVE  IInv'
<1>1. Typed /\ Follows(window)
  BY TypeIs DEF IInv
<1>2. /\ toplevel' = [toplevel EXCEPT !.idle = FALSE,
                                     !.queue = Append(toplevel.queue, toplevel.scheduled)]
      /\ UNCHANGED <<window, resize, asked>>
  BY DEF SendConfigure
<1>3. Append(toplevel.queue, toplevel.scheduled) \in Seq(Configure)
  BY <1>1 DEF Typed, Toplevels
<1>4. toplevel' \in Toplevels
  BY <1>1, <1>2, <1>3 DEF Typed, Toplevels
<1> QED
  BY <1>1, <1>2, <1>4, TypeIs DEF IInv, Typed, Follows, Bordered

LEMMA InitialCommitStep ==
    ASSUME IInv, InitialCommit
    PROVE  IInv'
<1> DEFINE t == [toplevel EXCEPT !.initialized = TRUE]
<1>1. Typed /\ Follows(window)
  BY TypeIs DEF IInv
<1>2. t \in Toplevels /\ [t EXCEPT !.idle = TRUE] \in Toplevels
  BY <1>1 DEF Typed, Toplevels
<1>3. /\ toplevel' = IF t.properties # {} THEN FlushProperties(t) ELSE [t EXCEPT !.idle = TRUE]
      /\ window' = CommitSize(window, 0) /\ UNCHANGED <<resize, asked>>
  BY DEF InitialCommit
<1>4. toplevel' \in Toplevels
  BY <1>2, <1>3, FlushType
<1>5. window' \in Windows /\ Follows(window)'
  BY <1>1, <1>3, CommitSizeType DEF Typed, Follows, Bordered
<1> QED
  BY <1>1, <1>3, <1>4, <1>5, TypeIs DEF IInv, Typed

LEMMA ClientCommitStep ==
    ASSUME IInv, NEW k \in Nat, ClientCommit(k)
    PROVE  /\ IInv'
           /\ (/\ window.mapped /\ window'.fullscreen = window.fullscreen
               /\ window'.maximized = window.maximized)
              => \E width \in Int : window' = CommitSize(window, width)
<1> DEFINE t == Acknowledged(toplevel, k)
<1>1. Typed /\ Follows(window)
  BY TypeIs DEF IInv
<1>2. k <= Len(toplevel.queue) /\ UNCHANGED <<resize, asked>>
  BY DEF ClientCommit
<1>3. t \in Toplevels
  BY <1>1, <1>2, AcknowledgedType DEF Typed
<1>4. PICK width \in WidthsOf(t, window) : HandleCommit(t, window, width)
  BY DEF ClientCommit
<1>5. width \in Int
  BY <1>1, <1>3, WidthsType DEF Typed
<1>6. /\ window' \in Windows /\ toplevel' \in Toplevels /\ Follows(window)'
      /\ (/\ window.mapped /\ window'.fullscreen = window.fullscreen
          /\ window'.maximized = window.maximized)
         => window' = CommitSize(window, width)
  BY <1>1, <1>3, <1>4, <1>5, HandleCommitStep DEF Typed
<1>7. IInv'
  BY <1>1, <1>2, <1>6, TypeIs DEF IInv, Typed
<1> QED
  BY <1>5, <1>6, <1>7

-----------------------------------------------------------------------------
(* Every step keeps the invariant. *)
LEMMA NextInvariant == IInv /\ [Next]_vars => IInv'
<1> SUFFICES ASSUME IInv, [Next]_vars PROVE IInv'
  OBVIOUS
<1>1. CASE Request
  <2>1. CASE ClientRequestsFullscreen
    BY <2>1, FullscreenRequestedStep DEF ClientRequestsFullscreen
  <2>2. CASE UserRequestsFullscreen
    <3>1. window.preferred \in BOOLEAN
      BY TypeIs DEF IInv, Typed, Windows
    <3> QED
      BY <2>2, <3>1, FullscreenRequestedStep DEF UserRequestsFullscreen
  <2> QED
    BY <1>1, <2>1, <2>2, RequestMaximizedStep, ResizeMotionStep DEF Request
<1>2. CASE Resizing
  BY <1>2, ResizingStep
<1>3. CASE Configuring
  <2>1. CASE ClientCommit(0)
    BY <2>1, ClientCommitStep
  <2>2. CASE Answer
    <3>1. PICK k \in 1 .. MaxQueue : ClientCommit(k)
      BY <2>2 DEF Answer
    <3>2. k \in Nat
      BY XdgToplevelAssumption
    <3> QED
      BY <3>1, <3>2, ClientCommitStep
  <2> QED
    BY <1>3, <2>1, <2>2, SendConfigureStep, InitialCommitStep DEF Configuring
<1>4. CASE UNCHANGED vars
  BY <1>4, TypeIs DEF vars, IInv, Typed, Follows, Bordered
<1> QED
  BY <1>1, <1>2, <1>3, <1>4 DEF Next

(* Windows and toplevels keep the types of the code's structures, and a      *)
(* mapped window's remembered box is its own.                                *)
THEOREM Invariance == Spec => []IInv
<1>1. Init => IInv
  BY InitInvariant
<1>2. IInv /\ [Next]_vars => IInv'
  BY NextInvariant
<1> QED
  BY <1>1, <1>2, PTL DEF Spec

(* A commit that only changes the size keeps the right edge of a window that *)
(* is resized by its left edge.                                              *)
LEMMA CommitKeepsRightEdge ==
    ASSUME NEW w \in Windows, NEW width \in Int, w.oldWidth = Bordered(w), w.edges = "left"
    PROVE  RightEdge(CommitSize(w, width)) = RightEdge(w)
<1> DEFINE r == [w EXCEPT !.width = width,
                          !.organicWidth = IF ~w.inorganic /\ ~w.fullscreen /\ ~w.maximized
                                           THEN width ELSE @]
<1>1. /\ r \in Windows /\ r.edges = "left" /\ r.x = w.x /\ r.oldWidth = w.oldWidth
  BY DEF Windows
<1>2. CommitSize(w, width) = Layout(r)
  BY DEF CommitSize
<1>3. Layout(r) = [r EXCEPT !.x = r.x + r.oldWidth - Bordered(r), !.oldWidth = Bordered(r)]
  BY <1>1 DEF Layout
<1>4. /\ Layout(r).x = r.x + r.oldWidth - Bordered(r)
      /\ Layout(r).width = r.width /\ Layout(r).fullscreen = r.fullscreen
  BY <1>1, <1>3 DEF Windows
<1>5. Bordered(Layout(r)) = Bordered(r) /\ Bordered(r) \in Int /\ Bordered(w) \in Int
  BY <1>1, <1>4, BorderedType DEF Bordered
<1>6. w.x \in Int
  BY DEF Windows
<1> QED
  BY <1>1, <1>2, <1>4, <1>5, <1>6 DEF RightEdge

(* The edge the window is anchored on stays: for every output, border, and   *)
(* sequence of sizes the client may commit.                                  *)
THEOREM AnchoredEdge == Spec => AnchoredEdgeStays
<1> DEFINE Stays ==
      /\ window.mapped
      /\ window.edges = "left" /\ window'.edges = "left"
      /\ window'.fullscreen = window.fullscreen /\ window'.maximized = window.maximized
      => RightEdge(window') = RightEdge(window)
<1>1. IInv /\ [Next]_vars => [Stays]_vars
  <2> SUFFICES ASSUME IInv, [Next]_vars, window.mapped,
                      window.edges = "left", window'.edges = "left",
                      window'.fullscreen = window.fullscreen,
                      window'.maximized = window.maximized
               PROVE  RightEdge(window') = RightEdge(window)
    OBVIOUS
  <2>1. window \in Windows /\ window.oldWidth = Bordered(window)
    BY TypeIs DEF IInv, Typed, Follows
  <2>2. ASSUME NEW k \in Nat, ClientCommit(k) PROVE RightEdge(window') = RightEdge(window)
    BY <2>1, <2>2, ClientCommitStep, CommitKeepsRightEdge
  <2>3. CASE Request
    <3>1. window'.x = window.x /\ window'.width = window.width
      BY <2>1, <2>3 DEF Request, ClientRequestsFullscreen, UserRequestsFullscreen,
         FullscreenRequested, RequestMaximizedOrNot, ResizeMotion, Windows
    <3> QED
      BY <3>1 DEF RightEdge, Bordered
  <2>4. CASE Resizing
    <3>1. window'.x = window.x /\ window'.width = window.width
      BY <2>1, <2>4 DEF Resizing, BeginWindowResize, EndResize, SetResizeEdges, Windows
    <3> QED
      BY <3>1 DEF RightEdge, Bordered
  <2>5. CASE Configuring
    <3>1. CASE SendConfigure
      BY <3>1 DEF SendConfigure
    <3>2. CASE InitialCommit
      <4>1. window' = CommitSize(window, 0)
        BY <3>2 DEF InitialCommit
      <4> QED
        BY <4>1, <2>1, CommitKeepsRightEdge
    <3>3. CASE Answer
      <4>1. PICK k \in 1 .. MaxQueue : ClientCommit(k)
        BY <3>3 DEF Answer
      <4> QED
        BY <4>1, <2>2, XdgToplevelAssumption
    <3> QED
      BY <2>2, <2>5, <3>1, <3>2, <3>3 DEF Configuring
  <2>6. CASE UNCHANGED vars
    BY <2>6 DEF vars
  <2> QED
    BY <2>3, <2>4, <2>5, <2>6 DEF Next
<1> QED
  BY <1>1, Invariance, PTL DEF Spec, AnchoredEdgeStays

-----------------------------------------------------------------------------
(* Requests on their way: the parts of RequestsAreUnderway, of a toplevel.   *)
(* A request is pending only until it is flushed, which every operation on   *)
(* an initialized toplevel ends with.                                        *)
AtRest(t) == t.initialized => t.properties = {}

Asked(t) == IF "fullscreen" \in t.properties THEN t.pending.fullscreen
                                             ELSE t.scheduled.fullscreen

Sent(t) ==
    /\ t.idle \/ t.scheduled = Newest(t)
    /\ t.latest <= Len(t.queue) \/ (t.idle /\ t.latest = Len(t.queue) + 1)
    /\ t.latest > 0 =>
           \A i \in t.latest .. Len(t.queue) : t.queue[i].width = t.scheduled.width

LEMMA UnderwayIs ==
    /\ RequestsAreUnderway <=> AtRest(toplevel) /\ asked = Asked(toplevel) /\ Sent(toplevel)
    /\ RequestsAreUnderway' <=> AtRest(toplevel') /\ asked' = Asked(toplevel') /\ Sent(toplevel')
  BY DEF RequestsAreUnderway, AtRest, Asked, Sent

(* What was pending is scheduled, and nothing remains pending.               *)
LEMMA FlushUnderway ==
    ASSUME NEW t \in Toplevels, Sent(t)
    PROVE  LET f == FlushProperties(t) IN AtRest(f) /\ Sent(f) /\ Asked(f) = Asked(t)
<1> DEFINE p == t.properties
           Latest(prop, field) == IF prop \in p THEN t.pending[field] ELSE t.scheduled[field]
           next == [fullscreen |-> Latest("fullscreen", "fullscreen"),
                    maximized |-> Latest("maximized", "maximized"),
                    width |-> Latest("size", "width")]
           latest == IF "size" \in p THEN Len(t.queue) + 1 ELSE t.latest
           f == [t EXCEPT !.scheduled = next, !.latest = latest, !.idle = t.idle \/ p # {},
                          !.properties = {}, !.pending = Unset]
<1>1. CASE ~t.initialized
  BY <1>1 DEF FlushProperties, AtRest
<1>2. CASE t.initialized
  <2>1. FlushProperties(t) = f
    BY <1>2 DEF FlushProperties, Flushed
  <2>2. /\ f.properties = {} /\ f.scheduled = next /\ f.latest = latest
        /\ f.idle = (t.idle \/ p # {}) /\ f.queue = t.queue /\ f.current = t.current
    BY DEF Toplevels
  <2>3. /\ t.queue \in Seq(Configure) /\ Len(t.queue) \in Nat /\ t.latest \in Nat
        /\ t.scheduled \in Configure /\ t.idle \in BOOLEAN
    BY DEF Toplevels
  <2>4. next.fullscreen = Asked(t) /\ next.width = Latest("size", "width")
    BY DEF Asked
  <2>5. p = {} => next = t.scheduled
    BY <2>3 DEF Configure
  <2> HIDE DEF f, next
  <2>6. AtRest(f) /\ Asked(f) = Asked(t)
    BY <2>2, <2>4 DEF AtRest, Asked
  <2>7. f.idle \/ f.scheduled = Newest(f)
    BY <2>2, <2>5 DEF Sent, Newest
  <2>8. CASE "size" \in p
    <3>1. f.idle /\ f.latest = Len(f.queue) + 1
      BY <2>2, <2>8
    <3>2. f.latest .. Len(f.queue) = {}
      BY <2>2, <2>3, <3>1
    <3> QED BY <2>1, <2>6, <2>7, <3>1, <3>2 DEF Sent
  <2>9. CASE "size" \notin p
    <3>1. f.latest = t.latest /\ f.scheduled.width = t.scheduled.width
      BY <2>2, <2>4, <2>9
    <3>2. f.latest <= Len(f.queue) \/ (f.idle /\ f.latest = Len(f.queue) + 1)
      BY <2>2, <3>1 DEF Sent
    <3> QED BY <2>1, <2>2, <2>6, <2>7, <3>1, <3>2 DEF Sent
  <2> QED BY <2>8, <2>9
<1> QED BY <1>1, <1>2

(* The operations of the toplevel: only a request for fullscreen changes     *)
(* what is asked for.                                                        *)
LEMMA RequestsUnderway ==
    ASSUME NEW t \in Toplevels, AtRest(t), Sent(t)
    PROVE  /\ LET f == SetActivated(t) IN AtRest(f) /\ Sent(f) /\ Asked(f) = Asked(t)
           /\ \A width \in Int : LET f == RequestSize(t, width) IN
                  AtRest(f) /\ Sent(f) /\ Asked(f) = Asked(t)
           /\ \A b \in BOOLEAN : LET f == RequestMaximized(t, b) IN
                  AtRest(f) /\ Sent(f) /\ Asked(f) = Asked(t)
           /\ \A b \in BOOLEAN : LET f == RequestFullscreen(t, b) IN
                  AtRest(f) /\ Sent(f) /\ Asked(f) = b
<1>1. ASSUME NEW u \in Toplevels, u.idle = t.idle, u.scheduled = t.scheduled,
             u.queue = t.queue, u.latest = t.latest, u.current = t.current
      PROVE  LET f == FlushProperties(u) IN AtRest(f) /\ Sent(f) /\ Asked(f) = Asked(u)
  <2>1. Sent(u)
    BY <1>1 DEF Sent, Newest
  <2> QED BY <2>1, FlushUnderway
<1>2. LET f == SetActivated(t) IN AtRest(f) /\ Sent(f) /\ Asked(f) = Asked(t)
  <2> DEFINE u == [t EXCEPT !.properties = @ \cup {"activated"}]
  <2>1. /\ u \in Toplevels /\ u.idle = t.idle /\ u.scheduled = t.scheduled
        /\ u.queue = t.queue /\ u.latest = t.latest /\ u.current = t.current
        /\ Asked(u) = Asked(t)
    BY DEF Toplevels, Asked
  <2>2. SetActivated(t) = FlushProperties(u)
    BY DEF SetActivated
  <2> HIDE DEF u
  <2> QED BY <1>1, <2>1, <2>2
<1>3. ASSUME NEW width \in Int
      PROVE  LET f == RequestSize(t, width) IN AtRest(f) /\ Sent(f) /\ Asked(f) = Asked(t)
  <2> DEFINE u == [t EXCEPT !.properties = @ \cup {"size"}, !.pending.width = width]
  <2>1. /\ u \in Toplevels /\ u.idle = t.idle /\ u.scheduled = t.scheduled
        /\ u.queue = t.queue /\ u.latest = t.latest /\ u.current = t.current
        /\ Asked(u) = Asked(t)
    BY DEF Toplevels, Configure, Asked
  <2>2. RequestSize(t, width) = t \/ RequestSize(t, width) = FlushProperties(u)
    BY DEF RequestSize
  <2> HIDE DEF u
  <2> QED BY <1>1, <2>1, <2>2
<1>4. ASSUME NEW b \in BOOLEAN
      PROVE  LET f == RequestMaximized(t, b) IN AtRest(f) /\ Sent(f) /\ Asked(f) = Asked(t)
  <2> DEFINE u == [t EXCEPT !.properties = @ \cup {"maximized"}, !.pending.maximized = b]
  <2>1. /\ u \in Toplevels /\ u.idle = t.idle /\ u.scheduled = t.scheduled
        /\ u.queue = t.queue /\ u.latest = t.latest /\ u.current = t.current
        /\ Asked(u) = Asked(t)
    BY DEF Toplevels, Configure, Asked
  <2>2. RequestMaximized(t, b) = FlushProperties(u)
    BY DEF RequestMaximized
  <2> HIDE DEF u
  <2> QED BY <1>1, <2>1, <2>2
<1>5. ASSUME NEW b \in BOOLEAN
      PROVE  LET f == RequestFullscreen(t, b) IN AtRest(f) /\ Sent(f) /\ Asked(f) = b
  <2> DEFINE u == [t EXCEPT !.properties = @ \cup {"fullscreen"},
                            !.pending.fullscreen = b, !.pending.maximized = @ /\ ~b]
  <2>1. /\ u \in Toplevels /\ u.idle = t.idle /\ u.scheduled = t.scheduled
        /\ u.queue = t.queue /\ u.latest = t.latest /\ u.current = t.current
        /\ "fullscreen" \in u.properties /\ u.pending.fullscreen = b
    BY DEF Toplevels, Configure
  <2>2. RequestFullscreen(t, b) = FlushProperties(u)
    BY DEF RequestFullscreen
  <2> HIDE DEF u
  <2>3. Asked(u) = b
    BY <2>1 DEF Asked
  <2> QED BY <1>1, <2>1, <2>2, <2>3
<1> QED BY <1>2, <1>3, <1>4, <1>5

(* Acknowledging k configure events leaves those after it.                   *)
LEMMA AcknowledgedUnderway ==
    ASSUME NEW t \in Toplevels, AtRest(t), Sent(t), NEW k \in Nat, k <= Len(t.queue)
    PROVE  LET a == Acknowledged(t, k) IN AtRest(a) /\ Sent(a) /\ Asked(a) = Asked(t)
<1>1. CASE k = 0
  BY <1>1 DEF Acknowledged
<1>2. CASE k # 0
  <2> DEFINE q == SubSeq(t.queue, k + 1, Len(t.queue))
             latest == IF t.latest > k THEN t.latest - k ELSE 0
             a == [t EXCEPT !.current = t.queue[k], !.configured = TRUE,
                            !.queue = q, !.latest = latest]
  <2>1. Acknowledged(t, k) = a
    BY <1>2 DEF Acknowledged
  <2>2. /\ a.initialized = t.initialized /\ a.properties = t.properties
        /\ a.pending = t.pending /\ a.scheduled = t.scheduled /\ a.idle = t.idle
        /\ a.current = t.queue[k] /\ a.queue = q /\ a.latest = latest
    BY DEF Toplevels
  <2>3. t.queue \in Seq(Configure) /\ Len(t.queue) \in Nat /\ t.latest \in Nat
    BY DEF Toplevels
  <2>4. /\ Len(q) = Len(t.queue) - k
        /\ \A i \in 1 .. Len(q) : q[i] = t.queue[i + k]
    BY <1>2, <2>3
  <2>5. AtRest(a) /\ Asked(a) = Asked(t)
    BY <2>2 DEF AtRest, Asked
  <2> HIDE DEF a, q
  <2>6. Newest(a) = Newest(t)
    <3>1. CASE k = Len(t.queue)
      <4>1. Len(q) = 0
        BY <2>3, <2>4, <3>1
      <4>2. q = <<>> /\ t.queue # <<>>
        BY <1>2, <2>3, <3>1, <4>1 DEF q
      <4> QED BY <2>2, <3>1, <4>2 DEF Newest
    <3>2. CASE k # Len(t.queue)
      <4>1. Len(q) \in 1 .. Len(q) /\ Len(q) + k = Len(t.queue)
        BY <2>3, <2>4, <3>2
      <4>2. q # <<>> /\ t.queue # <<>>
        BY <2>3, <4>1
      <4> QED BY <2>2, <2>4, <4>1, <4>2 DEF Newest
    <3> QED BY <3>1, <3>2
  <2>7. a.idle \/ a.scheduled = Newest(a)
    BY <2>2, <2>6 DEF Sent
  <2>8. a.latest <= Len(a.queue) \/ (a.idle /\ a.latest = Len(a.queue) + 1)
    <3>1. t.latest <= Len(t.queue) \/ (t.idle /\ t.latest = Len(t.queue) + 1)
      BY DEF Sent
    <3>2. Len(a.queue) = Len(t.queue) - k /\ Len(a.queue) \in Nat
      BY <2>2, <2>3, <2>4
    <3>3. CASE t.latest > k
      BY <2>2, <2>3, <3>1, <3>2, <3>3
    <3>4. CASE ~ (t.latest > k)
      BY <2>2, <3>2, <3>4
    <3> QED BY <3>3, <3>4
  <2>9. ASSUME a.latest > 0, NEW i \in a.latest .. Len(a.queue)
        PROVE  a.queue[i].width = a.scheduled.width
    <3>1. t.latest > k /\ i \in 1 .. Len(q) /\ i + k \in t.latest .. Len(t.queue)
      BY <2>2, <2>3, <2>4, <2>9
    <3>2. t.queue[i + k].width = t.scheduled.width
      BY <2>3, <3>1 DEF Sent
    <3> QED BY <2>2, <2>4, <3>1, <3>2
  <2> QED BY <2>1, <2>5, <2>7, <2>8, <2>9 DEF Sent
<1> QED BY <1>1, <1>2

(* What the handler of commits asks for is the window's own doing.           *)
LEMMA HandleCommitUnderway ==
    ASSUME NEW t \in Toplevels, AtRest(t), Sent(t), NEW w \in Windows, Follows(w),
           NEW width \in Int, HandleCommit(t, w, width)
    PROVE  AtRest(toplevel') /\ Sent(toplevel') /\ Asked(toplevel') = Asked(t)
<1> DEFINE sized == CommitSize(w, width)
           maps == width > 0 /\ ~w.mapped
           on == IF maps THEN MapWindow(sized) ELSE sized
           told == IF maps THEN SetActivated(t) ELSE t
           fullscreen == t.current.fullscreen
           maximized == t.current.maximized
           full == CommitFullscreen(on, fullscreen)
           max == CommitMaximized(on, maximized)
           reactivated == IF on.mapped THEN SetActivated(told) ELSE told
           Goes(u) == u \in Toplevels /\ AtRest(u) /\ Sent(u) /\ Asked(u) = Asked(t)
<1>1. Goes(told)
  BY RequestsType, RequestsUnderway
<1>2. Goes(reactivated)
  <2> HIDE DEF told, on
  <2> QED BY <1>1, RequestsType, RequestsUnderway
<1>3. ASSUME NEW u, Goes(u), NEW size \in Int PROVE Goes(RequestSize(u, size))
  BY <1>3, RequestsType, RequestsUnderway
<1>4. fullscreen \in BOOLEAN /\ maximized \in BOOLEAN
  BY DEF Toplevels, Configure
<1>5. on \in Windows /\ Follows(on)
  <2>1. sized \in Windows /\ Follows(sized) /\ sized.oldWidth = Bordered(sized)
    BY CommitSizeType
  <2> HIDE DEF sized
  <2> QED BY <2>1, MapWindowType
<1>6. full \in Windows /\ max \in Windows
  <2> HIDE DEF on, fullscreen, maximized
  <2> QED BY <1>4, <1>5, CommitFullscreenType, CommitMaximizedType
<1>7. /\ SizeFor(full, fullscreen, OutputWidth) \in Int
      /\ SizeFor(max, maximized, MaximizedWidth - (Bordered(max) - max.width)) \in Int
  <2>1. OutputWidth \in Int /\ MaximizedWidth \in Int
    BY XdgToplevelAssumption
  <2> HIDE DEF full, max, fullscreen, maximized
  <2>2. Bordered(max) \in Int /\ max.width \in Int
    BY <1>6, BorderedType DEF Windows
  <2>3. MaximizedWidth - (Bordered(max) - max.width) \in Int
    BY <2>1, <2>2
  <2> QED BY <1>4, <1>6, <2>1, <2>3, SizeForType
<1>8. \/ toplevel' \in {told, reactivated}
      \/ toplevel' = RequestSize(reactivated, SizeFor(full, fullscreen, OutputWidth))
      \/ toplevel' = RequestSize(told, SizeFor(max, maximized,
                         MaximizedWidth - (Bordered(max) - max.width)))
  BY DEF HandleCommit
<1> HIDE DEF told, reactivated, full, max, fullscreen, maximized
<1>9. Goes(toplevel')
  <2> HIDE DEF Goes
  <2> QED BY <1>1, <1>2, <1>3, <1>7, <1>8
<1> QED BY <1>9

(* Every step keeps requests underway.                                       *)
UInv == IInv /\ RequestsAreUnderway

LEMMA UnderwayParts ==
    ASSUME UInv
    PROVE  /\ window \in Windows /\ Follows(window) /\ toplevel \in Toplevels
           /\ AtRest(toplevel) /\ Sent(toplevel) /\ asked = Asked(toplevel)
  BY TypeIs, UnderwayIs DEF UInv, IInv, Typed

LEMMA FullscreenRequestedUnderway ==
    ASSUME UInv, NEW fullscreen \in BOOLEAN, NEW preferred \in BOOLEAN,
           FullscreenRequested(fullscreen, preferred)
    PROVE  RequestsAreUnderway'
<1> DEFINE w == [window EXCEPT !.inorganic = fullscreen, !.preferred = preferred]
           b == fullscreen /\ HasOutput(w)
           told == RequestFullscreen(toplevel, b)
           size == SizeFor(w, fullscreen, OutputWidth)
<1>1. w \in Windows
  BY UnderwayParts DEF Windows
<1>2. b \in BOOLEAN
  BY <1>1 DEF HasOutput, Windows
<1>3. size \in Int
  BY <1>1, SizeForType, XdgToplevelAssumption
<1>4. /\ toplevel' = IF HasOutput(w) THEN RequestSize(told, size) ELSE told
      /\ asked' = b
  BY DEF FullscreenRequested
<1> HIDE DEF w, size, b
<1>5. told \in Toplevels /\ AtRest(told) /\ Sent(told) /\ Asked(told) = b
  BY <1>2, UnderwayParts, RequestsType, RequestsUnderway
<1> HIDE DEF told
<1>6. AtRest(toplevel') /\ Sent(toplevel') /\ Asked(toplevel') = b
  BY <1>3, <1>4, <1>5, RequestsUnderway
<1> QED
  BY <1>4, <1>6, UnderwayIs

LEMMA OtherRequestUnderway ==
    ASSUME UInv, RequestMaximizedOrNot \/ \E rel \in Motions : ResizeMotion(rel)
    PROVE  RequestsAreUnderway'
<1> DEFINE Goes(u) == u \in Toplevels /\ AtRest(u) /\ Sent(u) /\ Asked(u) = Asked(toplevel)
<1>1. Goes(toplevel)
  BY UnderwayParts
<1>2. ASSUME NEW u, Goes(u), NEW size \in Int PROVE Goes(RequestSize(u, size))
  BY <1>2, RequestsType, RequestsUnderway
<1>3. ASSUME NEW u, Goes(u), NEW b \in BOOLEAN PROVE Goes(RequestMaximized(u, b))
  BY <1>3, RequestsType, RequestsUnderway
<1> HIDE DEF Goes
<1>4. CASE RequestMaximizedOrNot
  <2>1. PICK maximized \in BOOLEAN :
          LET refused == window.fullscreen \/ ~HasOutput(window)
              told == RequestMaximized(toplevel, maximized /\ ~refused)
              width == IF window.mapped THEN MaximizedWidth ELSE OutputWidth
          IN  /\ toplevel' = IF refused THEN told
                             ELSE RequestSize(told, SizeFor(window, maximized,
                                                            width - 2 * Border))
              /\ UNCHANGED <<resize, asked>>
    BY <1>4 DEF RequestMaximizedOrNot
  <2> DEFINE refused == window.fullscreen \/ ~HasOutput(window)
             told == RequestMaximized(toplevel, maximized /\ ~refused)
             width == (IF window.mapped THEN MaximizedWidth ELSE OutputWidth) - 2 * Border
             size == SizeFor(window, maximized, width)
  <2>2. toplevel' = (IF refused THEN told ELSE RequestSize(told, size)) /\ asked' = asked
    BY <2>1
  <2>3. size \in Int
    <3>1. width \in Int
      BY XdgToplevelAssumption
    <3> HIDE DEF width
    <3> QED BY <3>1, UnderwayParts, SizeForType
  <2>4. Goes(told)
    BY <1>1, <1>3
  <2> HIDE DEF refused, told, size
  <2>5. Goes(toplevel')
    BY <1>2, <2>2, <2>3, <2>4
  <2> QED
    BY <2>2, <2>5, UnderwayParts, UnderwayIs DEF Goes
<1>5. ASSUME NEW rel \in Motions, ResizeMotion(rel) PROVE RequestsAreUnderway'
  <2> DEFINE width == resize.initialWidth + (IF resize.edges = "left" THEN -rel ELSE rel)
             least == IF width < 1 THEN 1 ELSE width
             floating == IF window.maximized THEN RequestMaximized(toplevel, FALSE)
                                             ELSE toplevel
  <2>1. toplevel' = RequestSize(floating, least) /\ asked' = asked
    BY <1>5 DEF ResizeMotion
  <2>2. least \in Int
    BY XdgToplevelAssumption, TypeIs DEF UInv, IInv, Typed
  <2>3. Goes(floating)
    BY <1>1, <1>3
  <2> HIDE DEF floating, least
  <2>4. Goes(toplevel')
    BY <1>2, <2>1, <2>2, <2>3
  <2> QED
    BY <2>1, <2>4, UnderwayParts, UnderwayIs DEF Goes
<1> QED
  BY <1>4, <1>5

(* What is scheduled is appended as the newest event.                        *)
LEMMA SendConfigureUnderway ==
    ASSUME UInv, SendConfigure
    PROVE  RequestsAreUnderway'
<1> DEFINE t == toplevel
           q == Append(t.queue, t.scheduled)
<1>1. /\ t \in Toplevels /\ AtRest(t) /\ Sent(t) /\ asked = Asked(t)
  BY UnderwayParts
<1>2. /\ toplevel' = [t EXCEPT !.idle = FALSE, !.queue = q] /\ t.idle
      /\ UNCHANGED asked
  BY DEF SendConfigure
<1>3. /\ toplevel'.initialized = t.initialized /\ toplevel'.properties = t.properties
      /\ toplevel'.pending = t.pending /\ toplevel'.scheduled = t.scheduled
      /\ toplevel'.latest = t.latest /\ toplevel'.queue = q /\ ~toplevel'.idle
  BY <1>1, <1>2 DEF Toplevels
<1>4. /\ t.queue \in Seq(Configure) /\ t.scheduled \in Configure
      /\ t.latest \in Nat /\ Len(t.queue) \in Nat
  BY <1>1 DEF Toplevels
<1>5. /\ Len(q) = Len(t.queue) + 1 /\ q # <<>> /\ q[Len(q)] = t.scheduled
      /\ \A i \in 1 .. Len(t.queue) : q[i] = t.queue[i]
  BY <1>4
<1> HIDE DEF t, q
<1>6. AtRest(toplevel') /\ asked' = Asked(toplevel')
  BY <1>1, <1>2, <1>3 DEF AtRest, Asked
<1>7. toplevel'.scheduled = Newest(toplevel')
  BY <1>3, <1>5 DEF Newest
<1>8. toplevel'.latest <= Len(toplevel'.queue)
  BY <1>1, <1>3, <1>4, <1>5 DEF Sent
<1>9. ASSUME toplevel'.latest > 0,
             NEW i \in toplevel'.latest .. Len(toplevel'.queue)
      PROVE  toplevel'.queue[i].width = toplevel'.scheduled.width
  <2>1. CASE i = Len(q)
    BY <1>3, <1>5, <2>1
  <2>2. CASE i # Len(q)
    <3>1. i \in t.latest .. Len(t.queue) /\ i \in 1 .. Len(t.queue) /\ t.latest > 0
      BY <1>3, <1>4, <1>5, <1>9, <2>2
    <3> QED BY <1>1, <1>3, <1>5, <3>1 DEF Sent
  <2> QED BY <2>1, <2>2
<1>10. Sent(toplevel')
  BY <1>7, <1>8, <1>9 DEF Sent
<1> QED
  BY <1>6, <1>10, UnderwayIs

LEMMA InitialCommitUnderway ==
    ASSUME UInv, InitialCommit
    PROVE  RequestsAreUnderway'
<1> DEFINE t == [toplevel EXCEPT !.initialized = TRUE]
           u == [t EXCEPT !.idle = TRUE]
<1>1. /\ toplevel \in Toplevels /\ Sent(toplevel) /\ asked = Asked(toplevel)
  BY UnderwayParts
<1>2. /\ t \in Toplevels /\ Sent(t) /\ Asked(t) = Asked(toplevel)
  <2>1. t \in Toplevels
    BY <1>1 DEF Toplevels
  <2>2. /\ t.idle = toplevel.idle /\ t.scheduled = toplevel.scheduled
        /\ t.queue = toplevel.queue /\ t.current = toplevel.current
        /\ t.latest = toplevel.latest /\ t.properties = toplevel.properties
        /\ t.pending = toplevel.pending
    BY <1>1 DEF Toplevels
  <2> QED BY <1>1, <2>1, <2>2 DEF Sent, Newest, Asked
<1>3. /\ toplevel' = IF t.properties # {} THEN FlushProperties(t) ELSE u
      /\ asked' = asked
  BY DEF InitialCommit
<1> HIDE DEF t
<1>4. CASE t.properties # {}
  BY <1>1, <1>2, <1>3, <1>4, FlushUnderway, UnderwayIs
<1>5. CASE t.properties = {}
  <2>1. /\ u.idle /\ u.scheduled = t.scheduled /\ u.queue = t.queue
        /\ u.current = t.current /\ u.latest = t.latest
        /\ u.properties = t.properties /\ u.pending = t.pending
    BY <1>2 DEF Toplevels
  <2>2. AtRest(u) /\ Sent(u) /\ Asked(u) = Asked(t)
    BY <1>2, <1>5, <2>1 DEF AtRest, Sent, Asked
  <2> HIDE DEF u
  <2> QED BY <1>1, <1>2, <1>3, <1>5, <2>2, UnderwayIs
<1> QED
  BY <1>4, <1>5

LEMMA ClientCommitUnderway ==
    ASSUME UInv, NEW k \in Nat, ClientCommit(k)
    PROVE  RequestsAreUnderway'
<1> DEFINE t == Acknowledged(toplevel, k)
<1>1. k <= Len(toplevel.queue) /\ UNCHANGED asked
  BY DEF ClientCommit
<1>2. t \in Toplevels /\ AtRest(t) /\ Sent(t) /\ Asked(t) = Asked(toplevel)
  BY <1>1, UnderwayParts, AcknowledgedType, AcknowledgedUnderway
<1>3. PICK width \in WidthsOf(t, window) : HandleCommit(t, window, width)
  BY DEF ClientCommit
<1>4. width \in Int
  BY <1>2, UnderwayParts, WidthsType
<1> HIDE DEF t
<1>5. AtRest(toplevel') /\ Sent(toplevel') /\ Asked(toplevel') = Asked(t)
  BY <1>2, <1>3, <1>4, UnderwayParts, HandleCommitUnderway
<1> QED
  BY <1>1, <1>2, <1>5, UnderwayParts, UnderwayIs

LEMMA NextUnderway == UInv /\ [Next]_vars => UInv'
<1> SUFFICES ASSUME UInv, [Next]_vars PROVE RequestsAreUnderway'
  BY NextInvariant DEF UInv
<1>1. CASE Request
  <2>1. window.preferred \in BOOLEAN
    BY UnderwayParts DEF Windows
  <2>2. CASE ClientRequestsFullscreen
    BY <2>2, FullscreenRequestedUnderway DEF ClientRequestsFullscreen
  <2>3. CASE UserRequestsFullscreen
    BY <2>1, <2>3, FullscreenRequestedUnderway DEF UserRequestsFullscreen
  <2> QED
    BY <1>1, <2>2, <2>3, OtherRequestUnderway DEF Request
<1>2. CASE Resizing
  <2>1. UNCHANGED <<toplevel, asked>>
    BY <1>2 DEF Resizing, BeginWindowResize, EndResize
  <2> QED
    BY <2>1, UnderwayParts, UnderwayIs
<1>3. CASE Configuring
  <2>1. ASSUME Answer PROVE RequestsAreUnderway'
    <3>1. PICK k \in 1 .. MaxQueue : ClientCommit(k)
      BY <2>1 DEF Answer
    <3> QED BY <3>1, ClientCommitUnderway, XdgToplevelAssumption
  <2>2. ASSUME ClientCommit(0) PROVE RequestsAreUnderway'
    BY <2>2, ClientCommitUnderway
  <2> QED
    BY <1>3, <2>1, <2>2, SendConfigureUnderway, InitialCommitUnderway DEF Configuring
<1>4. CASE UNCHANGED vars
  BY <1>4, UnderwayParts, UnderwayIs DEF vars
<1> QED
  BY <1>1, <1>2, <1>3, <1>4 DEF Next

(* However late and in whatever batches the client answers, the state asked  *)
(* for last is pending, scheduled or in the newest configure event, and a    *)
(* size is held back only while one sent is still to be acknowledged.        *)
THEOREM NoRequestIsLost == Spec => []RequestsAreUnderway
<1>1. Init => UInv
  <2> SUFFICES ASSUME Init PROVE RequestsAreUnderway
    BY InitInvariant DEF UInv
  <2>1. /\ ~toplevel.initialized /\ toplevel.properties = {} /\ toplevel.latest = 0
        /\ toplevel.scheduled = Unset /\ toplevel.current = Unset
        /\ toplevel.queue = <<>> /\ asked = FALSE
    BY DEF Init
  <2>2. AtRest(toplevel) /\ Sent(toplevel)
    BY <2>1 DEF AtRest, Sent, Newest
  <2>3. Asked(toplevel) = FALSE
    BY <2>1 DEF Asked, Unset
  <2> QED
    BY <2>1, <2>2, <2>3, UnderwayIs
<1>2. UInv /\ [Next]_vars => UInv'
  BY NextUnderway
<1>3. UInv => RequestsAreUnderway
  BY DEF UInv
<1> QED
  BY <1>1, <1>2, <1>3, PTL DEF Spec
=============================================================================
