--------------------------- MODULE OutputsProofs ---------------------------
(***************************************************************************)
(* The theorems about the outputs with their panels, the clip and the      *)
(* dock, for any outputs, panels, docks, workspaces, layers and heads.     *)
(*                                                                         *)
(* The inductive invariant IInv holds the state that handlers map to each  *)
(* other: Good, that panels and the lists they are in agree and panels are *)
(* placed; Tracked, that the layers know the extents of the outputs in the *)
(* layout; DocksAt, where clip and dock are; and Remembered, of each       *)
(* output.  First comes what the operations on panels keep, then those of  *)
(* clip and dock, the layout, the heads of configurations, and the steps.  *)
(***************************************************************************)
EXTENDS Outputs, ListsProofs, FiniteSetTheorems

-----------------------------------------------------------------------------
(* Where panels are placed.                                                *)

\* Half of a length, as C divides.
LEMMA HalfType ==
    ASSUME NEW n \in Int
    PROVE  Half(n) \in Int
  BY DEF Half

\* A panel gets a place, whatever is left of the output (wlmtk_panel_compute_dimensions).
LEMMA DimensionsType ==
    ASSUME NEW pos \in Positionings, NEW full \in Places, NEW usable \in Places
    PROVE  Dimensions(pos, full, usable) \in Places
  <1> DEFINE area == IF pos.zone < 0 THEN full ELSE usable
  <1>1. /\ area \in Places /\ pos.width \in Int
        /\ pos.margin.left \in Int /\ pos.margin.right \in Int
    BY DEF Places, Positionings
  <1>2. /\ area.x \in Int /\ area.width \in Int
        /\ Half(area.width) \in Int /\ Half(pos.width) \in Int
    BY <1>1, HalfType DEF Places
  <1> HIDE DEF area
  <1>3. /\ area.x + pos.margin.left \in Int
        /\ area.x + area.width - pos.margin.right - pos.width \in Int
        /\ area.x + Half(area.width) - Half(pos.width) \in Int
        /\ area.width - pos.margin.left - pos.margin.right \in Int
    BY <1>1, <1>2
  <1> DEFINE x == CASE pos.anchor = {"left"} -> area.x + pos.margin.left
                    [] pos.anchor = {"right"} ->
                           area.x + area.width - pos.margin.right - pos.width
                    [] OTHER -> area.x + Half(area.width) - Half(pos.width)
  <1>4. x \in Int
    BY <1>3
  <1>5. Dimensions(pos, full, usable) =
            IF pos.width = 0
            THEN [x |-> area.x + pos.margin.left,
                  width |-> area.width - pos.margin.left - pos.margin.right]
            ELSE [x |-> x, width |-> pos.width]
    BY DEF Dimensions, area
  <1> HIDE DEF x
  <1> QED BY <1>1, <1>3, <1>4, <1>5 DEF Places

\* What a panel leaves of the usable area is a place, possibly an empty one.
LEMMA UsableAreaType ==
    ASSUME NEW pos \in Positionings, NEW usable \in Places
    PROVE  UsableArea(pos, usable) \in Places
  <1>1. /\ usable.x \in Int /\ usable.width \in Int /\ pos.zone \in Int
        /\ pos.margin.left \in Int /\ pos.margin.right \in Int
    BY DEF Places, Positionings
  <1>2. usable = [x |-> usable.x, width |-> usable.width]
    BY DEF Places
  <1>3. /\ usable.x + pos.zone + pos.margin.left \in Int
        /\ usable.width - pos.zone - pos.margin.left \in Int
        /\ usable.width - pos.zone - pos.margin.right \in Int
    BY <1>1
  <1> QED BY <1>1, <1>2, <1>3 DEF UsableArea, Places

\* Every panel of a list leaves a usable area for those that follow.
LEMMA UsableType ==
    ASSUME NEW ps \in Seq(Positionings), NEW visible, NEW full \in Places
    PROVE  \A n \in 0..Len(ps) : Usable(ps, visible, full)[n] \in Places
  <1> DEFINE S == [i \in 0..Len(ps) |-> Places]
             Left(i, s) == IF visible[i] THEN UsableArea(ps[i], s) ELSE s
             step == [i \in 1..Len(ps) |-> [s \in Places |-> Left(i, s)]]
             Is(u) == u = [n \in 0..Len(ps) |->
                               CASE n = 0 -> full
                                 [] n # 0 /\ visible[n] -> UsableArea(ps[n], u[n - 1])
                                 [] OTHER -> u[n - 1]]
  <1>1. ASSUME NEW i \in 1..Len(ps), NEW s \in Places PROVE Left(i, s) \in Places
    <2>1. ps[i] \in Positionings
      OBVIOUS
    <2> QED BY <2>1, UsableAreaType
  <1>2. Advances(Len(ps), S, full, step)
    BY <1>1 DEF Advances
  <1>3. PICK f : Walks(f, Len(ps), S, full, step)
    <2> HIDE DEF S, step
    <2> QED BY <1>2, Iteration
  <1>4. Is(f)
    <2>1. f = [n \in 0..Len(ps) |-> f[n]] /\ f[0] = full
      BY <1>3 DEF Walks
    <2>2. ASSUME NEW n \in 0..Len(ps), n # 0
          PROVE  f[n] = IF visible[n] THEN UsableArea(ps[n], f[n - 1]) ELSE f[n - 1]
      <3>1. n \in 1..Len(ps) /\ n - 1 \in 0..Len(ps)
        BY <2>2
      <3>2. f[n - 1] \in Places /\ f[n] = step[n][f[n - 1]]
        BY <1>3, <3>1 DEF Walks
      <3> QED BY <3>1, <3>2
    <2> QED BY <2>1, <2>2
  <1> DEFINE u == Usable(ps, visible, full)
  <1>5. Is(u)
    <2>1. u = CHOOSE v : Is(v)
      BY DEF Usable
    <2> HIDE DEF Is, u
    <2> QED BY <2>1, <1>4
  <1> HIDE DEF u
  <1>6. u[0] = full /\ \A i \in 1..Len(ps) : u[i - 1] \in S[i - 1] => u[i] = step[i][u[i - 1]]
    BY <1>5
  <1>7. \A n \in 0..Len(ps) : u[n] \in S[n]
    <2> HIDE DEF S, step
    <2> QED BY <1>2, <1>6, FoldInvariance
  <1> QED BY <1>7 DEF u

\* Every panel of a list gets a place (wlmtk_layer_output_reconfigure).
LEMMA BoxesType ==
    ASSUME NEW of, NEW list \in Seq(Panel), NEW full \in Places, NEW seen,
           \A i \in DOMAIN list : of[list[i]] \in PanelStates
    PROVE  Boxes(of, list, full, seen) \in [DOMAIN list -> Places]
  <1> DEFINE ps == [i \in DOMAIN list |-> of[list[i]].positioning]
             visible == [i \in DOMAIN list |-> list[i] \in seen]
             usable == Usable(ps, visible, full)
  <1>1. ps \in Seq(Positionings) /\ Len(ps) = Len(list) /\ DOMAIN list = 1..Len(list)
    <2>1. \A i \in DOMAIN list : ps[i] \in Positionings
      BY DEF PanelStates
    <2> QED BY <2>1
  <1>2. Boxes(of, list, full, seen) =
            [i \in DOMAIN list |-> Dimensions(ps[i], full, usable[i - 1])]
    BY DEF Boxes
  <1> HIDE DEF ps, visible
  <1>3. \A n \in 0..Len(ps) : usable[n] \in Places
    BY <1>1, UsableType
  <1> HIDE DEF usable
  <1>4. ASSUME NEW i \in DOMAIN list
        PROVE  Dimensions(ps[i], full, usable[i - 1]) \in Places
    <2>1. ps[i] \in Positionings /\ i - 1 \in 0..Len(ps)
      BY <1>1
    <2> QED BY <2>1, <1>3, DimensionsType
  <1> QED BY <1>2, <1>4

-----------------------------------------------------------------------------
(* The states that operators are given, and the panels in them.            *)

Extents == [x : Int, width : Nat]

StateType ==
    [wlr_output : [Output -> OutputStates \cup {NULL}],
     ephemeral : [Output -> Attributes \cup {NULL}],
     layout : Seq(Entries),
     extents : [Output -> Extents \cup {NULL}],
     panels : [LayerOutput -> Seq(Panel)],
     panel : [Panel -> PanelStates \cup {NULL}],
     failed : BOOLEAN]

\* The panels in the lists know that they are there.
ListsAgree(s) ==
    \A lo \in LayerOutput :
        /\ Unique(s.panels[lo])
        /\ \A p \in Members(s.panels[lo]) :
               s.panel[p] # NULL /\ s.panel[p].layer_output = lo

\* A panel that knows a layer output is there.
PanelAgrees(s, p) ==
    LET lo == s.panel[p].layer_output IN
    lo # NULL => /\ p \in Members(s.panels[lo])
                 /\ lo.output = s.panel[p].output
                 /\ s.extents[lo.output] # NULL

HasPlace(s, p) == s.panel[p].box = NULL <=> s.panel[p].layer_output = NULL

\* The panels of the list are where they are to be, with some seen as visible.
ListPlaced(s, lo) ==
    s.panels[lo] # <<>> => \E seen \in SUBSET Members(s.panels[lo]) :
        [i \in DOMAIN s.panels[lo] |-> s.panel[s.panels[lo][i]].box]
            = Boxes(s.panel, s.panels[lo], s.extents[lo.output], seen)

Good(s) ==
    /\ s \in StateType
    /\ ListsAgree(s)
    /\ \A p \in Panel : s.panel[p] # NULL => PanelAgrees(s, p) /\ HasPlace(s, p)
    /\ \A lo \in LayerOutput : ListPlaced(s, lo)

SameOutputs(s, r) ==
    r.wlr_output = s.wlr_output /\ r.ephemeral = s.ephemeral /\ r.layout = s.layout

\* What is known of a panel, other than its box.
SamePanel(a, b) ==
    /\ a.output = b.output
    /\ a.layer_output = b.layer_output
    /\ a.visible = b.visible
    /\ a.positioning = b.positioning

\* Nothing but boxes of panels is different.
BoxesOnly(s, r) ==
    /\ SameOutputs(s, r)
    /\ r.extents = s.extents /\ r.panels = s.panels /\ r.failed = s.failed
    /\ \A p \in Panel :
           /\ s.panel[p] = NULL <=> r.panel[p] = NULL
           /\ s.panel[p] # NULL => SamePanel(r.panel[p], s.panel[p])

\* The boxes of panels that are placed.
BoxesOf(s, lo) == Boxes(s.panel, s.panels[lo], s.extents[lo.output], Visible(s.panel))

\* All panels of the layer outputs are placed anew, and no other panel is.
LEMMA ReconfigureBoxes ==
    ASSUME NEW s \in StateType, ListsAgree(s), NEW los \in SUBSET LayerOutput,
           \A lo \in los : s.panels[lo] # <<>> => s.extents[lo.output] # NULL
    PROVE  LET r == Reconfigure(s, los) IN
           /\ r \in StateType
           /\ BoxesOnly(s, r)
           /\ \A p \in Panel : (\A lo \in los : p \notin Members(s.panels[lo]))
                                   => r.panel[p] = s.panel[p]
           /\ \A lo \in los : \A i \in DOMAIN s.panels[lo] :
                  /\ r.panel[s.panels[lo][i]].box = BoxesOf(s, lo)[i]
                  /\ BoxesOf(s, lo)[i] \in Places
  <1> DEFINE placed(lo) == {[panel |-> s.panels[lo][i], box |-> BoxesOf(s, lo)[i]] :
                               i \in DOMAIN s.panels[lo]}
             changes == UNION {placed(lo) : lo \in los}
             moved == {c.panel : c \in changes}
             box(p) == (CHOOSE c \in changes : c.panel = p).box
             after == [p \in Panel |-> IF p \in moved
                                       THEN [s.panel[p] EXCEPT !.box = box(p)]
                                       ELSE s.panel[p]]
             r == [s EXCEPT !.panel = after]
  <1>1. Reconfigure(s, los) = r
    BY DEF Reconfigure, Placements, Moved, BoxesOf
  <1>2. ASSUME NEW lo \in los PROVE
            /\ s.panels[lo] \in Seq(Panel)
            /\ DOMAIN s.panels[lo] = 1..Len(s.panels[lo])
            /\ BoxesOf(s, lo) \in [DOMAIN s.panels[lo] -> Places]
    <2>1. s.panels[lo] \in Seq(Panel)
      BY DEF StateType
    <2>2. CASE s.panels[lo] = <<>>
      <3>1. DOMAIN s.panels[lo] = {} /\ Len(s.panels[lo]) = 0
        BY <2>2
      <3>2. BoxesOf(s, lo) \in [{} -> Places]
        BY <3>1 DEF BoxesOf, Boxes
      <3> QED BY <2>1, <3>1, <3>2
    <2>3. CASE s.panels[lo] # <<>>
      <3>1. s.extents[lo.output] \in Places
        <4>1. s.extents[lo.output] \in Extents
          BY <2>3 DEF StateType, LayerOutput
        <4> QED BY <4>1 DEF Extents, Places
      <3>2. ASSUME NEW i \in DOMAIN s.panels[lo]
            PROVE  s.panel[s.panels[lo][i]] \in PanelStates
        <4>1. s.panels[lo][i] \in Members(s.panels[lo]) /\ s.panels[lo][i] \in Panel
          BY <2>1 DEF Members
        <4> QED BY <4>1 DEF ListsAgree, StateType
      <3>3. BoxesOf(s, lo) \in [DOMAIN s.panels[lo] -> Places]
        BY <2>1, <3>1, <3>2, BoxesType DEF BoxesOf
      <3> QED BY <2>1, <3>3
    <2> QED BY <2>1, <2>2, <2>3
  <1>3. ASSUME NEW lo \in los, NEW i \in DOMAIN s.panels[lo] PROVE
            /\ s.panels[lo][i] \in moved
            /\ box(s.panels[lo][i]) = BoxesOf(s, lo)[i]
            /\ s.panels[lo][i] \in Members(s.panels[lo])
    <2> DEFINE p == s.panels[lo][i]
               d == [panel |-> p, box |-> BoxesOf(s, lo)[i]]
    <2>1. p \in Members(s.panels[lo])
      BY DEF Members
    <2>2. d \in changes /\ d.panel = p
      OBVIOUS
    <2>3. ASSUME NEW c \in changes, c.panel = p PROVE c.box = BoxesOf(s, lo)[i]
      <3>1. PICK lq \in los : c \in placed(lq)
        BY <2>3
      <3>2. PICK j \in DOMAIN s.panels[lq] :
                c = [panel |-> s.panels[lq][j], box |-> BoxesOf(s, lq)[j]]
        BY <3>1
      <3>3. s.panels[lq][j] = p /\ c.box = BoxesOf(s, lq)[j]
        BY <2>3, <3>2
      <3>4. p \in Members(s.panels[lq])
        BY <3>3 DEF Members
      <3>5. lq = lo
        <4>1. lo \in LayerOutput /\ lq \in LayerOutput
          OBVIOUS
        <4>2. s.panel[p].layer_output = lo
          BY <2>1, <4>1 DEF ListsAgree
        <4>3. s.panel[p].layer_output = lq
          BY <3>4, <4>1 DEF ListsAgree
        <4> QED BY <4>2, <4>3
      <3>6. j = i
        BY <3>3, <3>5 DEF ListsAgree, Unique
      <3> QED BY <3>3, <3>5, <3>6
    <2> HIDE DEF changes, d
    <2>4. moved = {c.panel : c \in changes} /\ p \in moved
      BY <2>2
    <2>5. box(p) = BoxesOf(s, lo)[i]
      BY <2>2, <2>3
    <2> QED BY <2>1, <2>4, <2>5
  <1>4. ASSUME NEW p \in moved
        PROVE  \E lo \in los : \E i \in DOMAIN s.panels[lo] : s.panels[lo][i] = p
    OBVIOUS
  <1> HIDE DEF moved, box
  <1>5. ASSUME NEW p \in Panel, p \in moved
        PROVE  /\ s.panel[p] \in PanelStates
               /\ box(p) \in Places
               /\ [s.panel[p] EXCEPT !.box = box(p)] =
                      [output |-> s.panel[p].output,
                       layer_output |-> s.panel[p].layer_output, box |-> box(p),
                       visible |-> s.panel[p].visible,
                       positioning |-> s.panel[p].positioning]
    <2>1. PICK lo \in los : \E i \in DOMAIN s.panels[lo] : s.panels[lo][i] = p
      BY <1>4, <1>5
    <2>2. PICK i \in DOMAIN s.panels[lo] : s.panels[lo][i] = p
      BY <2>1
    <2>3. s.panel[p] # NULL
      BY <1>3, <2>2 DEF ListsAgree
    <2>4. s.panel[p] \in PanelStates
      BY <2>3 DEF StateType
    <2>5. box(p) \in Places
      BY <1>2, <1>3, <2>2
    <2> QED BY <2>4, <2>5 DEF PanelStates
  <1>6. ASSUME NEW p \in Panel PROVE
            /\ after[p] \in PanelStates \cup {NULL}
            /\ s.panel[p] = NULL <=> after[p] = NULL
            /\ s.panel[p] # NULL => SamePanel(after[p], s.panel[p])
    <2>1. CASE p \in moved
      <3>1. after[p] \in PanelStates
        BY <1>5, <2>1 DEF PanelStates
      <3>2. s.panel[p] # NULL /\ after[p] # NULL
        <4>1. s.panel[p] \in PanelStates
          BY <1>5, <2>1
        <4> HIDE DEF after
        <4> QED BY <3>1, <4>1, NullAssumption
      <3>3. SamePanel(after[p], s.panel[p])
        BY <1>5, <2>1 DEF SamePanel
      <3> QED BY <3>1, <3>2, <3>3
    <2>2. CASE p \notin moved
      <3>1. after[p] = s.panel[p] /\ s.panel[p] \in PanelStates \cup {NULL}
        BY <2>2 DEF StateType
      <3> QED BY <3>1 DEF SamePanel
    <2> QED BY <2>1, <2>2
  <1>7. ASSUME NEW p \in Panel, \A lo \in los : p \notin Members(s.panels[lo])
        PROVE  after[p] = s.panel[p]
    <2>1. p \notin moved
      BY <1>4, <1>7 DEF Members
    <2> QED BY <2>1
  <1>8. ASSUME NEW lo \in los, NEW i \in DOMAIN s.panels[lo] PROVE
            /\ after[s.panels[lo][i]].box = BoxesOf(s, lo)[i]
            /\ BoxesOf(s, lo)[i] \in Places
    <2>1. s.panels[lo][i] \in Panel
      BY <1>2
    <2>2. after[s.panels[lo][i]].box = box(s.panels[lo][i])
      BY <1>3, <1>5, <2>1
    <2> QED BY <1>2, <1>3, <2>2
  <1>9. after \in [Panel -> PanelStates \cup {NULL}]
    BY <1>6
  <1> HIDE DEF after
  <1>10. r \in StateType /\ r.panel = after
    BY <1>9 DEF StateType
  <1>11. BoxesOnly(s, r)
    BY <1>6 DEF BoxesOnly, SameOutputs, StateType
  <1> HIDE DEF r
  <1> QED BY <1>1, <1>7, <1>8, <1>10, <1>11

\* Boxes depend on what panels commit, and on which are seen as visible.
LEMMA SameBoxes ==
    ASSUME NEW a, NEW b, NEW list, NEW full, NEW seen, NEW visible,
           \A i \in DOMAIN list : /\ a[list[i]].positioning = b[list[i]].positioning
                                  /\ list[i] \in seen <=> list[i] \in visible
    PROVE  Boxes(a, list, full, seen) = Boxes(b, list, full, visible)
  <1>1. [i \in DOMAIN list |-> a[list[i]].positioning]
            = [i \in DOMAIN list |-> b[list[i]].positioning]
    OBVIOUS
  <1>2. [i \in DOMAIN list |-> list[i] \in seen] = [i \in DOMAIN list |-> list[i] \in visible]
    OBVIOUS
  <1> QED BY <1>1, <1>2 DEF Boxes

\* A list is placed as long as its panels, what they committed and the extents stay.
LEMMA ListStaysPlaced ==
    ASSUME NEW s, NEW r, NEW lo, ListPlaced(s, lo),
           r.panels[lo] = s.panels[lo], r.extents[lo.output] = s.extents[lo.output],
           \A p \in Members(s.panels[lo]) :
               /\ r.panel[p].box = s.panel[p].box
               /\ r.panel[p].positioning = s.panel[p].positioning
    PROVE  ListPlaced(r, lo)
  <1> DEFINE list == s.panels[lo]
  <1> SUFFICES ASSUME list # <<>> PROVE ListPlaced(r, lo)
    BY DEF ListPlaced
  <1>1. PICK seen \in SUBSET Members(list) :
            [i \in DOMAIN list |-> s.panel[list[i]].box]
                = Boxes(s.panel, list, s.extents[lo.output], seen)
    BY DEF ListPlaced
  <1>2. \A i \in DOMAIN list : list[i] \in Members(list)
    BY DEF Members
  <1>3. [i \in DOMAIN list |-> r.panel[list[i]].box]
            = [i \in DOMAIN list |-> s.panel[list[i]].box]
    BY <1>2
  <1>4. Boxes(r.panel, list, s.extents[lo.output], seen)
            = Boxes(s.panel, list, s.extents[lo.output], seen)
    BY <1>2, SameBoxes
  <1> QED BY <1>1, <1>3, <1>4 DEF ListPlaced

\* Panels that agree with the lists are good once those lists in which they were not
\* placed are placed.
LEMMA ReconfigureGood ==
    ASSUME NEW s \in StateType, ListsAgree(s), NEW los \in SUBSET LayerOutput,
           \A p \in Panel : s.panel[p] # NULL =>
               /\ PanelAgrees(s, p)
               /\ s.panel[p].layer_output \notin los => HasPlace(s, p),
           \A lo \in LayerOutput \ los : ListPlaced(s, lo)
    PROVE  /\ Good(Reconfigure(s, los))
           /\ BoxesOnly(s, Reconfigure(s, los))
  <1> DEFINE r == Reconfigure(s, los)
  <1>1. ASSUME NEW lo \in los, s.panels[lo] # <<>> PROVE s.extents[lo.output] # NULL
    <2>1. s.panels[lo] \in Seq(Panel)
      BY DEF StateType
    <2>2. 1 \in DOMAIN s.panels[lo] /\ s.panels[lo][1] \in Panel
      BY <1>1, <2>1
    <2>3. s.panels[lo][1] \in Members(s.panels[lo])
      BY <2>2 DEF Members
    <2> DEFINE p == s.panels[lo][1]
    <2>4. s.panel[p] # NULL /\ s.panel[p].layer_output = lo
      BY <2>3 DEF ListsAgree
    <2>5. PanelAgrees(s, p) /\ lo # NULL
      BY <2>2, <2>4, NullAssumption
    <2> QED BY <2>4, <2>5 DEF PanelAgrees
  <1>2. /\ r \in StateType
        /\ BoxesOnly(s, r)
        /\ \A p \in Panel : (\A lo \in los : p \notin Members(s.panels[lo]))
                                => r.panel[p] = s.panel[p]
        /\ \A lo \in los : \A i \in DOMAIN s.panels[lo] :
               /\ r.panel[s.panels[lo][i]].box = BoxesOf(s, lo)[i]
               /\ BoxesOf(s, lo)[i] \in Places
    BY <1>1, ReconfigureBoxes
  <1> HIDE DEF r
  <1>m. ASSUME NEW lo \in LayerOutput PROVE Members(s.panels[lo]) \subseteq Panel
    BY MembersType DEF StateType
  <1>p. ASSUME NEW p \in Panel
        PROVE  /\ s.panel[p] = NULL <=> r.panel[p] = NULL
               /\ s.panel[p] # NULL => SamePanel(r.panel[p], s.panel[p])
    <2>1. BoxesOnly(s, r)
      BY <1>2
    <2> QED BY <2>1 DEF BoxesOnly
  <1>l. ASSUME NEW lo \in LayerOutput, NEW p \in Members(s.panels[lo])
        PROVE  /\ p \in Panel
               /\ s.panel[p] # NULL /\ s.panel[p].layer_output = lo
               /\ r.panel[p] # NULL /\ SamePanel(r.panel[p], s.panel[p])
    <2>1. p \in Panel
      BY <1>m
    <2>2. s.panel[p] # NULL /\ s.panel[p].layer_output = lo
      BY DEF ListsAgree
    <2> QED BY <1>p, <2>1, <2>2
  <1>3. ListsAgree(r)
    <2> SUFFICES ASSUME NEW lo \in LayerOutput
                 PROVE  /\ Unique(r.panels[lo])
                        /\ \A p \in Members(r.panels[lo]) :
                               r.panel[p] # NULL /\ r.panel[p].layer_output = lo
      BY DEF ListsAgree
    <2>1. r.panels[lo] = s.panels[lo]
      BY <1>2 DEF BoxesOnly
    <2>2. ASSUME NEW p \in Members(s.panels[lo])
          PROVE  r.panel[p] # NULL /\ r.panel[p].layer_output = lo
      BY <1>l DEF SamePanel
    <2> QED BY <2>1, <2>2 DEF ListsAgree
  <1>4. ASSUME NEW p \in Panel, r.panel[p] # NULL PROVE PanelAgrees(r, p) /\ HasPlace(r, p)
    <2>1. s.panel[p] # NULL /\ SamePanel(r.panel[p], s.panel[p])
      BY <1>4, <1>p
    <2>2. PanelAgrees(r, p)
      BY <1>2, <2>1 DEF BoxesOnly, SamePanel, PanelAgrees
    <2>3. HasPlace(r, p)
      <3> DEFINE lo == s.panel[p].layer_output
      <3>1. CASE lo \in los
        <4>1. p \in Members(s.panels[lo]) /\ lo # NULL
          BY <2>1, <3>1, NullAssumption DEF PanelAgrees
        <4>2. PICK i \in DOMAIN s.panels[lo] : s.panels[lo][i] = p
          BY <4>1 DEF Members
        <4>3. r.panel[p].box \in Places
          BY <1>2, <3>1, <4>2
        <4> QED BY <2>1, <4>1, <4>3, NullAssumption DEF HasPlace, SamePanel
      <3>2. CASE lo \notin los
        <4>1. ASSUME NEW lq \in los PROVE p \notin Members(s.panels[lq])
          BY <2>1, <3>2 DEF ListsAgree
        <4>2. r.panel[p] = s.panel[p] /\ HasPlace(s, p)
          BY <1>2, <2>1, <3>2, <4>1
        <4> QED BY <4>2 DEF HasPlace
      <3> QED BY <3>1, <3>2
    <2> QED BY <2>2, <2>3
  <1>5. ASSUME NEW lo \in LayerOutput PROVE ListPlaced(r, lo)
    <2> DEFINE list == s.panels[lo]
    <2>1. r.panels[lo] = list /\ r.extents = s.extents
      BY <1>2 DEF BoxesOnly
    <2>2. ASSUME NEW p \in Members(list)
          PROVE  r.panel[p].positioning = s.panel[p].positioning
      BY <1>l DEF SamePanel
    <2>3. CASE lo \in los
      <3> DEFINE seen == Visible(s.panel) \cap Members(list)
      <3>0. \A i \in DOMAIN list : list[i] \in Members(list)
        BY DEF Members
      <3>1. Boxes(r.panel, list, s.extents[lo.output], seen) = BoxesOf(s, lo)
        <4> HIDE DEF list
        <4>1. Boxes(r.panel, list, s.extents[lo.output], seen)
                = Boxes(s.panel, list, s.extents[lo.output], Visible(s.panel))
          <5>1. \A i \in DOMAIN list :
                    /\ r.panel[list[i]].positioning = s.panel[list[i]].positioning
                    /\ list[i] \in seen <=> list[i] \in Visible(s.panel)
            BY <2>2, <3>0
          <5> HIDE DEF seen
          <5> QED BY <5>1, SameBoxes
        <4> QED BY <4>1 DEF BoxesOf, list
      <3>2. [i \in DOMAIN list |-> r.panel[list[i]].box] = BoxesOf(s, lo)
        <4>1. BoxesOf(s, lo) = [i \in DOMAIN list |-> BoxesOf(s, lo)[i]]
          BY DEF BoxesOf, Boxes
        <4>2. \A i \in DOMAIN list : r.panel[list[i]].box = BoxesOf(s, lo)[i]
          BY <1>2, <2>3
        <4> QED BY <4>1, <4>2
      <3> HIDE DEF seen
      <3>3. seen \in SUBSET Members(list)
        BY DEF seen
      <3> QED BY <2>1, <3>1, <3>2, <3>3 DEF ListPlaced
    <2>4. CASE lo \notin los
      <3>1. ASSUME NEW p \in Members(list) PROVE r.panel[p] = s.panel[p]
        <4>1. ASSUME NEW lq \in los PROVE p \notin Members(s.panels[lq])
          BY <2>4 DEF ListsAgree
        <4> QED BY <1>2, <1>m, <4>1
      <3>2. ListPlaced(s, lo)
        BY <2>4
      <3> QED BY <2>1, <3>1, <3>2, ListStaysPlaced
    <2> QED BY <2>3, <2>4
  <1>6. Good(r)
    BY <1>2, <1>3, <1>4, <1>5 DEF Good
  <1> QED BY <1>2, <1>6 DEF r

-----------------------------------------------------------------------------
(* What is done to a panel.                                                *)

\* A panel that is on no layer.
Loose(a) == a # NULL => a.layer_output = NULL /\ a.box = NULL

WithPanel(s, p, a) == [s EXCEPT !.panel = [@ EXCEPT ![p] = a]]

WithList(s, p, a, lo, list) ==
    [s EXCEPT !.panel = [@ EXCEPT ![p] = a], !.panels = [@ EXCEPT ![lo] = list]]

\* No other panel is different, except for its box.
OnlyPanel(s, r, p) ==
    /\ SameOutputs(s, r)
    /\ r.extents = s.extents /\ r.failed = s.failed
    /\ \A q \in Panel \ {p} :
           /\ s.panel[q] = NULL <=> r.panel[q] = NULL
           /\ s.panel[q] # NULL => SamePanel(r.panel[q], s.panel[q])

\* What a good state says of each panel and of each list.
LEMMA GoodParts ==
    ASSUME NEW s, Good(s)
    PROVE  /\ s \in StateType
           /\ ListsAgree(s)
           /\ \A p \in Panel : s.panel[p] # NULL =>
                  /\ s.panel[p] \in PanelStates
                  /\ PanelAgrees(s, p)
                  /\ HasPlace(s, p)
           /\ \A lo \in LayerOutput :
                  /\ ListPlaced(s, lo)
                  /\ s.panels[lo] \in Seq(Panel)
                  /\ Members(s.panels[lo]) \subseteq Panel
                  /\ Unique(s.panels[lo])
                  /\ \A p \in Members(s.panels[lo]) :
                         s.panel[p] # NULL /\ s.panel[p].layer_output = lo
  <1>1. s \in StateType /\ ListsAgree(s)
    BY DEF Good
  <1>2. ASSUME NEW p \in Panel, s.panel[p] # NULL
        PROVE  s.panel[p] \in PanelStates /\ PanelAgrees(s, p) /\ HasPlace(s, p)
    BY <1>2 DEF Good, StateType
  <1>3. ASSUME NEW lo \in LayerOutput
        PROVE  /\ ListPlaced(s, lo)
               /\ s.panels[lo] \in Seq(Panel)
               /\ Members(s.panels[lo]) \subseteq Panel
               /\ Unique(s.panels[lo])
               /\ \A p \in Members(s.panels[lo]) :
                      s.panel[p] # NULL /\ s.panel[p].layer_output = lo
    <2>1. ListPlaced(s, lo)
      BY DEF Good
    <2>2. s.panels[lo] \in Seq(Panel)
      BY <1>1 DEF StateType
    <2>3. Members(s.panels[lo]) \subseteq Panel
      BY <2>2, MembersType
    <2> QED BY <1>1, <2>1, <2>2, <2>3 DEF ListsAgree
  <1> QED BY <1>1, <1>2, <1>3

\* To change one panel changes nothing else.
LEMMA WithPanelFields ==
    ASSUME NEW s \in StateType, NEW p \in Panel, NEW a \in PanelStates \cup {NULL}
    PROVE  LET t == WithPanel(s, p, a) IN
           /\ t \in StateType
           /\ SameOutputs(s, t)
           /\ t.extents = s.extents /\ t.failed = s.failed /\ t.panels = s.panels
           /\ t.panel[p] = a
           /\ \A q \in Panel \ {p} : t.panel[q] = s.panel[q]
  <1> DEFINE after == [s.panel EXCEPT ![p] = a]
  <1>1. after \in [Panel -> PanelStates \cup {NULL}]
    BY DEF StateType
  <1>2. after[p] = a /\ \A q \in Panel \ {p} : after[q] = s.panel[q]
    BY DEF StateType
  <1>3. WithPanel(s, p, a) = [s EXCEPT !.panel = after]
    BY DEF WithPanel
  <1> HIDE DEF after
  <1> QED BY <1>1, <1>2, <1>3 DEF StateType, SameOutputs

\* To change one panel and one list changes nothing else.
LEMMA WithListFields ==
    ASSUME NEW s \in StateType, NEW p \in Panel, NEW a \in PanelStates,
           NEW lo \in LayerOutput, NEW list \in Seq(Panel)
    PROVE  LET t == WithList(s, p, a, lo, list) IN
           /\ t \in StateType
           /\ SameOutputs(s, t)
           /\ t.extents = s.extents /\ t.failed = s.failed
           /\ t.panel[p] = a
           /\ \A q \in Panel \ {p} : t.panel[q] = s.panel[q]
           /\ t.panels[lo] = list
           /\ \A lq \in LayerOutput \ {lo} : t.panels[lq] = s.panels[lq]
  <1> DEFINE after == [s.panel EXCEPT ![p] = a]
             lists == [s.panels EXCEPT ![lo] = list]
  <1>1. after \in [Panel -> PanelStates \cup {NULL}]
    BY DEF StateType
  <1>2. after[p] = a /\ \A q \in Panel \ {p} : after[q] = s.panel[q]
    BY DEF StateType
  <1>3. lists \in [LayerOutput -> Seq(Panel)]
    BY DEF StateType
  <1>4. lists[lo] = list /\ \A lq \in LayerOutput \ {lo} : lists[lq] = s.panels[lq]
    BY DEF StateType
  <1>5. WithList(s, p, a, lo, list) = [s EXCEPT !.panel = after, !.panels = lists]
    BY DEF WithList
  <1> HIDE DEF after, lists
  <1> QED BY <1>1, <1>2, <1>3, <1>4, <1>5 DEF StateType, SameOutputs

\* A panel that is on no layer may be created, changed and destroyed, and one that is
\* on a layer may be shown and hidden.
LEMMA WithPanelGood ==
    ASSUME NEW s, Good(s), NEW p \in Panel, NEW a \in PanelStates \cup {NULL},
           \/ Loose(s.panel[p]) /\ Loose(a)
           \/ /\ s.panel[p] # NULL /\ a # NULL
              /\ a = [s.panel[p] EXCEPT !.visible = a.visible]
    PROVE  /\ Good(WithPanel(s, p, a))
           /\ OnlyPanel(s, WithPanel(s, p, a), p)
           /\ WithPanel(s, p, a).panel[p] = a
  <1> DEFINE t == WithPanel(s, p, a)
  <1>1. /\ t \in StateType
        /\ SameOutputs(s, t)
        /\ t.extents = s.extents /\ t.failed = s.failed /\ t.panels = s.panels
        /\ t.panel[p] = a
        /\ \A q \in Panel \ {p} : t.panel[q] = s.panel[q]
    BY GoodParts, WithPanelFields
  <1> HIDE DEF t
  <1>2. OnlyPanel(s, t, p)
    BY <1>1 DEF OnlyPanel, SamePanel
  <1>3. ASSUME s.panel[p] # NULL, a # NULL, a = [s.panel[p] EXCEPT !.visible = a.visible]
        PROVE  /\ a.output = s.panel[p].output /\ a.layer_output = s.panel[p].layer_output
               /\ a.box = s.panel[p].box /\ a.positioning = s.panel[p].positioning
    <2>1. s.panel[p] \in PanelStates
      BY <1>3, GoodParts
    <2> QED BY <1>3, <2>1 DEF PanelStates
  <1>4. ASSUME NEW lo \in LayerOutput, NEW q \in Members(s.panels[lo])
        PROVE  /\ q \in Panel
               /\ t.panel[q] # NULL /\ t.panel[q].layer_output = lo
               /\ t.panel[q].box = s.panel[q].box
               /\ t.panel[q].positioning = s.panel[q].positioning
    <2>1. q \in Panel /\ s.panel[q] # NULL /\ s.panel[q].layer_output = lo /\ lo # NULL
      BY GoodParts, NullAssumption
    <2>2. CASE q = p
      <3>1. a # NULL /\ a = [s.panel[p] EXCEPT !.visible = a.visible]
        BY <2>1, <2>2 DEF Loose
      <3> QED BY <1>1, <1>3, <2>1, <2>2, <3>1
    <2>3. CASE q # p
      BY <1>1, <2>1, <2>3
    <2> QED BY <2>2, <2>3
  <1>5. ListsAgree(t)
    <2> SUFFICES ASSUME NEW lo \in LayerOutput
                 PROVE  /\ Unique(t.panels[lo])
                        /\ \A q \in Members(t.panels[lo]) :
                               t.panel[q] # NULL /\ t.panel[q].layer_output = lo
      BY DEF ListsAgree
    <2> QED BY <1>1, <1>4, GoodParts
  <1>6. ASSUME NEW q \in Panel, t.panel[q] # NULL PROVE PanelAgrees(t, q) /\ HasPlace(t, q)
    <2>1. CASE q # p
      <3>1. t.panel[q] = s.panel[q] /\ PanelAgrees(s, q) /\ HasPlace(s, q)
        BY <1>1, <1>6, <2>1, GoodParts
      <3> QED BY <1>1, <3>1 DEF PanelAgrees, HasPlace
    <2>2. CASE q = p /\ Loose(a)
      BY <1>1, <1>6, <2>2 DEF PanelAgrees, HasPlace, Loose
    <2>3. CASE q = p /\ ~ Loose(a)
      <3>1. /\ PanelAgrees(s, p) /\ HasPlace(s, p)
            /\ a.output = s.panel[p].output /\ a.layer_output = s.panel[p].layer_output
            /\ a.box = s.panel[p].box
        BY <1>3, <2>3, GoodParts
      <3> QED BY <1>1, <2>3, <3>1 DEF PanelAgrees, HasPlace
    <2> QED BY <2>1, <2>2, <2>3
  <1>7. ASSUME NEW lo \in LayerOutput PROVE ListPlaced(t, lo)
    <2>1. ListPlaced(s, lo)
      BY GoodParts
    <2> QED BY <1>1, <1>4, <2>1, ListStaysPlaced
  <1>8. Good(t)
    BY <1>1, <1>5, <1>6, <1>7 DEF Good
  <1> QED BY <1>1, <1>2, <1>8 DEF t

\* A panel is added to, changed in or removed from the list of a layer output, the
\* panels of which are then placed.
LEMMA WithListGood ==
    ASSUME NEW s, Good(s), NEW p \in Panel, NEW a \in PanelStates,
           NEW lo \in LayerOutput, NEW list \in Seq(Panel), Unique(list),
           Members(list) \ {p} = Members(s.panels[lo]) \ {p},
           s.panel[p] # NULL => s.panel[p].layer_output \in {lo, NULL},
           \/ p \notin Members(list) /\ Loose(a)
           \/ /\ p \in Members(list) /\ a.layer_output = lo /\ a.output = lo.output
              /\ s.extents[lo.output] # NULL
    PROVE  LET r == Reconfigure(WithList(s, p, a, lo, list), {lo}) IN
           /\ Good(r)
           /\ OnlyPanel(s, r, p)
           /\ r.panel[p] # NULL
           /\ SamePanel(r.panel[p], a)
  <1> DEFINE t == WithList(s, p, a, lo, list)
             r == Reconfigure(t, {lo})
  <1>1. /\ t \in StateType
        /\ SameOutputs(s, t)
        /\ t.extents = s.extents /\ t.failed = s.failed
        /\ t.panel[p] = a
        /\ \A q \in Panel \ {p} : t.panel[q] = s.panel[q]
        /\ t.panels[lo] = list
        /\ \A lq \in LayerOutput \ {lo} : t.panels[lq] = s.panels[lq]
    BY GoodParts, WithListFields
  <1> HIDE DEF t
  <1>2. a # NULL /\ lo # NULL
    BY NullAssumption
  <1>3. ASSUME NEW lq \in LayerOutput \ {lo}, NEW q \in Members(s.panels[lq])
        PROVE  q \in Panel /\ q # p /\ s.panel[q] # NULL /\ s.panel[q].layer_output = lq
    <2>1. q \in Panel /\ s.panel[q] # NULL /\ s.panel[q].layer_output = lq /\ lq # NULL
      BY GoodParts, NullAssumption
    <2> QED BY <2>1
  <1>4. ListsAgree(t)
    <2> SUFFICES ASSUME NEW lq \in LayerOutput
                 PROVE  /\ Unique(t.panels[lq])
                        /\ \A q \in Members(t.panels[lq]) :
                               t.panel[q] # NULL /\ t.panel[q].layer_output = lq
      BY DEF ListsAgree
    <2>1. CASE lq = lo
      <3>1. ASSUME NEW q \in Members(list)
            PROVE  t.panel[q] # NULL /\ t.panel[q].layer_output = lo
        <4>1. CASE q = p
          BY <1>1, <1>2, <4>1
        <4>2. CASE q # p
          <5>1. q \in Members(s.panels[lo])
            BY <4>2
          <5>2. q \in Panel /\ s.panel[q] # NULL /\ s.panel[q].layer_output = lo
            BY <5>1, GoodParts
          <5> QED BY <1>1, <4>2, <5>2
        <4> QED BY <4>1, <4>2
      <3> QED BY <1>1, <2>1, <3>1
    <2>2. CASE lq # lo
      <3>1. Unique(s.panels[lq])
        BY GoodParts
      <3> QED BY <1>1, <1>3, <2>2, <3>1
    <2> QED BY <2>1, <2>2
  <1>5. ASSUME NEW q \in Panel, t.panel[q] # NULL
        PROVE  PanelAgrees(t, q) /\ (t.panel[q].layer_output \notin {lo} => HasPlace(t, q))
    <2>1. CASE q = p
      <3>1. CASE p \in Members(list)
        BY <1>1, <1>2, <2>1, <3>1 DEF PanelAgrees, Loose
      <3>2. CASE p \notin Members(list)
        BY <1>1, <1>2, <2>1, <3>2 DEF PanelAgrees, HasPlace, Loose
      <3> QED BY <3>1, <3>2
    <2>2. CASE q # p
      <3> DEFINE lq == s.panel[q].layer_output
      <3>1. t.panel[q] = s.panel[q] /\ s.panel[q] # NULL
        BY <1>1, <1>5, <2>2
      <3>2. PanelAgrees(s, q) /\ HasPlace(s, q) /\ lq \in LayerOutput \cup {NULL}
        BY <3>1, GoodParts DEF PanelStates
      <3>3. HasPlace(t, q)
        BY <3>1, <3>2 DEF HasPlace
      <3>4. ASSUME lq # NULL PROVE q \in Members(t.panels[lq])
        <4>1. q \in Members(s.panels[lq])
          BY <3>2, <3>4 DEF PanelAgrees
        <4>2. CASE lq = lo
          BY <1>1, <2>2, <4>1, <4>2
        <4>3. CASE lq # lo
          BY <1>1, <3>2, <3>4, <4>1, <4>3
        <4> QED BY <4>2, <4>3
      <3>5. PanelAgrees(t, q)
        BY <1>1, <3>1, <3>2, <3>4 DEF PanelAgrees
      <3> QED BY <3>3, <3>5
    <2> QED BY <2>1, <2>2
  <1>6. ASSUME NEW lq \in LayerOutput \ {lo} PROVE ListPlaced(t, lq)
    <2>1. ListPlaced(s, lq)
      BY GoodParts
    <2>2. \A q \in Members(s.panels[lq]) : t.panel[q] = s.panel[q]
      BY <1>1, <1>3
    <2> QED BY <1>1, <2>1, <2>2, ListStaysPlaced
  <1>7. Good(r) /\ BoxesOnly(t, r)
    <2>1. {lo} \in SUBSET LayerOutput
      OBVIOUS
    <2> QED BY <1>1, <1>4, <1>5, <1>6, <2>1, ReconfigureGood
  <1> HIDE DEF r
  <1>8. r.panel[p] # NULL /\ SamePanel(r.panel[p], a)
    BY <1>1, <1>2, <1>7 DEF BoxesOnly
  <1>9. OnlyPanel(s, r, p)
    <2>1. SameOutputs(s, r) /\ r.extents = s.extents /\ r.failed = s.failed
      BY <1>1, <1>7 DEF BoxesOnly, SameOutputs
    <2>2. ASSUME NEW q \in Panel \ {p}
          PROVE  /\ s.panel[q] = NULL <=> r.panel[q] = NULL
                 /\ s.panel[q] # NULL => SamePanel(r.panel[q], s.panel[q])
      BY <1>1, <1>7 DEF BoxesOnly
    <2> QED BY <2>1, <2>2 DEF OnlyPanel
  <1> QED BY <1>7, <1>8, <1>9 DEF r, t

\* A record of a panel, with one field replaced.
LEMMA PanelFields ==
    ASSUME NEW a \in PanelStates
    PROVE  /\ \A lo \in LayerOutput \cup {NULL} :
                  [a EXCEPT !.layer_output = lo] =
                      [output |-> a.output, layer_output |-> lo, box |-> a.box,
                       visible |-> a.visible, positioning |-> a.positioning]
           /\ \A pos \in Positionings :
                  [a EXCEPT !.positioning = pos] =
                      [output |-> a.output, layer_output |-> a.layer_output, box |-> a.box,
                       visible |-> a.visible, positioning |-> pos]
           /\ \A o \in Output \cup {NULL} :
                  [a EXCEPT !.output = o] =
                      [output |-> o, layer_output |-> a.layer_output, box |-> a.box,
                       visible |-> a.visible, positioning |-> a.positioning]
  BY DEF PanelStates

\* To set a panel to what it is changes nothing.
LEMMA WithSamePanel ==
    ASSUME NEW s \in StateType, NEW p \in Panel
    PROVE  WithPanel(s, p, s.panel[p]) = s
  <1>1. [s.panel EXCEPT ![p] = s.panel[p]] = s.panel
    BY DEF StateType
  <1> QED BY <1>1 DEF WithPanel, StateType

\* A commit places the panels of the layer output anew (wlmtk_panel_commit).
LEMMA CommitPositioningGood ==
    ASSUME NEW s, Good(s), NEW p \in Panel, s.panel[p] # NULL, NEW pos \in Positionings
    PROVE  LET r == CommitPositioning(s, p, pos) IN
           /\ Good(r)
           /\ OnlyPanel(s, r, p)
           /\ r.panel[p] # NULL
           /\ r.panel[p].output = s.panel[p].output
           /\ r.panel[p].layer_output = s.panel[p].layer_output
  <1> DEFINE a == [s.panel[p] EXCEPT !.positioning = pos]
             t == WithPanel(s, p, a)
             lo == s.panel[p].layer_output
             r == CommitPositioning(s, p, pos)
  <1>1. s \in StateType /\ s.panel[p] \in PanelStates /\ PanelAgrees(s, p) /\ HasPlace(s, p)
    BY GoodParts
  <1>2. /\ a \in PanelStates /\ a.output = s.panel[p].output /\ a.layer_output = lo
        /\ a.box = s.panel[p].box
    BY <1>1, PanelFields DEF PanelStates
  <1>3. [s EXCEPT !.panel[p].positioning = pos] = t
    BY DEF WithPanel
  <1>4. lo \in LayerOutput \cup {NULL}
    BY <1>1 DEF PanelStates
  <1> HIDE DEF a
  <1>5. CASE pos = s.panel[p].positioning \/ lo = NULL
    <2>1. r = t
      BY <1>3, <1>5 DEF CommitPositioning
    <2>2. a # NULL
      BY <1>2, NullAssumption
    <2>3. \/ Loose(s.panel[p]) /\ Loose(a)
          \/ s.panel[p] # NULL /\ a # NULL /\ a = [s.panel[p] EXCEPT !.visible = a.visible]
      <3>1. CASE lo = NULL
        BY <1>1, <1>2, <3>1 DEF Loose, HasPlace
      <3>2. CASE pos = s.panel[p].positioning
        <4>1. a = s.panel[p]
          BY <1>1, <3>2 DEF a, PanelStates
        <4>2. a = [a EXCEPT !.visible = a.visible]
          BY <1>2 DEF PanelStates
        <4> QED BY <2>2, <4>1, <4>2
      <3> QED BY <1>5, <3>1, <3>2
    <2>4. Good(t) /\ OnlyPanel(s, t, p) /\ t.panel[p] = a
      BY <1>2, <2>3, WithPanelGood
    <2> QED BY <1>2, <2>1, <2>2, <2>4
  <1>6. CASE pos # s.panel[p].positioning /\ lo # NULL
    <2> DEFINE list == s.panels[lo]
    <2>1. r = Reconfigure(t, {lo})
      BY <1>3, <1>6 DEF CommitPositioning
    <2>2. lo \in LayerOutput
      BY <1>4, <1>6
    <2>3. [s.panels EXCEPT ![lo] = list] = s.panels
      BY <1>1, <2>2 DEF StateType
    <2>4. WithList(s, p, a, lo, list) = t
      BY <1>1, <2>3 DEF WithList, WithPanel, StateType
    <2>5. list \in Seq(Panel) /\ Unique(list)
      BY <2>2, GoodParts
    <2>6. p \in Members(list) /\ a.output = lo.output /\ s.extents[lo.output] # NULL
      BY <1>1, <1>2, <1>6 DEF PanelAgrees
    <2>7. Members(list) \ {p} = Members(s.panels[lo]) \ {p}
      OBVIOUS
    <2>8. s.panel[p] # NULL => s.panel[p].layer_output \in {lo, NULL}
      OBVIOUS
    <2> DEFINE u == Reconfigure(WithList(s, p, a, lo, list), {lo})
    <2>9. Good(u) /\ OnlyPanel(s, u, p) /\ u.panel[p] # NULL /\ SamePanel(u.panel[p], a)
      <3> HIDE DEF list, lo
      <3> QED BY <1>2, <2>2, <2>5, <2>6, <2>7, <2>8, WithListGood
    <2>10. r = u
      BY <2>1, <2>4
    <2> QED BY <1>2, <2>9, <2>10 DEF SamePanel
  <1> QED BY <1>5, <1>6

\* A panel that is added is linked, and placed with those before it, if the layer has
\* its output (wlmtk_layer_add_panel).
LEMMA AddPanelGood ==
    ASSUME NEW s, Good(s), NEW k \in Workspace, NEW l \in Layer, NEW p \in Panel,
           s.panel[p] # NULL, s.panel[p].layer_output = NULL
    PROVE  LET o == s.panel[p].output
               r == AddPanel(s, k, l, p)
           IN  /\ Good(r)
               /\ OnlyPanel(s, r, p)
               /\ r.panel[p] # NULL
               /\ r.panel[p].output = o
               /\ \/ r.panel[p].layer_output = NULL
                  \/ r.panel[p].layer_output.workspace = k
               /\ o # NULL /\ s.extents[o] # NULL =>
                      r.panel[p].layer_output = [workspace |-> k, layer |-> l, output |-> o]
  <1> DEFINE o == s.panel[p].output
             r == AddPanel(s, k, l, p)
             lo == [workspace |-> k, layer |-> l, output |-> o]
             a == [s.panel[p] EXCEPT !.layer_output = lo]
             list == PushBack(s.panels[lo], p)
  <1>1. s \in StateType /\ s.panel[p] \in PanelStates
    BY GoodParts
  <1>2. CASE o = NULL \/ (o # NULL /\ s.extents[o] = NULL)
    <2>1. r = s
      BY <1>2 DEF AddPanel
    <2>2. OnlyPanel(s, s, p)
      BY DEF OnlyPanel, SameOutputs, SamePanel
    <2> QED BY <1>2, <2>1, <2>2
  <1>3. CASE o # NULL /\ s.extents[o] # NULL
    <2>1. lo \in LayerOutput /\ lo.output = o
      BY <1>1, <1>3 DEF LayerOutput, PanelStates
    <2>2. a \in PanelStates /\ a.output = o /\ a.layer_output = lo
      BY <1>1, <2>1, PanelFields DEF PanelStates
    <2>3. r = Reconfigure(WithList(s, p, a, lo, list), {lo})
      <3>1. r = Reconfigure([s EXCEPT !.panel[p].layer_output = lo,
                                      !.panels[lo] = PushBack(@, p)], {lo})
        BY <1>3 DEF AddPanel
      <3>2. [s EXCEPT !.panel[p].layer_output = lo, !.panels[lo] = PushBack(@, p)]
                = WithList(s, p, a, lo, list)
        BY <1>1 DEF WithList, StateType
      <3> QED BY <3>1, <3>2
    <2>4. s.panels[lo] \in Seq(Panel) /\ Unique(s.panels[lo]) /\ p \notin Members(s.panels[lo])
      BY <2>1, GoodParts, NullAssumption
    <2>5. list \in Seq(Panel) /\ Members(list) = Members(s.panels[lo]) \cup {p} /\ Unique(list)
      BY <2>4, PushBackMembers
    <2>6. Members(list) \ {p} = Members(s.panels[lo]) \ {p} /\ p \in Members(list)
      BY <2>5
    <2> DEFINE u == Reconfigure(WithList(s, p, a, lo, list), {lo})
    <2>7. Good(u) /\ OnlyPanel(s, u, p) /\ u.panel[p] # NULL /\ SamePanel(u.panel[p], a)
      <3> HIDE DEF list, lo, a
      <3> QED BY <1>3, <2>1, <2>2, <2>5, <2>6, WithListGood
    <2>8. u.panel[p].output = o /\ u.panel[p].layer_output = lo /\ lo.workspace = k
      <3> HIDE DEF u, a
      <3> QED BY <2>2, <2>7 DEF SamePanel
    <2> HIDE DEF u, lo
    <2>9. /\ Good(r) /\ OnlyPanel(s, r, p) /\ r.panel[p] # NULL
          /\ r.panel[p].output = o
          /\ r.panel[p].layer_output = lo /\ lo.workspace = k
      <3> HIDE DEF r
      <3> QED BY <2>3, <2>7, <2>8 DEF u
    <2> QED BY <2>9 DEF lo
  <1> QED BY <1>2, <1>3

\* A panel that is removed is unlinked, and the others are placed without it
\* (wlmtk_layer_remove_panel).
LEMMA RemovePanelGood ==
    ASSUME NEW s, Good(s), NEW p \in Panel, s.panel[p] # NULL,
           s.panel[p].layer_output # NULL
    PROVE  LET r == RemovePanel(s, p) IN
           /\ Good(r)
           /\ OnlyPanel(s, r, p)
           /\ r.panel[p] # NULL
           /\ r.panel[p].output = s.panel[p].output
           /\ r.panel[p].layer_output = NULL
  <1> DEFINE lo == s.panel[p].layer_output
             r == RemovePanel(s, p)
             b == [s.panel[p] EXCEPT !.layer_output = NULL]
             a == [b EXCEPT !.box = NULL]
             list == Remove(s.panels[lo], p)
  <1>1. s \in StateType /\ s.panel[p] \in PanelStates /\ PanelAgrees(s, p)
    BY GoodParts
  <1>2. lo \in LayerOutput /\ p \in Members(s.panels[lo])
    BY <1>1 DEF PanelStates, PanelAgrees
  <1>3. /\ a \in PanelStates /\ a.output = s.panel[p].output
        /\ a.layer_output = NULL /\ a.box = NULL
    <2>1. b = [output |-> s.panel[p].output, layer_output |-> NULL, box |-> s.panel[p].box,
               visible |-> s.panel[p].visible, positioning |-> s.panel[p].positioning]
      BY <1>1, PanelFields
    <2>2. a = [output |-> s.panel[p].output, layer_output |-> NULL, box |-> NULL,
               visible |-> s.panel[p].visible, positioning |-> s.panel[p].positioning]
      <3> HIDE DEF b
      <3> QED BY <2>1
    <2> HIDE DEF a
    <2> QED BY <1>1, <2>2 DEF PanelStates
  <1>4. r = Reconfigure(WithList(s, p, a, lo, list), {lo})
    <2>1. [s EXCEPT !.panels[lo] = Remove(@, p), !.panel[p].layer_output = NULL,
                    !.panel[p].box = NULL] = WithList(s, p, a, lo, list)
      <3> DEFINE one == [s EXCEPT !.panels[lo] = Remove(@, p)]
                 two == [one EXCEPT !.panel[p].layer_output = NULL]
                 three == [two EXCEPT !.panel[p].box = NULL]
                 lists == [s.panels EXCEPT ![lo] = list]
      <3>1. one = [s EXCEPT !.panels = lists]
        BY DEF StateType
      <3> HIDE DEF lists, list
      <3>2. one.panel = s.panel /\ one = [one EXCEPT !.panels = lists]
        BY <1>1, <3>1 DEF StateType
      <3>3. two = [one EXCEPT !.panel = [s.panel EXCEPT ![p] = b]]
        BY <3>2
      <3> DEFINE af == [s.panel EXCEPT ![p] = b]
      <3>4. two = [s EXCEPT !.panels = lists, !.panel = af]
        BY <1>1, <3>1, <3>3 DEF StateType
      <3>5. af[p] = b /\ [af EXCEPT ![p] = a] = [s.panel EXCEPT ![p] = a]
        BY <1>1 DEF StateType
      <3> HIDE DEF af, b
      <3>6. two.panel = af
        BY <1>1, <3>4 DEF StateType
      <3>7. three = [two EXCEPT !.panel = [af EXCEPT ![p] = a]]
        BY <3>5, <3>6
      <3> HIDE DEF a
      <3> DEFINE ag == [s.panel EXCEPT ![p] = a]
      <3>8. three = [s EXCEPT !.panels = lists, !.panel = ag]
        <4>1. three = [two EXCEPT !.panel = ag]
          BY <3>5, <3>7
        <4> HIDE DEF ag, three
        <4> QED BY <1>1, <3>4, <4>1 DEF StateType
      <3>9. three = WithList(s, p, a, lo, list)
        BY <1>1, <3>8 DEF WithList, StateType, lists
      <3> QED BY <3>9
    <2> QED BY <2>1 DEF RemovePanel
  <1>5. s.panels[lo] \in Seq(Panel) /\ Unique(s.panels[lo])
    BY <1>2, GoodParts
  <1>6. /\ list \in Seq(Panel) /\ Members(list) = Members(s.panels[lo]) \ {p}
        /\ Unique(list)
    BY <1>2, <1>5, RemoveMembers, RemoveType
  <1>7. Members(list) \ {p} = Members(s.panels[lo]) \ {p} /\ p \notin Members(list)
    BY <1>6
  <1>8. Loose(a)
    BY <1>3 DEF Loose
  <1>9. s.panel[p] # NULL => s.panel[p].layer_output \in {lo, NULL}
    OBVIOUS
  <1> DEFINE u == Reconfigure(WithList(s, p, a, lo, list), {lo})
  <1>10. Good(u) /\ OnlyPanel(s, u, p) /\ u.panel[p] # NULL /\ SamePanel(u.panel[p], a)
    <2> HIDE DEF list, lo, a
    <2> QED BY <1>2, <1>3, <1>6, <1>7, <1>8, <1>9, WithListGood
  <1> QED BY <1>3, <1>4, <1>10 DEF SamePanel

\* Two handlers that touch only panel p do so together.
LEMMA OnlyPanelTwice ==
    ASSUME NEW s, NEW t, NEW r, NEW p, OnlyPanel(s, t, p), OnlyPanel(t, r, p)
    PROVE  OnlyPanel(s, r, p)
  <1>1. SameOutputs(s, r) /\ r.extents = s.extents /\ r.failed = s.failed
    BY DEF OnlyPanel, SameOutputs
  <1>2. ASSUME NEW q \in Panel \ {p}
        PROVE  /\ s.panel[q] = NULL <=> r.panel[q] = NULL
               /\ s.panel[q] # NULL => SamePanel(r.panel[q], s.panel[q])
    BY DEF OnlyPanel, SamePanel
  <1> QED BY <1>1, <1>2 DEF OnlyPanel

\* A panel that is destroyed leaves no link to it (_wlmaker_layer_panel_destroy).
LEMMA DestroyPanelGood ==
    ASSUME NEW s, Good(s), NEW p \in Panel, s.panel[p] # NULL
    PROVE  LET r == DestroyPanel(s, p) IN
           Good(r) /\ OnlyPanel(s, r, p) /\ r.panel[p] = NULL
  <1> DEFINE removed == IF s.panel[p].layer_output = NULL THEN s ELSE RemovePanel(s, p)
  <1>1. /\ Good(removed) /\ OnlyPanel(s, removed, p)
        /\ removed.panel[p] # NULL /\ removed.panel[p].layer_output = NULL
    <2>1. CASE s.panel[p].layer_output = NULL
      <3>1. OnlyPanel(s, s, p)
        BY DEF OnlyPanel, SameOutputs, SamePanel
      <3> QED BY <2>1, <3>1
    <2>2. CASE s.panel[p].layer_output # NULL
      BY <2>2, RemovePanelGood
    <2> QED BY <2>1, <2>2
  <1> DEFINE r == WithPanel(removed, p, NULL)
  <1>2. DestroyPanel(s, p) = r
    BY DEF DestroyPanel, WithPanel
  <1> HIDE DEF removed
  <1>3. Loose(removed.panel[p]) /\ Loose(NULL)
    BY <1>1, GoodParts DEF Loose, HasPlace
  <1>4. Good(r) /\ OnlyPanel(removed, r, p) /\ r.panel[p] = NULL
    BY <1>1, <1>3, WithPanelGood
  <1> QED BY <1>1, <1>2, <1>4, OnlyPanelTwice

\* A panel that moves to another layer or workspace is unlinked from the one it was on
\* (_wlmaker_layer_panel_apply_layer).
LEMMA ApplyLayerGood ==
    ASSUME NEW s, Good(s), NEW p \in Panel, s.panel[p] # NULL, NEW l \in Layer,
           current \in Workspace
    PROVE  LET r == ApplyLayer(s, p, l) IN
           /\ Good(r) /\ OnlyPanel(s, r, p) /\ r.panel[p] # NULL
           /\ \/ r.panel[p].layer_output = NULL
              \/ r.panel[p].layer_output.workspace = current
  <1> DEFINE lo == s.panel[p].layer_output
             r == ApplyLayer(s, p, l)
  <1>1. CASE lo = NULL
    <2>1. r = AddPanel(s, current, l, p)
      BY <1>1 DEF ApplyLayer
    <2> DEFINE u == AddPanel(s, current, l, p)
    <2>2. /\ Good(u) /\ OnlyPanel(s, u, p) /\ u.panel[p] # NULL
          /\ \/ u.panel[p].layer_output = NULL
             \/ u.panel[p].layer_output.workspace = current
      BY <1>1, AddPanelGood
    <2> QED BY <2>1, <2>2
  <1>2. CASE lo # NULL /\ lo.workspace = current /\ lo.layer = l
    <2>1. r = s
      BY <1>2 DEF ApplyLayer
    <2>2. OnlyPanel(s, s, p)
      BY DEF OnlyPanel, SameOutputs, SamePanel
    <2> QED BY <1>2, <2>1, <2>2
  <1>3. CASE lo # NULL /\ ~ (lo.workspace = current /\ lo.layer = l)
    <2> DEFINE t == RemovePanel(s, p)
    <2>1. r = AddPanel(t, current, l, p)
      BY <1>3 DEF ApplyLayer
    <2>2. Good(t) /\ OnlyPanel(s, t, p) /\ t.panel[p] # NULL /\ t.panel[p].layer_output = NULL
      BY <1>3, RemovePanelGood
    <2> HIDE DEF t
    <2> DEFINE u == AddPanel(t, current, l, p)
    <2>3. /\ Good(u) /\ OnlyPanel(t, u, p) /\ u.panel[p] # NULL
          /\ \/ u.panel[p].layer_output = NULL
             \/ u.panel[p].layer_output.workspace = current
      BY <2>2, AddPanelGood
    <2> QED BY <2>1, <2>2, <2>3, OnlyPanelTwice
  <1> QED BY <1>1, <1>2, <1>3

-----------------------------------------------------------------------------
(* What the layers' output trackers do.                                    *)

\* Layer outputs that are destroyed take the panels on them along, and no other one
\* (_wlmtk_layer_output_destroy).
LEMMA DestroyLayerOutputsGood ==
    ASSUME NEW s, Good(s), NEW los \in SUBSET LayerOutput
    PROVE  LET r == DestroyLayerOutputs(s, los) IN
           /\ Good(r)
           /\ SameOutputs(s, r) /\ r.extents = s.extents /\ r.failed = s.failed
           /\ \A lo \in los : r.panels[lo] = <<>>
           /\ \A p \in Panel :
                  r.panel[p] = IF s.panel[p] = NULL \/ s.panel[p].layer_output \in los
                               THEN NULL ELSE s.panel[p]
  <1> DEFINE lost(p) == \E lo \in los : p \in Members(s.panels[lo])
             lists == [lo \in LayerOutput |-> IF lo \in los THEN <<>> ELSE s.panels[lo]]
             after == [p \in Panel |-> IF lost(p) THEN NULL ELSE s.panel[p]]
             r == DestroyLayerOutputs(s, los)
  <1>1. s \in StateType
    BY GoodParts
  <1>2. r = [s EXCEPT !.panels = lists, !.panel = after]
    BY <1>1 DEF DestroyLayerOutputs, StateType
  <1>3. ASSUME NEW p \in Panel
        PROVE  after[p] = IF s.panel[p] = NULL \/ s.panel[p].layer_output \in los
                          THEN NULL ELSE s.panel[p]
    <2>1. ASSUME lost(p) PROVE s.panel[p] # NULL /\ s.panel[p].layer_output \in los
      BY <2>1, GoodParts
    <2>2. ASSUME s.panel[p] # NULL, s.panel[p].layer_output \in los PROVE lost(p)
      <3>1. s.panel[p].layer_output # NULL
        BY <2>2, NullAssumption
      <3>2. p \in Members(s.panels[s.panel[p].layer_output])
        BY <2>2, <3>1, GoodParts DEF PanelAgrees
      <3> QED BY <2>2, <3>2
    <2> QED BY <2>1, <2>2
  <1>4. lists \in [LayerOutput -> Seq(Panel)] /\ after \in [Panel -> PanelStates \cup {NULL}]
    BY <1>1 DEF StateType
  <1>5. \A lo \in LayerOutput : lists[lo] = IF lo \in los THEN <<>> ELSE s.panels[lo]
    OBVIOUS
  <1> HIDE DEF lists, after, lost
  <1>6. /\ r \in StateType /\ r.panels = lists /\ r.panel = after
        /\ SameOutputs(s, r) /\ r.extents = s.extents /\ r.failed = s.failed
    BY <1>1, <1>2, <1>4 DEF StateType, SameOutputs
  <1> HIDE DEF r
  <1>7. ASSUME NEW lo \in LayerOutput, NEW p \in Members(lists[lo])
        PROVE  /\ p \in Panel /\ lo \notin los
               /\ s.panel[p] # NULL /\ s.panel[p].layer_output = lo
               /\ after[p] = s.panel[p]
    <2>1. lists[lo] = s.panels[lo] /\ lo \notin los
      BY <1>5 DEF Members
    <2>2. p \in Panel /\ s.panel[p] # NULL /\ s.panel[p].layer_output = lo
      BY <2>1, GoodParts
    <2> QED BY <1>3, <2>1, <2>2
  <1>8. ListsAgree(r)
    <2>1. ASSUME NEW lo \in LayerOutput PROVE Unique(lists[lo])
      <3>1. Unique(s.panels[lo]) /\ Unique(<<>>)
        BY GoodParts DEF Unique
      <3> QED BY <1>5, <3>1
    <2> QED BY <1>6, <1>7, <2>1 DEF ListsAgree
  <1>9. ASSUME NEW p \in Panel, r.panel[p] # NULL PROVE PanelAgrees(r, p) /\ HasPlace(r, p)
    <2> DEFINE lo == s.panel[p].layer_output
    <2>1. r.panel[p] = s.panel[p] /\ s.panel[p] # NULL /\ lo \notin los
      BY <1>3, <1>6, <1>9
    <2>2. PanelAgrees(s, p) /\ HasPlace(s, p) /\ lo \in LayerOutput \cup {NULL}
      BY <2>1, GoodParts DEF PanelStates
    <2>3. lo # NULL => lists[lo] = s.panels[lo]
      BY <1>5, <2>1, <2>2
    <2>4. PanelAgrees(r, p)
      BY <1>6, <2>1, <2>2, <2>3 DEF PanelAgrees
    <2>5. HasPlace(r, p)
      BY <2>1, <2>2 DEF HasPlace
    <2> QED BY <2>4, <2>5
  <1>10. ASSUME NEW lo \in LayerOutput PROVE ListPlaced(r, lo)
    <2>1. CASE lo \in los
      BY <1>5, <1>6, <2>1 DEF ListPlaced
    <2>2. CASE lo \notin los
      <3>1. lists[lo] = s.panels[lo] /\ ListPlaced(s, lo)
        BY <1>5, <2>2, GoodParts
      <3> QED BY <1>6, <1>7, <3>1, ListStaysPlaced
    <2> QED BY <2>1, <2>2
  <1>11. Good(r)
    BY <1>6, <1>8, <1>9, <1>10 DEF Good
  <1> QED BY <1>3, <1>5, <1>6, <1>11 DEF r

\* Panels that are lost with their output, when the outputs left are those given.
LosesOutput(s, p, outputs) ==
    s.panel[p].layer_output # NULL /\ s.panel[p].layer_output.output \notin outputs

\* The trackers destroy the panels of outputs that are gone, and no other panel, and
\* place those of outputs with other extents (wlmtk_output_tracker).
LEMMA TrackOutputsGood ==
    ASSUME NEW s, Good(s), NEW boxes, DOMAIN boxes \subseteq Output,
           \A o \in DOMAIN boxes : boxes[o] \in Extents
    PROVE  LET r == TrackOutputs(s, boxes) IN
           /\ Good(r)
           /\ SameOutputs(s, r) /\ r.failed = s.failed
           /\ \A o \in Output :
                  r.extents[o] = IF o \in DOMAIN boxes THEN boxes[o] ELSE NULL
           /\ \A p \in Panel :
                  IF s.panel[p] = NULL \/ LosesOutput(s, p, DOMAIN boxes)
                  THEN r.panel[p] = NULL
                  ELSE r.panel[p] # NULL /\ SamePanel(r.panel[p], s.panel[p])
  <1> DEFINE gone == OnOutputs(Output \ DOMAIN boxes)
             extent == [o \in Output |-> IF o \in DOMAIN boxes THEN boxes[o] ELSE NULL]
             u == DestroyLayerOutputs(s, gone)
             t == [u EXCEPT !.extents = extent]
             los == {lo \in LayerOutput : /\ lo.output \in DOMAIN boxes
                                          /\ boxes[lo.output] # s.extents[lo.output]}
             r == TrackOutputs(s, boxes)
  <1>1. r = Reconfigure(t, los)
    BY DEF TrackOutputs
  <1>2. gone \in SUBSET LayerOutput
    BY DEF OnOutputs
  <1>3. ASSUME NEW lo \in LayerOutput
        PROVE  /\ lo.output \in Output
               /\ lo \in gone <=> lo.output \notin DOMAIN boxes
    BY DEF OnOutputs, LayerOutput
  <1>4. /\ Good(u)
        /\ SameOutputs(s, u) /\ u.extents = s.extents /\ u.failed = s.failed
        /\ \A lo \in gone : u.panels[lo] = <<>>
        /\ \A p \in Panel :
               u.panel[p] = IF s.panel[p] = NULL \/ s.panel[p].layer_output \in gone
                            THEN NULL ELSE s.panel[p]
    <2> HIDE DEF gone
    <2> QED BY <1>2, DestroyLayerOutputsGood
  <1> HIDE DEF u, gone
  <1>5. extent \in [Output -> Extents \cup {NULL}]
    OBVIOUS
  <1>6. \A o \in Output : extent[o] = IF o \in DOMAIN boxes THEN boxes[o] ELSE NULL
    OBVIOUS
  <1> HIDE DEF extent
  <1>7. /\ t \in StateType /\ SameOutputs(s, t) /\ t.failed = s.failed
        /\ t.extents = extent /\ t.panels = u.panels /\ t.panel = u.panel
    <2>1. u \in StateType
      BY <1>4, GoodParts
    <2> QED BY <1>4, <1>5, <2>1 DEF StateType, SameOutputs
  <1> HIDE DEF t, r
  <1>8. ListsAgree(t)
    BY <1>4, <1>7, GoodParts DEF ListsAgree
  <1>9. ASSUME NEW p \in Panel, t.panel[p] # NULL
        PROVE  PanelAgrees(t, p) /\ HasPlace(t, p)
    <2> DEFINE lo == u.panel[p].layer_output
    <2>1. /\ u.panel[p] # NULL /\ PanelAgrees(u, p) /\ HasPlace(u, p)
          /\ lo \in LayerOutput \cup {NULL} /\ lo \notin gone
      BY <1>4, <1>7, <1>9, GoodParts DEF PanelStates
    <2>2. lo # NULL => extent[lo.output] # NULL
      <3>1. \A o \in DOMAIN boxes : boxes[o] # NULL
        BY NullAssumption DEF Extents, Places
      <3> QED BY <1>3, <1>6, <2>1, <3>1
    <2>3. PanelAgrees(t, p)
      BY <1>7, <2>1, <2>2 DEF PanelAgrees
    <2>4. HasPlace(t, p)
      BY <1>7, <2>1 DEF HasPlace
    <2> QED BY <2>3, <2>4
  <1>10. ASSUME NEW lo \in LayerOutput \ los PROVE ListPlaced(t, lo)
    <2>1. CASE lo \in gone
      BY <1>4, <1>7, <2>1 DEF ListPlaced
    <2>2. CASE lo \notin gone
      <3>1. extent[lo.output] = u.extents[lo.output]
        BY <1>3, <1>4, <1>6, <2>2
      <3>2. ListPlaced(u, lo)
        BY <1>4, GoodParts
      <3> QED BY <1>7, <3>1, <3>2, ListStaysPlaced
    <2> QED BY <2>1, <2>2
  <1>11. Good(r) /\ BoxesOnly(t, r)
    <2>1. los \in SUBSET LayerOutput
      OBVIOUS
    <2> HIDE DEF los
    <2> QED BY <1>1, <1>7, <1>8, <1>9, <1>10, <2>1, ReconfigureGood
  <1>12. ASSUME NEW p \in Panel
         PROVE  IF s.panel[p] = NULL \/ LosesOutput(s, p, DOMAIN boxes)
                THEN r.panel[p] = NULL
                ELSE r.panel[p] # NULL /\ SamePanel(r.panel[p], s.panel[p])
    <2>1. s.panel[p] # NULL => s.panel[p].layer_output \in LayerOutput \cup {NULL}
      BY GoodParts DEF PanelStates
    <2>2. s.panel[p] # NULL =>
              (LosesOutput(s, p, DOMAIN boxes) <=> s.panel[p].layer_output \in gone)
      BY <1>2, <1>3, <2>1, NullAssumption DEF LosesOutput
    <2>3. /\ u.panel[p] = NULL <=> r.panel[p] = NULL
          /\ u.panel[p] # NULL => SamePanel(r.panel[p], u.panel[p])
      BY <1>7, <1>11 DEF BoxesOnly
    <2> QED BY <1>4, <2>2, <2>3
  <1>13. SameOutputs(s, r) /\ r.failed = s.failed /\ r.extents = extent
    BY <1>7, <1>11 DEF BoxesOnly, SameOutputs
  <1> QED BY <1>6, <1>11, <1>12, <1>13 DEF r

-----------------------------------------------------------------------------
(* What is done to docks.                                                  *)

\* Only the panels in P are different, except for boxes; an assertion may fail.
OnlyPanels(s, r, P) ==
    /\ SameOutputs(s, r)
    /\ r.extents = s.extents
    /\ s.failed => r.failed
    /\ \A q \in Panel \ P :
           /\ s.panel[q] = NULL <=> r.panel[q] = NULL
           /\ s.panel[q] # NULL => SamePanel(r.panel[q], s.panel[q])

\* Where dock d is to be when k is the current workspace.
Shown(l, k, d) ==
    IF l = <<>> THEN {NULL}
    ELSE {lo \in LayerOutput : /\ lo.workspace = k
                               /\ lo.layer = TopLayer
                               /\ lo.output \in Preferred[d] \cup {Primary(l)}
                               /\ lo.output \in InLayout(l)}

\* A state that stays differs in no panel.
LEMMA OnlyPanelsStay ==
    ASSUME NEW s, NEW P
    PROVE  OnlyPanels(s, s, P)
  BY DEF OnlyPanels, SameOutputs, SamePanel

\* Two handlers touch the panels that either does.
LEMMA OnlyPanelsTwice ==
    ASSUME NEW s, NEW t, NEW r, NEW P, NEW Q, OnlyPanels(s, t, P), OnlyPanels(t, r, Q)
    PROVE  OnlyPanels(s, r, P \cup Q)
  <1>1. SameOutputs(s, r) /\ r.extents = s.extents /\ (s.failed => r.failed)
    BY DEF OnlyPanels, SameOutputs
  <1>2. ASSUME NEW q \in Panel \ (P \cup Q)
        PROVE  /\ s.panel[q] = NULL <=> r.panel[q] = NULL
               /\ s.panel[q] # NULL => SamePanel(r.panel[q], s.panel[q])
    BY DEF OnlyPanels, SamePanel
  <1> QED BY <1>1, <1>2 DEF OnlyPanels

\* One panel is a set of one.
LEMMA OnlyPanelIsOne ==
    ASSUME NEW s, NEW r, NEW p, OnlyPanel(s, r, p)
    PROVE  OnlyPanels(s, r, {p})
  BY DEF OnlyPanel, OnlyPanels

\* Clip and dock are panels, each is created once.
LEMMA DocksArePanels ==
    Docks \subseteq Panel /\ Dock \in Seq(Docks) /\ Unique(Dock)
  <1>1. Dock \in Seq(Panel) /\ Unique(Dock)
    BY DockAssumption
  <1>2. Docks \subseteq Panel
    BY <1>1, MembersType DEF Docks
  <1>3. \A i \in 1..Len(Dock) : Dock[i] \in Docks
    BY <1>1 DEF Docks, Members
  <1>4. Dock \in Seq(Docks)
    BY <1>1, <1>3
  <1> QED BY <1>1, <1>2, <1>4

\* If there is an output, docks find one, which they prefer or which is the primary one
\* (wlmbe_output_description_first_fnmatch, wlmbe_primary_output).
LEMMA DockOutputIsThere ==
    ASSUME NEW l \in Seq(Entries), NEW d \in Docks
    PROVE  IF l = <<>> THEN DockOutput(l, d) = NULL /\ Primary(l) = NULL
           ELSE /\ DockOutput(l, d) \in InLayout(l)
                /\ DockOutput(l, d) \in Preferred[d] \cup {Primary(l)}
                /\ Primary(l) \in InLayout(l)
                /\ InLayout(l) \subseteq Output
  <1> DEFINE matching == {i \in DOMAIN l : l[i].output \in Preferred[d]}
  <1>1. CASE l = <<>>
    BY <1>1 DEF DockOutput, Primary
  <1>2. CASE l # <<>>
    <2>1. 1 \in DOMAIN l /\ DOMAIN l = 1..Len(l) /\ Head(l) = l[1]
      BY <1>2
    <2>2. Primary(l) \in InLayout(l)
      BY <1>2, <2>1 DEF Primary, InLayout
    <2>3. \A i \in DOMAIN l : l[i].output \in InLayout(l) /\ l[i].output \in Output
      <3>1. \A i \in DOMAIN l : l[i] \in Entries
        BY <2>1
      <3> QED BY <3>1 DEF InLayout, Entries
    <2>4. CASE matching = {}
      BY <1>2, <2>2, <2>3, <2>4 DEF DockOutput, InLayout
    <2>5. CASE matching # {}
      <3>1. matching \subseteq Nat
        BY <2>1
      <3>2. PICK i \in matching : \A j \in matching : i <= j
        <4> HIDE DEF matching
        <4> QED BY <2>5, <3>1, LeastElement
      <3>3. Min(matching) \in matching
        BY <3>2 DEF Min
      <3>4. DockOutput(l, d) = l[Min(matching)].output
        BY <2>5 DEF DockOutput
      <3> QED BY <1>2, <2>2, <2>3, <3>3, <3>4 DEF InLayout
    <2> QED BY <2>4, <2>5
  <1> QED BY <1>1, <1>2

\* An assertion that fails leaves the lists and panels alone.
LEMMA FailedGood ==
    ASSUME NEW s, Good(s)
    PROVE  LET r == [s EXCEPT !.failed = TRUE] IN
           /\ Good(r)
           /\ r.failed /\ r.panel = s.panel
           /\ \A P : OnlyPanels(s, r, P)
  <1> DEFINE r == [s EXCEPT !.failed = TRUE]
  <1>1. s \in StateType
    BY GoodParts
  <1>2. /\ r \in StateType /\ r.failed /\ r.panel = s.panel /\ r.panels = s.panels
        /\ r.extents = s.extents /\ SameOutputs(s, r)
    BY <1>1 DEF StateType, SameOutputs
  <1> HIDE DEF r
  <1>3. Good(r)
    <2>1. ListsAgree(r)
      BY <1>2, GoodParts DEF ListsAgree
    <2>2. \A p \in Panel : r.panel[p] # NULL => PanelAgrees(r, p) /\ HasPlace(r, p)
      BY <1>2, GoodParts DEF PanelAgrees, HasPlace
    <2>3. ASSUME NEW lo \in LayerOutput PROVE ListPlaced(r, lo)
      <3>1. ListPlaced(s, lo)
        BY GoodParts
      <3> QED BY <1>2, <3>1 DEF ListPlaced
    <2> QED BY <1>2, <2>1, <2>2, <2>3 DEF Good
  <1>4. ASSUME NEW P PROVE OnlyPanels(s, r, P)
    BY <1>2 DEF OnlyPanels, SamePanel
  <1> QED BY <1>2, <1>3, <1>4 DEF r

\* A dock without a layer is on the top layer of output o, or an assertion failed
\* (BS_ASSERT(wlmtk_layer_add_panel(...))).
LEMMA AttachGood ==
    ASSUME NEW s, Good(s), NEW k \in Workspace, NEW d \in Docks, s.panel[d] # NULL,
           s.panel[d].layer_output = NULL, NEW o \in Output \cup {NULL}
    PROVE  LET r == Attach(s, k, d, o) IN
           /\ Good(r)
           /\ OnlyPanels(s, r, {d})
           /\ r.panel[d] # NULL
           /\ \/ r.failed
              \/ /\ o # NULL
                 /\ r.panel[d].layer_output =
                        [workspace |-> k, layer |-> TopLayer, output |-> o]
  <1> DEFINE r == Attach(s, k, d, o)
  <1>0. d \in Panel /\ TopLayer \in Layer
    BY DocksArePanels, DockAssumption
  <1>1. CASE o = NULL \/ (o # NULL /\ s.extents[o] = NULL)
    <2> DEFINE t == [s EXCEPT !.failed = TRUE]
    <2>1. r = t
      BY <1>1 DEF Attach
    <2>2. Good(t) /\ t.failed /\ t.panel = s.panel /\ OnlyPanels(s, t, {d})
      BY FailedGood
    <2> QED BY <2>1, <2>2
  <1>2. CASE o # NULL /\ s.extents[o] # NULL
    <2> DEFINE a == [s.panel[d] EXCEPT !.output = o]
               t == WithPanel(s, d, a)
               u == AddPanel(t, k, TopLayer, d)
    <2>1. r = u
      <3>1. [s EXCEPT !.panel[d].output = o] = t
        BY DEF WithPanel
      <3> QED BY <1>2, <3>1 DEF Attach
    <2>2. s.panel[d] \in PanelStates /\ HasPlace(s, d)
      BY <1>0, GoodParts
    <2>3. a \in PanelStates /\ a.output = o /\ a.layer_output = NULL /\ a.box = NULL
      BY <2>2, PanelFields DEF PanelStates, HasPlace
    <2>4. Loose(s.panel[d]) /\ Loose(a) /\ a # NULL
      BY <2>2, <2>3, NullAssumption DEF Loose, HasPlace
    <2> HIDE DEF a
    <2>5. Good(t) /\ OnlyPanel(s, t, d) /\ t.panel[d] = a
      BY <1>0, <2>3, <2>4, WithPanelGood
    <2> HIDE DEF t
    <2>6. /\ Good(u) /\ OnlyPanel(t, u, d) /\ u.panel[d] # NULL
          /\ o # NULL /\ t.extents[o] # NULL =>
                 u.panel[d].layer_output = [workspace |-> k, layer |-> TopLayer, output |-> o]
      <3>1. t.panel[d] # NULL /\ t.panel[d].layer_output = NULL /\ t.panel[d].output = o
        BY <2>3, <2>4, <2>5
      <3> QED BY <1>0, <2>5, <3>1, AddPanelGood
    <2>7. t.extents[o] # NULL
      BY <1>2, <2>5 DEF OnlyPanel
    <2>8. OnlyPanels(s, u, {d})
      BY <2>5, <2>6, OnlyPanelTwice, OnlyPanelIsOne
    <2> QED BY <1>2, <2>1, <2>6, <2>7, <2>8
  <1> QED BY <1>1, <1>2

\* A dock that is attached to an output where it is to be is shown.
LEMMA AttachShows ==
    ASSUME NEW s, Good(s), NEW k \in Workspace, NEW d \in Docks, s.panel[d] # NULL,
           s.panel[d].layer_output = NULL,
           NEW o \in {DockOutput(s.layout, d), Primary(s.layout)}
    PROVE  LET r == Attach(s, k, d, o) IN
           /\ Good(r)
           /\ OnlyPanels(s, r, {d})
           /\ r.panel[d] # NULL
           /\ r.failed \/ r.panel[d].layer_output \in Shown(r.layout, k, d)
  <1> DEFINE r == Attach(s, k, d, o)
             lo == [workspace |-> k, layer |-> TopLayer, output |-> o]
  <1>1. s.layout \in Seq(Entries) /\ TopLayer \in Layer
    BY GoodParts, DockAssumption DEF StateType
  <1>2. IF s.layout = <<>> THEN o = NULL
        ELSE /\ o \in InLayout(s.layout)
             /\ o \in Preferred[d] \cup {Primary(s.layout)}
             /\ o \in Output
    BY <1>1, DockOutputIsThere
  <1>3. o \in Output \cup {NULL}
    BY <1>2
  <1>4. /\ Good(r)
        /\ OnlyPanels(s, r, {d})
        /\ r.panel[d] # NULL
        /\ r.failed \/ (o # NULL /\ r.panel[d].layer_output = lo)
    BY <1>3, AttachGood
  <1>5. r.layout = s.layout
    BY <1>4 DEF OnlyPanels, SameOutputs
  <1>6. ASSUME o # NULL PROVE lo \in Shown(s.layout, k, d)
    <2>1. s.layout # <<>> /\ o \in Output
      BY <1>2, <1>6
    <2>2. lo \in LayerOutput
      BY <1>1, <2>1 DEF LayerOutput
    <2> QED BY <1>2, <2>1, <2>2 DEF Shown
  <1> QED BY <1>4, <1>5, <1>6

\* A dock leaves its layer and is attached again.
LEMMA AttachAgainShows ==
    ASSUME NEW s, Good(s), NEW k \in Workspace, NEW d \in Docks, s.panel[d] # NULL,
           s.panel[d].layer_output # NULL,
           NEW o \in {DockOutput(s.layout, d), Primary(s.layout)}
    PROVE  LET r == Attach(RemovePanel(s, d), k, d, o) IN
           /\ Good(r)
           /\ OnlyPanels(s, r, {d})
           /\ r.panel[d] # NULL
           /\ r.failed \/ r.panel[d].layer_output \in Shown(r.layout, k, d)
  <1> DEFINE t == RemovePanel(s, d)
             r == Attach(t, k, d, o)
  <1>1. /\ Good(t) /\ OnlyPanel(s, t, d)
        /\ t.panel[d] # NULL /\ t.panel[d].layer_output = NULL
    BY DocksArePanels, RemovePanelGood
  <1> HIDE DEF t
  <1>2. t.layout = s.layout
    BY <1>1 DEF OnlyPanel, SameOutputs
  <1>3. /\ Good(r)
        /\ OnlyPanels(t, r, {d})
        /\ r.panel[d] # NULL
        /\ r.failed \/ r.panel[d].layer_output \in Shown(r.layout, k, d)
    BY <1>1, <1>2, AttachShows
  <1> HIDE DEF r
  <1>4. OnlyPanels(s, r, {d} \cup {d})
    BY <1>1, <1>3, OnlyPanelIsOne, OnlyPanelsTwice
  <1>5. {d} \cup {d} = {d}
    OBVIOUS
  <1> QED BY <1>3, <1>4, <1>5 DEF r, t

\* The event of the layout takes a dock to an output of the layout, on the same workspace
\* (_wlmaker_dock_handle_output_layout_change).
LEMMA ChangeOutputShows ==
    ASSUME NEW s, Good(s), NEW k \in Workspace, NEW d \in Docks, s.panel[d] # NULL,
           \/ s.failed
           \/ s.panel[d].layer_output # NULL => s.panel[d].layer_output.workspace = k
    PROVE  LET r == ChangeOutput(s, d) IN
           /\ Good(r)
           /\ OnlyPanels(s, r, {d})
           /\ r.panel[d] # NULL
           /\ r.failed \/ r.panel[d].layer_output \in Shown(r.layout, k, d)
  <1> DEFINE lo == s.panel[d].layer_output
             o == DockOutput(s.layout, d)
             r == ChangeOutput(s, d)
  <1>1. CASE s.failed
    <2>1. r = s
      BY <1>1 DEF ChangeOutput
    <2> QED BY <1>1, <2>1, OnlyPanelsStay
  <1>2. CASE ~ s.failed /\ lo = NULL
    <2> DEFINE t == [s EXCEPT !.failed = TRUE]
    <2>1. r = t
      BY <1>2 DEF ChangeOutput
    <2>2. Good(t) /\ t.failed /\ t.panel = s.panel /\ OnlyPanels(s, t, {d})
      BY FailedGood
    <2> QED BY <2>1, <2>2
  <1>3. CASE ~ s.failed /\ lo # NULL /\ o = NULL
    <2> DEFINE t == RemovePanel(s, d)
    <2>1. r = t
      BY <1>3 DEF ChangeOutput
    <2>2. /\ Good(t) /\ OnlyPanel(s, t, d)
          /\ t.panel[d] # NULL /\ t.panel[d].layer_output = NULL
      BY <1>3, DocksArePanels, RemovePanelGood
    <2> HIDE DEF t
    <2>3. s.layout = <<>>
      <3>1. s.layout \in Seq(Entries)
        BY GoodParts DEF StateType
      <3> QED BY <1>3, <3>1, DockOutputIsThere, NullAssumption
    <2>4. t.panel[d].layer_output \in Shown(t.layout, k, d)
      BY <2>2, <2>3 DEF OnlyPanel, SameOutputs, Shown
    <2>5. OnlyPanels(s, t, {d})
      BY <2>2, OnlyPanelIsOne
    <2> QED BY <2>1, <2>2, <2>4, <2>5
  <1>4. CASE ~ s.failed /\ lo # NULL /\ o # NULL
    <2> DEFINE u == Attach(RemovePanel(s, d), k, d, o)
    <2>1. r = u
      BY <1>4 DEF ChangeOutput
    <2>2. /\ Good(u)
          /\ OnlyPanels(s, u, {d})
          /\ u.panel[d] # NULL
          /\ u.failed \/ u.panel[d].layer_output \in Shown(u.layout, k, d)
      BY <1>4, AttachAgainShows
    <2> QED BY <2>1, <2>2
  <1> QED BY <1>1, <1>2, <1>3, <1>4

\* The event of workspaces takes a dock to workspace k, from c
\* (_wlmaker_dock_handle_workspace_changed).
LEMMA ChangeWorkspaceShows ==
    ASSUME NEW s, Good(s), NEW k \in Workspace, NEW c \in Workspace, NEW d \in Docks,
           s.panel[d] # NULL,
           s.failed \/ s.panel[d].layer_output \in Shown(s.layout, c, d)
    PROVE  LET r == ChangeWorkspace(s, k, d) IN
           /\ Good(r)
           /\ OnlyPanels(s, r, {d})
           /\ r.panel[d] # NULL
           /\ r.failed \/ r.panel[d].layer_output \in Shown(r.layout, k, d)
  <1> DEFINE lo == s.panel[d].layer_output
             o == Primary(s.layout)
             r == ChangeWorkspace(s, k, d)
  <1>1. CASE s.failed
    <2>1. r = s
      BY <1>1 DEF ChangeWorkspace
    <2> QED BY <1>1, <2>1, OnlyPanelsStay
  <1>2. CASE ~ s.failed /\ lo = NULL
    <2> DEFINE u == Attach(s, k, d, o)
    <2>1. r = u
      BY <1>2 DEF ChangeWorkspace
    <2>2. /\ Good(u)
          /\ OnlyPanels(s, u, {d})
          /\ u.panel[d] # NULL
          /\ u.failed \/ u.panel[d].layer_output \in Shown(u.layout, k, d)
      BY <1>2, AttachShows
    <2> QED BY <2>1, <2>2
  <1>3. CASE ~ s.failed /\ lo # NULL /\ lo.workspace = k
    <2>1. r = s
      BY <1>3 DEF ChangeWorkspace
    <2>2. lo \in Shown(s.layout, k, d)
      BY <1>3 DEF Shown
    <2> QED BY <1>3, <2>1, <2>2, OnlyPanelsStay
  <1>4. CASE ~ s.failed /\ lo # NULL /\ lo.workspace # k
    <2> DEFINE u == Attach(RemovePanel(s, d), k, d, o)
    <2>1. r = u
      BY <1>4 DEF ChangeWorkspace
    <2>2. /\ Good(u)
          /\ OnlyPanels(s, u, {d})
          /\ u.panel[d] # NULL
          /\ u.failed \/ u.panel[d].layer_output \in Shown(u.layout, k, d)
      BY <1>4, AttachAgainShows
    <2> QED BY <2>1, <2>2
  <1> QED BY <1>1, <1>2, <1>3, <1>4

\* What a dock commits has the type of a positioning (_wlmtk_dock_positioning).
LEMMA DockPositioningType ==
    ASSUME NEW d \in Docks, NEW width \in Nat
    PROVE  DockPositioning(d, width) \in Positionings
  <1> DEFINE w == IF width < 1 THEN 1 ELSE width
             vertical == Edge[d] \in {"left", "right"}
  <1>1. w \in Nat /\ w \in Int /\ 0 \in Int
    OBVIOUS
  <1>2. (IF vertical THEN Edge[d] ELSE NULL) \in {"left", "right", NULL}
    OBVIOUS
  <1>3. {"left", "right"} \cap {Edge[d], Anchor[d]} \in SUBSET {"left", "right"}
    OBVIOUS
  <1>4. DockPositioning(d, width) =
            [anchor |-> {"left", "right"} \cap {Edge[d], Anchor[d]}, width |-> w,
             zone |-> IF vertical THEN w ELSE 0,
             edge |-> IF vertical THEN Edge[d] ELSE NULL,
             margin |-> [left |-> 0, right |-> 0]]
    BY DEF DockPositioning
  <1> HIDE DEF w, vertical
  <1>5. (IF vertical THEN w ELSE 0) \in Int
    BY <1>1
  <1> QED BY <1>1, <1>2, <1>3, <1>4, <1>5 DEF Positionings

\* A dock that is created is shown (wlmaker_dock_create, wlmaker_clip_create).
LEMMA CreateDockShows ==
    ASSUME NEW s, Good(s), NEW k \in Workspace, NEW d \in Docks, s.panel[d] = NULL,
           NEW width \in Nat
    PROVE  LET r == CreateDock(s, k, d, width) IN
           /\ Good(r)
           /\ OnlyPanels(s, r, {d})
           /\ r.panel[d] # NULL
           /\ r.failed \/ r.panel[d].layer_output \in Shown(r.layout, k, d)
  <1> DEFINE a == [output |-> NULL, layer_output |-> NULL, box |-> NULL,
                   visible |-> TRUE, positioning |-> DockPositioning(d, width)]
             t == WithPanel(s, d, a)
             o == DockOutput(s.layout, d)
             r == Attach(t, k, d, o)
  <1>1. CreateDock(s, k, d, width) = r
    BY DEF CreateDock, WithPanel
  <1>2. a \in PanelStates /\ a.layer_output = NULL
    BY DockPositioningType DEF PanelStates
  <1>3. Loose(a) /\ Loose(s.panel[d]) /\ a # NULL
    BY <1>2, NullAssumption DEF Loose
  <1> HIDE DEF a
  <1>4. Good(t) /\ OnlyPanel(s, t, d) /\ t.panel[d] = a
    BY <1>2, <1>3, DocksArePanels, WithPanelGood
  <1> HIDE DEF t
  <1>5. t.layout = s.layout /\ t.panel[d] # NULL /\ t.panel[d].layer_output = NULL
    BY <1>2, <1>3, <1>4 DEF OnlyPanel, SameOutputs
  <1>6. /\ Good(r)
        /\ OnlyPanels(t, r, {d})
        /\ r.panel[d] # NULL
        /\ r.failed \/ r.panel[d].layer_output \in Shown(r.layout, k, d)
    BY <1>4, <1>5, AttachShows
  <1> HIDE DEF r
  <1>7. OnlyPanels(s, r, {d} \cup {d})
    BY <1>4, <1>6, OnlyPanelIsOne, OnlyPanelsTwice
  <1>8. {d} \cup {d} = {d}
    OBVIOUS
  <1> QED BY <1>1, <1>6, <1>7, <1>8

\* A dock with other tiles stays where it is (_wlmtk_dock_panel_request_size).
LEMMA ResizeShows ==
    ASSUME NEW s, Good(s), NEW k \in Workspace, NEW d \in Docks, s.panel[d] # NULL,
           s.failed \/ s.panel[d].layer_output \in Shown(s.layout, k, d),
           NEW width \in Nat
    PROVE  LET r == CommitPositioning(s, d, DockPositioning(d, width)) IN
           /\ Good(r)
           /\ OnlyPanels(s, r, {d})
           /\ r.panel[d] # NULL
           /\ r.failed \/ r.panel[d].layer_output \in Shown(r.layout, k, d)
  <1> DEFINE r == CommitPositioning(s, d, DockPositioning(d, width))
  <1>1. /\ Good(r) /\ OnlyPanel(s, r, d) /\ r.panel[d] # NULL
        /\ r.panel[d].layer_output = s.panel[d].layer_output
    BY DocksArePanels, DockPositioningType, CommitPositioningGood
  <1> HIDE DEF r
  <1>2. OnlyPanels(s, r, {d})
    BY <1>1, OnlyPanelIsOne
  <1>3. r.layout = s.layout /\ (s.failed => r.failed)
    BY <1>2 DEF OnlyPanels, SameOutputs
  <1> QED BY <1>1, <1>2, <1>3 DEF r

-----------------------------------------------------------------------------
(* What is done to docks, one after the other.                             *)

FirstDocks(docks, n) == {docks[i] : i \in 1..n}

\* What holds once the first i docks have had their turn.
Turned(start, docks, post, s, i) ==
    /\ Good(s)
    /\ OnlyPanels(start, s, FirstDocks(docks, i))
    /\ \A j \in 1..i : /\ s.panel[docks[j]] # NULL
                       /\ s.failed \/ s.panel[docks[j]].layer_output \in post[docks[j]]

Turns(start, docks, post) ==
    [i \in 0..Len(docks) |-> {s \in StateType : Turned(start, docks, post, s, i)}]

\* Handlers that each touch one dock only and take it to where it is to be, called for
\* one dock after the other, go through the sets of states Turns.
LEMMA InTurn ==
    ASSUME NEW docks \in Seq(Docks), Unique(docks), NEW start, Good(start), NEW post,
           NEW step,
           \A i \in 1..Len(docks) : \A s \in StateType :
               Good(s) /\ OnlyPanels(start, s, Panel \ {docks[i]}) =>
                   /\ Good(step[i][s])
                   /\ OnlyPanels(s, step[i][s], {docks[i]})
                   /\ step[i][s].panel[docks[i]] # NULL
                   /\ \/ step[i][s].failed
                      \/ step[i][s].panel[docks[i]].layer_output \in post[docks[i]]
    PROVE  Advances(Len(docks), Turns(start, docks, post), start, step)
  <1> DEFINE S == Turns(start, docks, post)
  <1>1. Len(docks) \in Nat /\ start \in StateType
    BY GoodParts
  <1>2. start \in S[0]
    BY <1>1, OnlyPanelsStay DEF Turns, Turned
  <1>3. ASSUME NEW i \in 1..Len(docks), NEW s \in S[i - 1] PROVE step[i][s] \in S[i]
    <2> DEFINE d == docks[i]
               r == step[i][s]
    <2>1. i - 1 \in 0..Len(docks) /\ i \in 0..Len(docks)
      OBVIOUS
    <2>2. s \in StateType /\ Turned(start, docks, post, s, i - 1)
      BY <2>1 DEF Turns
    <2>3. d \in Docks /\ d \in Panel
      BY DocksArePanels
    <2>4. d \notin FirstDocks(docks, i - 1)
      BY DEF FirstDocks, Unique
    <2>5. OnlyPanels(start, s, Panel \ {d})
      <3>1. OnlyPanels(start, s, FirstDocks(docks, i - 1))
        BY <2>2 DEF Turned
      <3> QED BY <2>4, <3>1 DEF OnlyPanels
    <2>6. /\ Good(r)
          /\ OnlyPanels(s, r, {d})
          /\ r.panel[d] # NULL
          /\ r.failed \/ r.panel[d].layer_output \in post[d]
      BY <2>2, <2>5 DEF Turned
    <2> HIDE DEF r
    <2>7. OnlyPanels(start, r, FirstDocks(docks, i))
      <3>1. FirstDocks(docks, i) = FirstDocks(docks, i - 1) \cup {d}
        <4>1. 1..i = 1..(i - 1) \cup {i}
          OBVIOUS
        <4> QED BY <4>1 DEF FirstDocks
      <3>2. OnlyPanels(start, s, FirstDocks(docks, i - 1))
        BY <2>2 DEF Turned
      <3> QED BY <2>6, <3>1, <3>2, OnlyPanelsTwice
    <2>8. ASSUME NEW j \in 1..i
          PROVE  /\ r.panel[docks[j]] # NULL
                 /\ r.failed \/ r.panel[docks[j]].layer_output \in post[docks[j]]
      <3>1. CASE j = i
        BY <2>6, <3>1
      <3>2. CASE j # i
        <4>1. j \in 1..(i - 1) /\ j \in 1..Len(docks)
          BY <3>2
        <4>2. docks[j] \in Panel /\ docks[j] # d
          BY <2>4, <4>1, DocksArePanels DEF FirstDocks
        <4>3. /\ s.panel[docks[j]] # NULL
              /\ s.failed \/ s.panel[docks[j]].layer_output \in post[docks[j]]
          BY <2>2, <4>1 DEF Turned
        <4> QED BY <2>6, <4>2, <4>3 DEF OnlyPanels, SamePanel
      <3> QED BY <3>1, <3>2
    <2>9. Turned(start, docks, post, r, i)
      BY <2>6, <2>7, <2>8 DEF Turned
    <2>10. r \in StateType
      BY <2>6, GoodParts
    <2>11. r \in S[i]
      BY <2>1, <2>9, <2>10 DEF Turns
    <2> QED BY <2>11 DEF r
  <1> HIDE DEF S
  <1>4. Advances(Len(docks), S, start, step)
    BY <1>1, <1>2, <1>3 DEF Advances
  <1> QED BY <1>4 DEF S

\* Once all had their turn, all docks are where they are to be.
LEMMA AfterTurns ==
    ASSUME NEW docks \in Seq(Docks), NEW start, NEW post,
           NEW s \in Turns(start, docks, post)[Len(docks)]
    PROVE  /\ Good(s)
           /\ OnlyPanels(start, s, Members(docks))
           /\ \A d \in Members(docks) :
                  s.panel[d] # NULL /\ (s.failed \/ s.panel[d].layer_output \in post[d])
  <1>1. Turned(start, docks, post, s, Len(docks))
    BY DEF Turns
  <1>2. FirstDocks(docks, Len(docks)) = Members(docks)
    BY DEF FirstDocks, Members
  <1>3. \A d \in Members(docks) : \E j \in 1..Len(docks) : d = docks[j]
    BY DEF Members
  <1> QED BY <1>1, <1>2, <1>3 DEF Turned

\* The docks that were created, in either order: all of them, each once.
LEMMA CreatedDocks ==
    ASSUME NEW s
    PROVE  /\ Created(s) \in Seq(Docks) /\ Unique(Created(s))
           /\ Members(Created(s)) = {d \in Docks : s.panel[d] # NULL}
           /\ Listening(s) \in Seq(Docks) /\ Unique(Listening(s))
           /\ Members(Listening(s)) = {d \in Docks : s.panel[d] # NULL}
  <1> DEFINE T == {d \in Docks : s.panel[d] # NULL}
             created == Created(s)
             n == Len(created)
  <1>1. created \in Seq(Docks) /\ IsAmong(created, Dock, T)
    BY DocksArePanels, AmongMembers DEF Created
  <1>2. Unique(created) /\ Members(created) = T
    BY <1>1 DEF IsAmong, Docks
  <1>3. Listening(s) = [i \in DOMAIN created |-> created[Len(created) - i + 1]]
    BY DEF Listening
  <1> HIDE DEF created
  <1>4. n \in Nat /\ DOMAIN created = 1..n
    BY <1>1
  <1>5. \A i \in 1..n : n - i + 1 \in 1..n /\ n - (n - i + 1) + 1 = i
    BY <1>4
  <1>6. \A i, j \in 1..n : n - i + 1 = n - j + 1 => i = j
    BY <1>4
  <1> HIDE DEF n
  <1>7. Listening(s) = [i \in 1..n |-> created[n - i + 1]]
    BY <1>3, <1>4 DEF n
  <1>8. Listening(s) \in Seq(Docks)
    BY <1>1, <1>4, <1>5, <1>7
  <1>9. Unique(Listening(s))
    BY <1>2, <1>4, <1>5, <1>6, <1>7 DEF Unique
  <1>10. Members(Listening(s)) = Members(created)
    <2>1. ASSUME NEW x \in Members(created) PROVE x \in Members(Listening(s))
      <3>1. PICK i \in 1..n : created[i] = x
        BY <1>4 DEF Members
      <3>2. n - i + 1 \in 1..n /\ Listening(s)[n - i + 1] = x
        BY <1>5, <1>7, <3>1
      <3>3. DOMAIN Listening(s) = 1..n
        BY <1>7
      <3> QED BY <3>2, <3>3 DEF Members
    <2>2. ASSUME NEW x \in Members(Listening(s)) PROVE x \in Members(created)
      BY <1>4, <1>5, <1>7 DEF Members
    <2> QED BY <2>1, <2>2
  <1> QED BY <1>1, <1>2, <1>8, <1>9, <1>10 DEF created

\* After all docks had their turn, those there are are where they are to be.
AllShown(start, r, k) ==
    /\ Good(r)
    /\ OnlyPanels(start, r, Docks)
    /\ \A d \in Docks :
           r.panel[d] # NULL => r.failed \/ r.panel[d].layer_output \in Shown(r.layout, k, d)

\* Each of the docks is where it is to be after its turn.
TurnsWell(docks, start, k, step) ==
    \A i \in 1..Len(docks) : \A s \in StateType :
        Good(s) /\ OnlyPanels(start, s, Panel \ {docks[i]}) =>
            /\ Good(step[i][s])
            /\ OnlyPanels(s, step[i][s], {docks[i]})
            /\ step[i][s].panel[docks[i]] # NULL
            /\ \/ step[i][s].failed
               \/ step[i][s].panel[docks[i]].layer_output
                      \in Shown(step[i][s].layout, k, docks[i])

\* The states after each of n steps.
Runs(f, n, start, step) ==
    /\ f = [i \in 0..n |-> f[i]]
    /\ f[0] = start
    /\ \A i \in 1..n : f[i - 1] \in StateType /\ f[i] = step[i][f[i - 1]]

Proceeds(f, n, start, step) ==
    /\ f[0] = start
    /\ \A i \in 1..n : f[i - 1] \in StateType => f[i] = step[i][f[i - 1]]

\* The steps lead to a state in which all docks are where they are to be.
EndsWell(docks, start, k, step) ==
    /\ \E f : Runs(f, Len(docks), start, step)
    /\ \A f : Proceeds(f, Len(docks), start, step) =>
           /\ AllShown(start, f[Len(docks)], k)
           /\ \A d \in Docks : f[Len(docks)].panel[d] # NULL <=> d \in Members(docks)

\* What becomes of docks if every one of them is where it is to be after its turn.
LEMMA AllInTurn ==
    ASSUME NEW docks \in Seq(Docks), Unique(docks), NEW start, Good(start), NEW k,
           \A d \in Docks \ Members(docks) : start.panel[d] = NULL,
           NEW step, TurnsWell(docks, start, k, step)
    PROVE  EndsWell(docks, start, k, step)
  <1> DEFINE post == [d \in Docks |-> Shown(start.layout, k, d)]
             S == Turns(start, docks, post)
             n == Len(docks)
  <1>1. n \in Nat /\ \A i \in 1..n : docks[i] \in Docks
    OBVIOUS
  <1>2. ASSUME NEW i \in 1..n, NEW s \in StateType, Good(s),
               OnlyPanels(start, s, Panel \ {docks[i]})
        PROVE  LET r == step[i][s] IN
               /\ Good(r)
               /\ OnlyPanels(s, r, {docks[i]})
               /\ r.panel[docks[i]] # NULL
               /\ r.failed \/ r.panel[docks[i]].layer_output \in post[docks[i]]
    <2> DEFINE d == docks[i]
               r == step[i][s]
    <2>1. d \in Docks
      BY <1>1
    <2>2. /\ Good(r) /\ OnlyPanels(s, r, {d}) /\ r.panel[d] # NULL
          /\ r.failed \/ r.panel[d].layer_output \in Shown(r.layout, k, d)
      BY <1>2 DEF TurnsWell
    <2> HIDE DEF r
    <2>3. r.layout = start.layout
      BY <1>2, <2>2 DEF OnlyPanels, SameOutputs
    <2> QED BY <2>1, <2>2, <2>3 DEF r
  <1>a. \A d \in Docks : post[d] = Shown(start.layout, k, d)
    OBVIOUS
  <1> HIDE DEF post
  <1>3. Advances(n, S, start, step)
    BY <1>2, InTurn
  <1>4. \A i \in 0..n : S[i] \subseteq StateType
    BY DEF Turns
  <1>5. ASSUME NEW i \in 1..n PROVE i - 1 \in 0..n
    OBVIOUS
  <1> HIDE DEF S, n
  <1>6. \E f : Runs(f, n, start, step)
    <2>1. PICK f : Walks(f, n, S, start, step)
      BY <1>3, Iteration
    <2>2. Runs(f, n, start, step)
      BY <1>4, <1>5, <2>1 DEF Walks, Runs
    <2> QED BY <2>2
  <1>7. ASSUME NEW f, Proceeds(f, n, start, step)
        PROVE  /\ AllShown(start, f[n], k)
               /\ \A d \in Docks : f[n].panel[d] # NULL <=> d \in Members(docks)
    <2>1. \A i \in 1..n : f[i - 1] \in S[i - 1] => f[i] = step[i][f[i - 1]]
      BY <1>4, <1>5, <1>7 DEF Proceeds
    <2>2. \A i \in 0..n : f[i] \in S[i]
      <3>1. f[0] = start
        BY <1>7 DEF Proceeds
      <3> QED BY <1>3, <2>1, <3>1, FoldInvariance
    <2>3. f[n] \in S[n]
      BY <1>1, <2>2
    <2> DEFINE r == f[n]
    <2>4. r \in Turns(start, docks, post)[Len(docks)]
      BY <2>3 DEF S, n
    <2> HIDE DEF r
    <2>5. /\ AllShown(start, r, k)
          /\ \A d \in Docks : r.panel[d] # NULL <=> d \in Members(docks)
      <3>1. /\ Good(r)
            /\ OnlyPanels(start, r, Members(docks))
            /\ \A d \in Members(docks) :
                   r.panel[d] # NULL /\ (r.failed \/ r.panel[d].layer_output \in post[d])
        BY <2>4, AfterTurns
      <3>2. Members(docks) \subseteq Docks /\ Docks \subseteq Panel
        BY MembersType, DocksArePanels
      <3>3. r.layout = start.layout
        BY <3>1 DEF OnlyPanels, SameOutputs
      <3>4. ASSUME NEW d \in Docks PROVE r.panel[d] # NULL <=> d \in Members(docks)
        <4>1. CASE d \in Members(docks)
          BY <3>1, <4>1
        <4>2. CASE d \notin Members(docks)
          BY <3>1, <3>2, <4>2 DEF OnlyPanels
        <4> QED BY <4>1, <4>2
      <3>5. OnlyPanels(start, r, Docks)
        BY <3>1, <3>2 DEF OnlyPanels
      <3>6. \A d \in Docks : r.panel[d] # NULL =>
                r.failed \/ r.panel[d].layer_output \in Shown(r.layout, k, d)
        BY <1>a, <3>1, <3>2, <3>3, <3>4
      <3> QED BY <3>1, <3>4, <3>5, <3>6 DEF AllShown
    <2> QED BY <2>5 DEF r
  <1> QED BY <1>6, <1>7 DEF EndsWell, n

\* All docks handle the event of the layout.
LEMMA ChangeOutputsShows ==
    ASSUME NEW start, Good(start), NEW k \in Workspace,
           \/ start.failed
           \/ \A d \in Docks : start.panel[d] # NULL /\ start.panel[d].layer_output # NULL
                                   => start.panel[d].layer_output.workspace = k
    PROVE  LET r == ChangeOutputs(start) IN
           /\ AllShown(start, r, k)
           /\ \A d \in Docks : r.panel[d] = NULL <=> start.panel[d] = NULL
  <1> DEFINE docks == Listening(start)
             Step(s, d) == ChangeOutput(s, d)
             step == [i \in 1..Len(docks) |-> [s \in StateType |-> Step(s, docks[i])]]
             Is(f) == f = [i \in 0..Len(docks) |->
                               IF i = 0 THEN start ELSE Step(f[i - 1], docks[i])]
             after == CHOOSE f : Is(f)
  <1>1. /\ docks \in Seq(Docks) /\ Unique(docks)
        /\ Members(docks) = {d \in Docks : start.panel[d] # NULL}
        /\ \A d \in Docks \ Members(docks) : start.panel[d] = NULL
    BY CreatedDocks
  <1>2. ChangeOutputs(start) = after[Len(docks)]
    BY DEF ChangeOutputs
  <1> HIDE DEF docks
  <1>3. ASSUME NEW i \in 1..Len(docks), NEW s \in StateType, Good(s),
               OnlyPanels(start, s, Panel \ {docks[i]})
        PROVE  LET r == Step(s, docks[i]) IN
               /\ Good(r)
               /\ OnlyPanels(s, r, {docks[i]})
               /\ r.panel[docks[i]] # NULL
               /\ r.failed \/ r.panel[docks[i]].layer_output \in Shown(r.layout, k, docks[i])
    <2> DEFINE d == docks[i]
               r == Step(s, d)
    <2>1. d \in Docks /\ d \in Panel /\ d \in Members(docks)
      BY <1>1, DocksArePanels DEF Members
    <2>2. start.panel[d] # NULL
      BY <1>1, <2>1
    <2> HIDE DEF d
    <2>3. s.panel[d] # NULL /\ SamePanel(s.panel[d], start.panel[d]) /\ s.layout = start.layout
      BY <1>3, <2>1, <2>2 DEF OnlyPanels, SameOutputs, d
    <2>4. \/ s.failed
          \/ s.panel[d].layer_output # NULL => s.panel[d].layer_output.workspace = k
      BY <1>3, <2>1, <2>2, <2>3 DEF OnlyPanels, SamePanel
    <2>5. /\ Good(r) /\ OnlyPanels(s, r, {d}) /\ r.panel[d] # NULL
          /\ r.failed \/ r.panel[d].layer_output \in Shown(r.layout, k, d)
      BY <1>3, <2>1, <2>3, <2>4, ChangeOutputShows
    <2> QED BY <2>5 DEF d
  <1>4. \A i \in 1..Len(docks) : \A s \in StateType : step[i][s] = Step(s, docks[i])
    OBVIOUS
  <1> HIDE DEF step, Step
  <1>5. TurnsWell(docks, start, k, step)
    <2> SUFFICES ASSUME NEW i \in 1..Len(docks), NEW s \in StateType, Good(s),
                        OnlyPanels(start, s, Panel \ {docks[i]})
                 PROVE  LET r == step[i][s] IN
                        /\ Good(r)
                        /\ OnlyPanels(s, r, {docks[i]})
                        /\ r.panel[docks[i]] # NULL
                        /\ \/ r.failed
                           \/ r.panel[docks[i]].layer_output \in Shown(r.layout, k, docks[i])
      BY DEF TurnsWell
    <2>1. step[i][s] = Step(s, docks[i])
      BY <1>4
    <2> QED BY <1>3, <2>1
  <1>6. EndsWell(docks, start, k, step)
    BY <1>1, <1>5, AllInTurn
  <1>7. PICK f : Runs(f, Len(docks), start, step)
    BY <1>6 DEF EndsWell
  <1>8. Is(f)
    <2>1. f = [i \in 0..Len(docks) |-> f[i]] /\ f[0] = start
      BY <1>7 DEF Runs
    <2>2. ASSUME NEW i \in 0..Len(docks), i # 0 PROVE f[i] = Step(f[i - 1], docks[i])
      <3>1. i \in 1..Len(docks)
        BY <1>1, <2>2
      <3> QED BY <1>4, <1>7, <3>1 DEF Runs
    <2> QED BY <2>1, <2>2
  <1>9. Is(after)
    <2> HIDE DEF Is
    <2> QED BY <1>8
  <1> HIDE DEF after
  <1>10. Proceeds(after, Len(docks), start, step)
    <2>1. Len(docks) \in Nat
      BY <1>1
    <2> QED BY <1>4, <1>9, <2>1 DEF Proceeds
  <1>11. /\ AllShown(start, after[Len(docks)], k)
         /\ \A d \in Docks : after[Len(docks)].panel[d] # NULL <=> d \in Members(docks)
    BY <1>6, <1>10 DEF EndsWell
  <1> QED BY <1>1, <1>2, <1>11

\* All docks handle the event of workspaces.
LEMMA ChangeWorkspacesShows ==
    ASSUME NEW start, Good(start), NEW k \in Workspace,
           NEW c \in Workspace,
           \/ start.failed
           \/ \A d \in Docks : start.panel[d] # NULL
                  => start.panel[d].layer_output \in Shown(start.layout, c, d)
    PROVE  LET r == ChangeWorkspaces(start, k) IN
           /\ AllShown(start, r, k)
           /\ \A d \in Docks : r.panel[d] = NULL <=> start.panel[d] = NULL
  <1> DEFINE docks == Created(start)
             Step(s, d) == ChangeWorkspace(s, k, d)
             step == [i \in 1..Len(docks) |-> [s \in StateType |-> Step(s, docks[i])]]
             Is(f) == f = [i \in 0..Len(docks) |->
                               IF i = 0 THEN start ELSE Step(f[i - 1], docks[i])]
             after == CHOOSE f : Is(f)
  <1>1. /\ docks \in Seq(Docks) /\ Unique(docks)
        /\ Members(docks) = {d \in Docks : start.panel[d] # NULL}
        /\ \A d \in Docks \ Members(docks) : start.panel[d] = NULL
    BY CreatedDocks
  <1>2. ChangeWorkspaces(start, k) = after[Len(docks)]
    BY DEF ChangeWorkspaces
  <1> HIDE DEF docks
  <1>3. ASSUME NEW i \in 1..Len(docks), NEW s \in StateType, Good(s),
               OnlyPanels(start, s, Panel \ {docks[i]})
        PROVE  LET r == Step(s, docks[i]) IN
               /\ Good(r)
               /\ OnlyPanels(s, r, {docks[i]})
               /\ r.panel[docks[i]] # NULL
               /\ r.failed \/ r.panel[docks[i]].layer_output \in Shown(r.layout, k, docks[i])
    <2> DEFINE d == docks[i]
               r == Step(s, d)
    <2>1. d \in Docks /\ d \in Panel /\ d \in Members(docks)
      BY <1>1, DocksArePanels DEF Members
    <2>2. start.panel[d] # NULL
      BY <1>1, <2>1
    <2> HIDE DEF d
    <2>3. s.panel[d] # NULL /\ SamePanel(s.panel[d], start.panel[d]) /\ s.layout = start.layout
      BY <1>3, <2>1, <2>2 DEF OnlyPanels, SameOutputs, d
    <2>4. s.failed \/ s.panel[d].layer_output \in Shown(s.layout, c, d)
      BY <1>3, <2>1, <2>2, <2>3 DEF OnlyPanels, SamePanel
    <2>5. /\ Good(r) /\ OnlyPanels(s, r, {d}) /\ r.panel[d] # NULL
          /\ r.failed \/ r.panel[d].layer_output \in Shown(r.layout, k, d)
      BY <1>3, <2>1, <2>3, <2>4, ChangeWorkspaceShows
    <2> QED BY <2>5 DEF d
  <1>4. \A i \in 1..Len(docks) : \A s \in StateType : step[i][s] = Step(s, docks[i])
    OBVIOUS
  <1> HIDE DEF step, Step
  <1>5. TurnsWell(docks, start, k, step)
    <2> SUFFICES ASSUME NEW i \in 1..Len(docks), NEW s \in StateType, Good(s),
                        OnlyPanels(start, s, Panel \ {docks[i]})
                 PROVE  LET r == step[i][s] IN
                        /\ Good(r)
                        /\ OnlyPanels(s, r, {docks[i]})
                        /\ r.panel[docks[i]] # NULL
                        /\ \/ r.failed
                           \/ r.panel[docks[i]].layer_output \in Shown(r.layout, k, docks[i])
      BY DEF TurnsWell
    <2>1. step[i][s] = Step(s, docks[i])
      BY <1>4
    <2> QED BY <1>3, <2>1
  <1>6. EndsWell(docks, start, k, step)
    BY <1>1, <1>5, AllInTurn
  <1>7. PICK f : Runs(f, Len(docks), start, step)
    BY <1>6 DEF EndsWell
  <1>8. Is(f)
    <2>1. f = [i \in 0..Len(docks) |-> f[i]] /\ f[0] = start
      BY <1>7 DEF Runs
    <2>2. ASSUME NEW i \in 0..Len(docks), i # 0 PROVE f[i] = Step(f[i - 1], docks[i])
      <3>1. i \in 1..Len(docks)
        BY <1>1, <2>2
      <3> QED BY <1>4, <1>7, <3>1 DEF Runs
    <2> QED BY <2>1, <2>2
  <1>9. Is(after)
    <2> HIDE DEF Is
    <2> QED BY <1>8
  <1> HIDE DEF after
  <1>10. Proceeds(after, Len(docks), start, step)
    <2>1. Len(docks) \in Nat
      BY <1>1
    <2> QED BY <1>4, <1>9, <2>1 DEF Proceeds
  <1>11. /\ AllShown(start, after[Len(docks)], k)
         /\ \A d \in Docks : after[Len(docks)].panel[d] # NULL <=> d \in Members(docks)
    BY <1>6, <1>10 DEF EndsWell
  <1> QED BY <1>1, <1>2, <1>11

\* All docks get other tiles.
LEMMA ResizeTilesShows ==
    ASSUME NEW start, Good(start), NEW k \in Workspace,
           NEW tiles \in Tiles,
           \/ start.failed
           \/ \A d \in Docks : start.panel[d] # NULL
                  => start.panel[d].layer_output \in Shown(start.layout, k, d)
    PROVE  LET r == ResizeTiles(start, tiles) IN
           /\ AllShown(start, r, k)
           /\ \A d \in Docks : r.panel[d] = NULL <=> start.panel[d] = NULL
  <1> DEFINE docks == Created(start)
             Step(s, d) == CommitPositioning(s, d, DockPositioning(d, tiles[d]))
             step == [i \in 1..Len(docks) |-> [s \in StateType |-> Step(s, docks[i])]]
             Is(f) == f = [i \in 0..Len(docks) |->
                               IF i = 0 THEN start ELSE Step(f[i - 1], docks[i])]
             after == CHOOSE f : Is(f)
  <1>1. /\ docks \in Seq(Docks) /\ Unique(docks)
        /\ Members(docks) = {d \in Docks : start.panel[d] # NULL}
        /\ \A d \in Docks \ Members(docks) : start.panel[d] = NULL
    BY CreatedDocks
  <1>2. ResizeTiles(start, tiles) = after[Len(docks)]
    BY DEF ResizeTiles
  <1> HIDE DEF docks
  <1>3. ASSUME NEW i \in 1..Len(docks), NEW s \in StateType, Good(s),
               OnlyPanels(start, s, Panel \ {docks[i]})
        PROVE  LET r == Step(s, docks[i]) IN
               /\ Good(r)
               /\ OnlyPanels(s, r, {docks[i]})
               /\ r.panel[docks[i]] # NULL
               /\ r.failed \/ r.panel[docks[i]].layer_output \in Shown(r.layout, k, docks[i])
    <2> DEFINE d == docks[i]
               r == Step(s, d)
    <2>1. d \in Docks /\ d \in Panel /\ d \in Members(docks)
      BY <1>1, DocksArePanels DEF Members
    <2>2. start.panel[d] # NULL
      BY <1>1, <2>1
    <2> HIDE DEF d
    <2>3. s.panel[d] # NULL /\ SamePanel(s.panel[d], start.panel[d]) /\ s.layout = start.layout
      BY <1>3, <2>1, <2>2 DEF OnlyPanels, SameOutputs, d
    <2>4. s.failed \/ s.panel[d].layer_output \in Shown(s.layout, k, d)
      BY <1>3, <2>1, <2>2, <2>3 DEF OnlyPanels, SamePanel
    <2>5. tiles[d] \in Nat
      BY <2>1, DockAssumption
    <2>6. /\ Good(r) /\ OnlyPanels(s, r, {d}) /\ r.panel[d] # NULL
          /\ r.failed \/ r.panel[d].layer_output \in Shown(r.layout, k, d)
      BY <1>3, <2>1, <2>3, <2>4, <2>5, ResizeShows
    <2> QED BY <2>6 DEF d
  <1>4. \A i \in 1..Len(docks) : \A s \in StateType : step[i][s] = Step(s, docks[i])
    OBVIOUS
  <1> HIDE DEF step, Step
  <1>5. TurnsWell(docks, start, k, step)
    <2> SUFFICES ASSUME NEW i \in 1..Len(docks), NEW s \in StateType, Good(s),
                        OnlyPanels(start, s, Panel \ {docks[i]})
                 PROVE  LET r == step[i][s] IN
                        /\ Good(r)
                        /\ OnlyPanels(s, r, {docks[i]})
                        /\ r.panel[docks[i]] # NULL
                        /\ \/ r.failed
                           \/ r.panel[docks[i]].layer_output \in Shown(r.layout, k, docks[i])
      BY DEF TurnsWell
    <2>1. step[i][s] = Step(s, docks[i])
      BY <1>4
    <2> QED BY <1>3, <2>1
  <1>6. EndsWell(docks, start, k, step)
    BY <1>1, <1>5, AllInTurn
  <1>7. PICK f : Runs(f, Len(docks), start, step)
    BY <1>6 DEF EndsWell
  <1>8. Is(f)
    <2>1. f = [i \in 0..Len(docks) |-> f[i]] /\ f[0] = start
      BY <1>7 DEF Runs
    <2>2. ASSUME NEW i \in 0..Len(docks), i # 0 PROVE f[i] = Step(f[i - 1], docks[i])
      <3>1. i \in 1..Len(docks)
        BY <1>1, <2>2
      <3> QED BY <1>4, <1>7, <3>1 DEF Runs
    <2> QED BY <2>1, <2>2
  <1>9. Is(after)
    <2> HIDE DEF Is
    <2> QED BY <1>8
  <1> HIDE DEF after
  <1>10. Proceeds(after, Len(docks), start, step)
    <2>1. Len(docks) \in Nat
      BY <1>1
    <2> QED BY <1>4, <1>9, <2>1 DEF Proceeds
  <1>11. /\ AllShown(start, after[Len(docks)], k)
         /\ \A d \in Docks : after[Len(docks)].panel[d] # NULL <=> d \in Members(docks)
    BY <1>6, <1>10 DEF EndsWell
  <1> QED BY <1>1, <1>2, <1>11

\* All docks are created.
LEMMA CreateDocksShows ==
    ASSUME NEW start, Good(start), NEW k \in Workspace,
           NEW tiles \in Tiles,
           \A d \in Docks : start.panel[d] = NULL
    PROVE  LET r == CreateDocks(start, k, tiles) IN
           /\ AllShown(start, r, k)
           /\ \A d \in Docks : r.panel[d] # NULL
  <1> DEFINE docks == Dock
             Step(s, d) == CreateDock(s, k, d, tiles[d])
             step == [i \in 1..Len(docks) |-> [s \in StateType |-> Step(s, docks[i])]]
             Is(f) == f = [i \in 0..Len(docks) |->
                               IF i = 0 THEN start ELSE Step(f[i - 1], docks[i])]
             after == CHOOSE f : Is(f)
  <1>1. /\ docks \in Seq(Docks) /\ Unique(docks)
        /\ Members(docks) = Docks
        /\ \A d \in Docks \ Members(docks) : start.panel[d] = NULL
    BY DocksArePanels DEF Docks
  <1>2. CreateDocks(start, k, tiles) = after[Len(docks)]
    BY DEF CreateDocks
  <1> HIDE DEF docks
  <1>3. ASSUME NEW i \in 1..Len(docks), NEW s \in StateType, Good(s),
               OnlyPanels(start, s, Panel \ {docks[i]})
        PROVE  LET r == Step(s, docks[i]) IN
               /\ Good(r)
               /\ OnlyPanels(s, r, {docks[i]})
               /\ r.panel[docks[i]] # NULL
               /\ r.failed \/ r.panel[docks[i]].layer_output \in Shown(r.layout, k, docks[i])
    <2> DEFINE d == docks[i]
               r == Step(s, d)
    <2>1. d \in Docks /\ d \in Panel
      BY <1>1, DocksArePanels
    <2>2. start.panel[d] = NULL
      BY <2>1
    <2> HIDE DEF d
    <2>3. s.panel[d] = NULL
      BY <1>3, <2>1, <2>2 DEF OnlyPanels, d
    <2>4. tiles[d] \in Nat
      BY <2>1, DockAssumption
    <2>5. /\ Good(r) /\ OnlyPanels(s, r, {d}) /\ r.panel[d] # NULL
          /\ r.failed \/ r.panel[d].layer_output \in Shown(r.layout, k, d)
      BY <1>3, <2>1, <2>3, <2>4, CreateDockShows
    <2> QED BY <2>5 DEF d
  <1>4. \A i \in 1..Len(docks) : \A s \in StateType : step[i][s] = Step(s, docks[i])
    OBVIOUS
  <1> HIDE DEF step, Step
  <1>5. TurnsWell(docks, start, k, step)
    <2> SUFFICES ASSUME NEW i \in 1..Len(docks), NEW s \in StateType, Good(s),
                        OnlyPanels(start, s, Panel \ {docks[i]})
                 PROVE  LET r == step[i][s] IN
                        /\ Good(r)
                        /\ OnlyPanels(s, r, {docks[i]})
                        /\ r.panel[docks[i]] # NULL
                        /\ \/ r.failed
                           \/ r.panel[docks[i]].layer_output \in Shown(r.layout, k, docks[i])
      BY DEF TurnsWell
    <2>1. step[i][s] = Step(s, docks[i])
      BY <1>4
    <2> QED BY <1>3, <2>1
  <1>6. EndsWell(docks, start, k, step)
    BY <1>1, <1>5, AllInTurn
  <1>7. PICK f : Runs(f, Len(docks), start, step)
    BY <1>6 DEF EndsWell
  <1>8. Is(f)
    <2>1. f = [i \in 0..Len(docks) |-> f[i]] /\ f[0] = start
      BY <1>7 DEF Runs
    <2>2. ASSUME NEW i \in 0..Len(docks), i # 0 PROVE f[i] = Step(f[i - 1], docks[i])
      <3>1. i \in 1..Len(docks)
        BY <1>1, <2>2
      <3> QED BY <1>4, <1>7, <3>1 DEF Runs
    <2> QED BY <2>1, <2>2
  <1>9. Is(after)
    <2> HIDE DEF Is
    <2> QED BY <1>8
  <1> HIDE DEF after
  <1>10. Proceeds(after, Len(docks), start, step)
    <2>1. Len(docks) \in Nat
      BY <1>1
    <2> QED BY <1>4, <1>9, <2>1 DEF Proceeds
  <1>11. /\ AllShown(start, after[Len(docks)], k)
         /\ \A d \in Docks : after[Len(docks)].panel[d] # NULL <=> d \in Members(docks)
    BY <1>6, <1>10 DEF EndsWell
  <1> QED BY <1>1, <1>2, <1>11

-----------------------------------------------------------------------------
(* The layout of outputs.                                                  *)

\* One of finitely many values is the greatest one: the right end of the layout.
LEMMA GreatestValue ==
    ASSUME NEW n \in Nat, NEW f \in [0..n -> Int]
    PROVE  \E i \in 0..n : \A j \in 0..n : f[j] <= f[i]
  <1> DEFINE Has(m) == \E i \in 0..m : \A j \in 0..m : f[j] <= f[i]
             at == {m \in 0..n : Has(m)}
  <1>1. 0 \in at
    <2>1. f[0] \in Int
      OBVIOUS
    <2>2. \A j \in 0..0 : f[j] <= f[0]
      BY <2>1
    <2> QED BY <2>2
  <1>2. ASSUME NEW m \in 1..n, m - 1 \in at PROVE m \in at
    <2>1. PICK i \in 0..(m - 1) : \A j \in 0..(m - 1) : f[j] <= f[i]
      BY <1>2
    <2> DEFINE g == IF f[m] <= f[i] THEN i ELSE m
    <2>2. g \in 0..m /\ f[i] \in Int /\ f[m] \in Int /\ f[g] \in Int
      BY <2>1
    <2>3. f[i] <= f[g] /\ f[m] <= f[g]
      BY <2>2
    <2>4. ASSUME NEW j \in 0..m PROVE f[j] <= f[g]
      <3>1. CASE j = m
        BY <2>3, <3>1
      <3>2. CASE j # m
        <4>1. j \in 0..(m - 1) /\ f[j] \in Int
          BY <3>2
        <4> HIDE DEF g
        <4> QED BY <2>1, <2>2, <2>3, <4>1
      <3> QED BY <3>1, <3>2
    <2> HIDE DEF g
    <2>5. Has(m)
      BY <2>2, <2>4
    <2> HIDE DEF Has
    <2> QED BY <2>5
  <1>3. \A m \in 0..n : m \in at
    <2> HIDE DEF at
    <2> QED BY <1>1, <1>2, Upwards
  <1>4. n \in at
    <2>1. n \in 0..n
      OBVIOUS
    <2> HIDE DEF at
    <2> QED BY <1>3, <2>1
  <1> QED BY <1>4

\* The entries of the layout are typed, and no output has two.
LaidOut(l) ==
    /\ l \in Seq(Entries)
    /\ \A i, j \in DOMAIN l : l[i].output = l[j].output => i = j

\* A positive scale leaves a width (wlr_output_effective_resolution).
LEMMA LogicalWidthType ==
    ASSUME NEW w \in OutputStates
    PROVE  LogicalWidth(w) \in Nat
  <1>1. w.mode.width \in Nat /\ w.scale \in Nat \ {0}
    BY ScaleAssumption DEF OutputStates, Modes
  <1>2. (w.mode.width * One) \in Nat
    BY <1>1 DEF One
  <1>3. \A a \in Nat, b \in Nat \ {0} : a \div b \in Nat
    OBVIOUS
  <1> QED BY <1>1, <1>2, <1>3 DEF LogicalWidth

\* The right edges, after any number of outputs that are placed automatically.
LEMMA RightEdgesType ==
    ASSUME NEW l \in Seq(Entries), NEW widths \in [DOMAIN l -> Nat]
    PROVE  \A n \in 0..Len(l) : RightEdges(l, widths)[n] \in Int
  <1> DEFINE placed == {i \in DOMAIN l : l[i].x # NULL}
             first == Max({0} \cup {l[i].x + widths[i] : i \in placed})
             S == [i \in 0..Len(l) |-> Int]
             Right(i, x) == x + (IF i \in placed THEN 0 ELSE widths[i])
             step == [i \in 1..Len(l) |-> [x \in Int |-> Right(i, x)]]
             Is(f) == f = [n \in 0..Len(l) |->
                               IF n = 0 THEN first
                               ELSE f[n - 1] + (IF n \in placed THEN 0 ELSE widths[n])]
             right == CHOOSE f : Is(f)
  <1>0. DOMAIN l = 1..Len(l) /\ Len(l) \in Nat
    OBVIOUS
  <1>1. \A i \in placed : l[i].x + widths[i] \in Int
    <2> SUFFICES ASSUME NEW i \in placed PROVE l[i].x + widths[i] \in Int
      OBVIOUS
    <2>1. l[i] \in Entries /\ l[i].x # NULL /\ widths[i] \in Nat
      BY <1>0
    <2>2. l[i].x \in Int
      BY <2>1 DEF Entries
    <2> QED BY <2>1, <2>2
  <1>2. first \in Int
    <2> DEFINE f == [i \in 0..Len(l) |-> IF i \in placed THEN l[i].x + widths[i] ELSE 0]
               all == {0} \cup {l[i].x + widths[i] : i \in placed}
    <2>1. f \in [0..Len(l) -> Int]
      BY <1>1
    <2>2. \A y \in all : \E i \in 0..Len(l) : f[i] = y
      <3>1. f[0] = 0
        BY <1>0
      <3>2. \A i \in placed : i \in 0..Len(l) /\ f[i] = l[i].x + widths[i]
        BY <1>0
      <3> HIDE DEF f, placed
      <3>3. 0 \in 0..Len(l)
        BY <1>0
      <3> QED BY <3>1, <3>2, <3>3
    <2>3. \A i \in 0..Len(l) : f[i] \in all
      OBVIOUS
    <2> HIDE DEF f
    <2>4. PICK i \in 0..Len(l) : \A j \in 0..Len(l) : f[j] <= f[i]
      BY <1>0, <2>1, GreatestValue
    <2>5. \A y \in all : f[i] >= y
      <3> HIDE DEF all
      <3> TAKE y \in all
      <3>1. PICK j \in 0..Len(l) : f[j] = y
        BY <2>2
      <3>2. f[j] <= f[i] /\ f[j] \in Int /\ f[i] \in Int
        BY <2>1, <2>4
      <3> QED BY <3>1, <3>2
    <2>6. all \subseteq Int
      BY <1>1
    <2> HIDE DEF all
    <2>7. Max(all) \in all
      BY <2>3, <2>5 DEF Max
    <2> QED BY <2>6, <2>7 DEF all
  <1> HIDE DEF first
  <1>3. ASSUME NEW i \in 1..Len(l), NEW x \in Int PROVE Right(i, x) \in Int
    BY <1>0
  <1> HIDE DEF Right
  <1>4. Advances(Len(l), S, first, step)
    BY <1>0, <1>2, <1>3 DEF Advances
  <1>5. PICK f : Walks(f, Len(l), S, first, step)
    <2> HIDE DEF S, step
    <2> QED BY <1>4, Iteration
  <1>6. Is(f)
    <2>1. f = [i \in 0..Len(l) |-> f[i]] /\ f[0] = first
      BY <1>5 DEF Walks
    <2>2. ASSUME NEW i \in 0..Len(l), i # 0
          PROVE  f[i] = f[i - 1] + (IF i \in placed THEN 0 ELSE widths[i])
      <3>1. i \in 1..Len(l) /\ i - 1 \in 0..Len(l)
        BY <1>0, <2>2
      <3>2. f[i - 1] \in Int /\ f[i] = step[i][f[i - 1]]
        BY <1>5, <3>1 DEF Walks
      <3>3. step[i][f[i - 1]] = Right(i, f[i - 1])
        BY <3>1, <3>2
      <3> QED BY <3>2, <3>3 DEF Right
    <2> QED BY <2>1, <2>2
  <1>7. Is(right)
    <2> HIDE DEF Is
    <2> QED BY <1>6
  <1>8. RightEdges(l, widths) = right
    BY DEF RightEdges, first
  <1> HIDE DEF right
  <1>9. right[0] = first /\ \A i \in 1..Len(l) : right[i - 1] \in S[i - 1] =>
            right[i] = step[i][right[i - 1]]
    <2>1. right[0] = first
      BY <1>0, <1>7
    <2>2. ASSUME NEW i \in 1..Len(l), right[i - 1] \in S[i - 1]
          PROVE  right[i] = step[i][right[i - 1]]
      <3>1. i \in 0..Len(l) /\ i # 0 /\ i - 1 \in 0..Len(l)
        BY <1>0
      <3>2. right[i - 1] \in Int
        BY <2>2, <3>1
      <3>3. right[i] = right[i - 1] + (IF i \in placed THEN 0 ELSE widths[i])
        BY <1>7, <3>1
      <3>4. step[i][right[i - 1]] = Right(i, right[i - 1])
        BY <3>2
      <3> QED BY <3>3, <3>4 DEF Right
    <2> QED BY <2>1, <2>2
  <1>10. \A n \in 0..Len(l) : right[n] \in S[n]
    <2> HIDE DEF S, step
    <2> QED BY <1>4, <1>9, FoldInvariance
  <1> QED BY <1>8, <1>10

\* Every output of the layout has an entry.
LEMMA EntryIsThere ==
    ASSUME NEW l, LaidOut(l)
    PROVE  /\ InLayout(l) \subseteq Output
           /\ \A i \in DOMAIN l : l[i] \in Members(l) /\ Entry(l, l[i].output) = l[i]
           /\ \A o \in InLayout(l) :
                  /\ Entry(l, o) \in Members(l) /\ Entry(l, o) \in Entries
                  /\ Entry(l, o).output = o
                  /\ Position(l, Entry(l, o)) \in DOMAIN l
                  /\ l[Position(l, Entry(l, o))] = Entry(l, o)
           /\ Unique(l)
  <1>1. \A i \in DOMAIN l : l[i] \in Entries /\ l[i].output \in Output
    <2>1. \A i \in DOMAIN l : l[i] \in Entries
      BY DEF LaidOut
    <2> QED BY <2>1 DEF Entries
  <1>2. \A i \in DOMAIN l : l[i] \in Members(l)
    BY DEF Members
  <1>3. ASSUME NEW i \in DOMAIN l PROVE Entry(l, l[i].output) = l[i]
    <2>1. \A e \in Members(l) : e.output = l[i].output => e = l[i]
      BY DEF Members, LaidOut
    <2> QED BY <1>2, <2>1 DEF Entry
  <1>4. ASSUME NEW o \in InLayout(l)
        PROVE  /\ Entry(l, o) \in Members(l) /\ Entry(l, o) \in Entries
               /\ Entry(l, o).output = o
               /\ Position(l, Entry(l, o)) \in DOMAIN l
               /\ l[Position(l, Entry(l, o))] = Entry(l, o)
    <2>1. PICK i \in DOMAIN l : l[i].output = o
      BY DEF InLayout
    <2>2. Entry(l, o) = l[i]
      BY <1>3, <2>1
    <2> QED BY <1>1, <1>2, <2>1, <2>2, PositionIsThere
  <1>5. Unique(l)
    BY DEF Unique, LaidOut
  <1> QED BY <1>1, <1>2, <1>3, <1>4, <1>5 DEF InLayout

\* Exactly the outputs in the layout have a box (wlr_output_layout_get_box).
LEMMA LayoutBoxesType ==
    ASSUME NEW wlr \in [Output -> OutputStates \cup {NULL}], NEW l, LaidOut(l),
           \A o \in InLayout(l) : wlr[o] # NULL
    PROVE  /\ DOMAIN LayoutBoxes(wlr, l) = InLayout(l)
           /\ \A o \in InLayout(l) : LayoutBoxes(wlr, l)[o] \in Extents
  <1> DEFINE widths == Widths(wlr, l)
             X(e) == IF e.x # NULL THEN e.x
                     ELSE RightEdges(l, widths)[Position(l, e) - 1]
  <1>1. l \in Seq(Entries) /\ DOMAIN l = 1..Len(l)
    BY DEF LaidOut
  <1>2. widths \in [DOMAIN l -> Nat]
    <2>1. ASSUME NEW i \in DOMAIN l PROVE LogicalWidth(wlr[l[i].output]) \in Nat
      <3>1. l[i].output \in InLayout(l)
        BY DEF InLayout
      <3>2. wlr[l[i].output] \in OutputStates
        BY <3>1, EntryIsThere
      <3> QED BY <3>2, LogicalWidthType
    <2> QED BY <2>1 DEF Widths
  <1>3. LayoutBoxes(wlr, l) = [o \in InLayout(l) |->
            [x |-> X(Entry(l, o)), width |-> widths[Position(l, Entry(l, o))]]]
    BY DEF LayoutBoxes
  <1> HIDE DEF widths
  <1>4. \A n \in 0..Len(l) : RightEdges(l, widths)[n] \in Int
    BY <1>1, <1>2, RightEdgesType
  <1>5. ASSUME NEW o \in InLayout(l)
        PROVE  /\ X(Entry(l, o)) \in Int
               /\ widths[Position(l, Entry(l, o))] \in Nat
    <2> DEFINE e == Entry(l, o)
    <2>1. e \in Entries /\ Position(l, e) \in DOMAIN l
      BY EntryIsThere
    <2> HIDE DEF e
    <2>2. Position(l, e) - 1 \in 0..Len(l)
      BY <1>1, <2>1
    <2>3. X(e) \in Int
      BY <1>4, <2>1, <2>2 DEF Entries
    <2> QED BY <1>2, <2>1, <2>3 DEF e
  <1> HIDE DEF X
  <1> QED BY <1>3, <1>5 DEF Extents

\* The states of outputs that are not in the layout do not matter to it.
LEMMA SameLayoutBoxes ==
    ASSUME NEW a, NEW b, NEW l, \A o \in InLayout(l) : a[o] = b[o]
    PROVE  LayoutBoxes(a, l) = LayoutBoxes(b, l)
  <1>1. Widths(a, l) = Widths(b, l)
    <2>1. \A i \in DOMAIN l : a[l[i].output] = b[l[i].output]
      BY DEF InLayout
    <2> QED BY <2>1 DEF Widths
  <1> QED BY <1>1 DEF LayoutBoxes

\* A layout that has each output once, by its entries.
LEMMA LaidOutMembers ==
    ASSUME NEW l
    PROVE  /\ InLayout(l) = {e.output : e \in Members(l)}
           /\ LaidOut(l) <=> /\ l \in Seq(Entries)
                             /\ Unique(l)
                             /\ \A e, f \in Members(l) : e.output = f.output => e = f
  <1>1. InLayout(l) = {e.output : e \in Members(l)}
    BY DEF InLayout, Members
  <1>2. ASSUME LaidOut(l)
        PROVE  /\ l \in Seq(Entries)
               /\ Unique(l)
               /\ \A e, f \in Members(l) : e.output = f.output => e = f
    BY <1>2 DEF LaidOut, Unique, Members
  <1>3. ASSUME l \in Seq(Entries), Unique(l),
               \A e, f \in Members(l) : e.output = f.output => e = f
        PROVE  LaidOut(l)
    <2> SUFFICES ASSUME NEW i \in DOMAIN l, NEW j \in DOMAIN l,
                        l[i].output = l[j].output
                 PROVE  i = j
      BY <1>3 DEF LaidOut
    <2>1. l[i] \in Members(l) /\ l[j] \in Members(l)
      BY DEF Members
    <2>2. l[i] = l[j]
      BY <1>3, <2>1
    <2> QED BY <1>3, <2>2 DEF Unique
  <1> QED BY <1>1, <1>2, <1>3

\* The entry of an output is the only one it has.
LEMMA EntryIs ==
    ASSUME NEW l, LaidOut(l), NEW e \in Members(l)
    PROVE  Entry(l, e.output) = e /\ e.output \in InLayout(l)
  <1>1. PICK i \in DOMAIN l : l[i] = e
    BY DEF Members
  <1> QED BY <1>1, EntryIsThere DEF InLayout

\* An output that leaves the layout takes no other with it.
LEMMA RemovedLayout ==
    ASSUME NEW l, LaidOut(l), NEW o \in InLayout(l)
    PROVE  LET m == Remove(l, Entry(l, o)) IN
           /\ LaidOut(m)
           /\ InLayout(m) = InLayout(l) \ {o}
           /\ \A q \in InLayout(m) : Entry(m, q) = Entry(l, q)
  <1> DEFINE e == Entry(l, o)
             m == Remove(l, e)
  <1>1. /\ l \in Seq(Entries) /\ Unique(l)
        /\ \A f, g \in Members(l) : f.output = g.output => f = g
    BY LaidOutMembers
  <1>2. e \in Members(l) /\ e.output = o
    BY EntryIsThere
  <1> HIDE DEF e
  <1>3. m \in Seq(Entries) /\ Members(m) = Members(l) \ {e} /\ Unique(m)
    BY <1>1, <1>2, RemoveMembers, RemoveType
  <1> HIDE DEF m
  <1>4. \A f, g \in Members(m) : f.output = g.output => f = g
    BY <1>1, <1>3
  <1>5. LaidOut(m)
    BY <1>3, <1>4, LaidOutMembers
  <1>6. InLayout(m) = InLayout(l) \ {o}
    <2>1. InLayout(m) = {f.output : f \in Members(m)}
      BY LaidOutMembers
    <2>2. InLayout(l) = {f.output : f \in Members(l)}
      BY LaidOutMembers
    <2>3. \A f \in Members(l) : f.output = o => f = e
      BY <1>1, <1>2
    <2> QED BY <1>2, <1>3, <2>1, <2>2, <2>3
  <1>7. ASSUME NEW q \in InLayout(m) PROVE Entry(m, q) = Entry(l, q)
    <2>1. Entry(m, q) \in Members(m) /\ Entry(m, q).output = q
      BY <1>5, EntryIsThere
    <2>2. Entry(m, q) \in Members(l)
      BY <1>3, <2>1
    <2> QED BY <2>1, <2>2, EntryIs
  <1> QED BY <1>5, <1>6, <1>7 DEF m, e

\* The layout with an entry for o, in place of the one that it had, if any.
WithEntry(l, o, x) ==
    LET entry == [output |-> o, x |-> x] IN
    IF o \in InLayout(l) THEN [l EXCEPT ![Position(l, Entry(l, o))] = entry]
                         ELSE Append(l, entry)

\* An output that is added, or placed elsewhere, has the position asked for, and the
\* others keep theirs (wlr_output_layout_add).
LEMMA AddedLayout ==
    ASSUME NEW l, LaidOut(l), NEW o \in Output, NEW x \in Int \cup {NULL}
    PROVE  LET m == WithEntry(l, o, x) IN
           /\ LaidOut(m)
           /\ InLayout(m) = InLayout(l) \cup {o}
           /\ Entry(m, o).x = x
           /\ \A q \in InLayout(l) \ {o} : Entry(m, q) = Entry(l, q)
  <1> DEFINE entry == [output |-> o, x |-> x]
             m == WithEntry(l, o, x)
  <1>0. entry \in Entries /\ entry.output = o /\ entry.x = x
    BY DEF Entries
  <1> HIDE DEF entry
  <1>1. /\ l \in Seq(Entries) /\ Unique(l)
        /\ \A f, g \in Members(l) : f.output = g.output => f = g
    BY LaidOutMembers
  <1>2. /\ m \in Seq(Entries)
        /\ \A i, j \in DOMAIN m : m[i].output = m[j].output => i = j
        /\ Members(m) = {f \in Members(l) : f.output # o} \cup {entry}
    <2>1. CASE o \in InLayout(l)
      <3> DEFINE at == Position(l, Entry(l, o))
      <3>1. at \in DOMAIN l /\ l[at].output = o
        BY <2>1, EntryIsThere
      <3> HIDE DEF at
      <3>2. m = [l EXCEPT ![at] = entry]
        BY <2>1 DEF WithEntry, at, entry
      <3>3. /\ m \in Seq(Entries) /\ DOMAIN m = DOMAIN l
            /\ m[at] = entry /\ \A i \in DOMAIN l \ {at} : m[i] = l[i]
        BY <1>0, <1>1, <3>1, <3>2
      <3> HIDE DEF m
      <3>4. \A i \in DOMAIN l : m[i].output = l[i].output
        BY <1>0, <3>1, <3>3
      <3>5. \A i, j \in DOMAIN m : m[i].output = m[j].output => i = j
        BY <3>3, <3>4 DEF LaidOut
      <3>6. \A i \in DOMAIN l : l[i].output = o => i = at
        BY <3>1 DEF LaidOut
      <3>7. ASSUME NEW f PROVE f \in Members(m) <=>
                                   f \in {g \in Members(l) : g.output # o} \cup {entry}
        <4>1. ASSUME f \in Members(m)
              PROVE  f \in {g \in Members(l) : g.output # o} \cup {entry}
          <5>1. PICK i \in DOMAIN l : m[i] = f
            BY <3>3, <4>1 DEF Members
          <5> QED BY <3>3, <3>6, <5>1 DEF Members
        <4>2. ASSUME f \in Members(l), f.output # o PROVE f \in Members(m)
          <5>1. PICK i \in DOMAIN l : l[i] = f
            BY <4>2 DEF Members
          <5> QED BY <3>1, <3>3, <4>2, <5>1 DEF Members
        <4>3. entry \in Members(m)
          BY <3>1, <3>3 DEF Members
        <4> QED BY <4>1, <4>2, <4>3
      <3> QED BY <3>3, <3>5, <3>7
    <2>2. CASE o \notin InLayout(l)
      <3>1. m = Append(l, entry)
        BY <2>2 DEF WithEntry, entry
      <3>2. \A f \in Members(l) : f.output # o
        BY <2>2, LaidOutMembers
      <3>3. entry \notin Members(l)
        BY <1>0, <3>2
      <3>4. m \in Seq(Entries) /\ Members(m) = Members(l) \cup {entry} /\ Unique(m)
        BY <1>0, <1>1, <3>1, <3>3, PushBackMembers DEF PushBack
      <3> HIDE DEF m
      <3>5. \A f, g \in Members(m) : f.output = g.output => f = g
        BY <1>0, <1>1, <3>2, <3>4
      <3>6. LaidOut(m)
        BY <3>4, <3>5, LaidOutMembers
      <3> QED BY <3>2, <3>4, <3>6 DEF LaidOut
    <2> QED BY <2>1, <2>2
  <1> HIDE DEF m
  <1>3. LaidOut(m)
    BY <1>2 DEF LaidOut
  <1>4. InLayout(m) = InLayout(l) \cup {o}
    <2>1. InLayout(m) = {f.output : f \in Members(m)}
      BY LaidOutMembers
    <2>2. InLayout(l) = {f.output : f \in Members(l)}
      BY LaidOutMembers
    <2> QED BY <1>0, <1>2, <2>1, <2>2
  <1>5. Entry(m, o).x = x
    <2>1. entry \in Members(m)
      BY <1>2
    <2> QED BY <1>0, <1>3, <2>1, EntryIs
  <1>6. ASSUME NEW q \in InLayout(l) \ {o} PROVE Entry(m, q) = Entry(l, q)
    <2>1. Entry(l, q) \in Members(l) /\ Entry(l, q).output = q
      BY EntryIsThere
    <2>2. Entry(l, q) \in Members(m)
      BY <1>2, <2>1
    <2> QED BY <1>3, <2>1, <2>2, EntryIs
  <1> QED BY <1>3, <1>4, <1>5, <1>6 DEF m

-----------------------------------------------------------------------------
(* What the layout, the extents and the docks have in common.              *)

\* The outputs in the layout are plugged in, and the layers know their extents.
Tracked(s) ==
    /\ LaidOut(s.layout)
    /\ \A o \in InLayout(s.layout) : s.wlr_output[o] # NULL
    /\ \A o \in Output :
           s.extents[o] = IF o \in InLayout(s.layout)
                          THEN LayoutBoxes(s.wlr_output, s.layout)[o] ELSE NULL

DocksAt(s, k) ==
    \/ s.failed
    \/ \A d \in Docks : s.panel[d] # NULL
                            => s.panel[d].layer_output \in Shown(s.layout, k, d)

\* Either all docks were created or none.
AllDocks(s) == \/ \A d \in Docks : s.panel[d] # NULL
               \/ \A d \in Docks : s.panel[d] = NULL

Whole(s, k) == Good(s) /\ Tracked(s) /\ DocksAt(s, k)

\* A client's panel goes with its output only, and stays on its layer.
Outlives(s, r, p) ==
    IF s.panel[p] = NULL THEN r.panel[p] = NULL
    ELSE IF r.panel[p] = NULL
    THEN s.panel[p].output \in InLayout(s.layout) \ InLayout(r.layout)
    ELSE /\ r.panel[p].output = s.panel[p].output
         /\ r.panel[p].layer_output = s.panel[p].layer_output

\* What any change of the outputs leads to.
Changed(s, r, k) ==
    /\ Whole(r, k)
    /\ s.failed => r.failed
    /\ r.failed \/ \A d \in Docks : r.panel[d] = NULL <=> s.panel[d] = NULL
    /\ \A p \in Panel \ Docks : Outlives(s, r, p)

WithOutputs(s, wlr, known, l) ==
    [s EXCEPT !.wlr_output = wlr, !.ephemeral = known, !.layout = l]

\* Panels and lists do not depend on outputs, but on their extents.
LEMMA WithOutputsGood ==
    ASSUME NEW s, Good(s), NEW wlr \in [Output -> OutputStates \cup {NULL}],
           NEW known \in [Output -> Attributes \cup {NULL}], NEW l \in Seq(Entries)
    PROVE  LET r == WithOutputs(s, wlr, known, l) IN
           /\ Good(r)
           /\ r.wlr_output = wlr /\ r.ephemeral = known /\ r.layout = l
           /\ r.extents = s.extents /\ r.panels = s.panels /\ r.panel = s.panel
           /\ r.failed = s.failed
  <1> DEFINE r == WithOutputs(s, wlr, known, l)
  <1>1. s \in StateType
    BY GoodParts
  <1>2. /\ r \in StateType
        /\ r.wlr_output = wlr /\ r.ephemeral = known /\ r.layout = l
        /\ r.extents = s.extents /\ r.panels = s.panels /\ r.panel = s.panel
        /\ r.failed = s.failed
    BY <1>1 DEF WithOutputs, StateType
  <1> HIDE DEF r
  <1>3. ListsAgree(r)
    BY <1>2, GoodParts DEF ListsAgree
  <1>4. \A p \in Panel : r.panel[p] # NULL => PanelAgrees(r, p) /\ HasPlace(r, p)
    BY <1>2, GoodParts DEF PanelAgrees, HasPlace
  <1>5. ASSUME NEW lo \in LayerOutput PROVE ListPlaced(r, lo)
    <2>1. ListPlaced(s, lo)
      BY GoodParts
    <2> QED BY <1>2, <2>1 DEF ListPlaced
  <1> QED BY <1>2, <1>3, <1>4, <1>5 DEF Good, r

\* The event of a layout that changed, with other outputs, other states of them or
\* other places.
LEMMA LayoutChangedWell ==
    ASSUME NEW s, NEW k \in Workspace, Whole(s, k),
           NEW wlr \in [Output -> OutputStates \cup {NULL}],
           NEW known \in [Output -> Attributes \cup {NULL}], NEW l, LaidOut(l),
           \A o \in InLayout(l) : wlr[o] # NULL
    PROVE  LET r == LayoutChanged(WithOutputs(s, wlr, known, l)) IN
           /\ Changed(s, r, k)
           /\ r.wlr_output = wlr /\ r.ephemeral = known /\ r.layout = l
  <1> DEFINE t == WithOutputs(s, wlr, known, l)
             u == ChangeOutputs(t)
             boxes == LayoutBoxes(u.wlr_output, u.layout)
             r == TrackOutputs(u, boxes)
  <1>1. LayoutChanged(t) = TrackOutputs(u, LayoutBoxes(t.wlr_output, t.layout))
    BY DEF LayoutChanged
  <1>2. Good(s) /\ Tracked(s) /\ DocksAt(s, k)
    BY DEF Whole
  <1>3. /\ Good(t)
        /\ t.wlr_output = wlr /\ t.ephemeral = known /\ t.layout = l
        /\ t.extents = s.extents /\ t.panel = s.panel /\ t.failed = s.failed
    <2>1. l \in Seq(Entries)
      BY DEF LaidOut
    <2> HIDE DEF t
    <2> QED BY <1>2, <2>1, WithOutputsGood DEF t
  <1> HIDE DEF t
  <1>4. \/ t.failed
        \/ \A d \in Docks : t.panel[d] # NULL /\ t.panel[d].layer_output # NULL
                                => t.panel[d].layer_output.workspace = k
    <2>1. ASSUME NEW d \in Docks, s.panel[d] # NULL, s.panel[d].layer_output # NULL,
                 ~ s.failed
          PROVE  s.panel[d].layer_output.workspace = k
      <3>1. s.panel[d].layer_output \in Shown(s.layout, k, d)
        BY <1>2, <2>1 DEF DocksAt
      <3> QED BY <2>1, <3>1 DEF Shown
    <2> QED BY <1>3, <2>1
  <1>5. /\ AllShown(t, u, k)
        /\ \A d \in Docks : u.panel[d] = NULL <=> t.panel[d] = NULL
    BY <1>3, <1>4, ChangeOutputsShows
  <1> HIDE DEF u
  <1>6. Good(u) /\ OnlyPanels(t, u, Docks)
    BY <1>5 DEF AllShown
  <1>7. /\ u.wlr_output = wlr /\ u.ephemeral = known /\ u.layout = l
        /\ u.extents = s.extents
        /\ s.failed => u.failed
    BY <1>3, <1>6 DEF OnlyPanels, SameOutputs
  <1>8. /\ DOMAIN boxes = InLayout(l) /\ InLayout(l) \subseteq Output
        /\ \A o \in InLayout(l) : boxes[o] \in Extents
    BY <1>7, LayoutBoxesType, EntryIsThere
  <1> HIDE DEF boxes
  <1>9. /\ Good(r)
        /\ SameOutputs(u, r) /\ r.failed = u.failed
        /\ \A o \in Output : r.extents[o] = IF o \in InLayout(l) THEN boxes[o] ELSE NULL
        /\ \A p \in Panel :
               IF u.panel[p] = NULL \/ LosesOutput(u, p, InLayout(l))
               THEN r.panel[p] = NULL
               ELSE r.panel[p] # NULL /\ SamePanel(r.panel[p], u.panel[p])
    BY <1>6, <1>8, TrackOutputsGood
  <1> HIDE DEF r
  <1>10. /\ r.wlr_output = wlr /\ r.ephemeral = known /\ r.layout = l
         /\ s.failed => r.failed
    BY <1>7, <1>9 DEF SameOutputs
  <1>11. Tracked(r)
    <2>1. boxes = LayoutBoxes(r.wlr_output, r.layout)
      BY <1>7, <1>10 DEF boxes
    <2> QED BY <1>9, <1>10, <2>1 DEF Tracked
  <1>12. ASSUME NEW d \in Docks, ~ r.failed
         PROVE  /\ r.panel[d] = NULL <=> s.panel[d] = NULL
                /\ r.panel[d] # NULL => r.panel[d].layer_output \in Shown(l, k, d)
    <2>1. d \in Panel
      BY DocksArePanels
    <2>2. u.panel[d] = NULL <=> s.panel[d] = NULL
      BY <1>3, <1>5
    <2>3. u.panel[d] # NULL => u.panel[d].layer_output \in Shown(l, k, d)
      BY <1>5, <1>7, <1>9, <1>12 DEF AllShown
    <2>4. u.panel[d] # NULL => ~ LosesOutput(u, d, InLayout(l))
      BY <2>3 DEF Shown, LosesOutput
    <2> QED BY <1>9, <2>1, <2>2, <2>3, <2>4 DEF SamePanel
  <1>13. DocksAt(r, k)
    BY <1>10, <1>12 DEF DocksAt
  <1>14. ASSUME NEW p \in Panel \ Docks PROVE Outlives(s, r, p)
    <2>1. /\ s.panel[p] = NULL <=> u.panel[p] = NULL
          /\ s.panel[p] # NULL => SamePanel(u.panel[p], s.panel[p])
      BY <1>3, <1>6 DEF OnlyPanels
    <2>2. CASE s.panel[p] = NULL
      BY <1>9, <2>1, <2>2 DEF Outlives
    <2>3. CASE s.panel[p] # NULL /\ r.panel[p] # NULL
      BY <1>9, <2>1, <2>3 DEF Outlives, SamePanel
    <2>4. CASE s.panel[p] # NULL /\ r.panel[p] = NULL
      <3>1. LosesOutput(u, p, InLayout(l))
        BY <1>9, <2>1, <2>4
      <3>2. /\ s.panel[p].layer_output # NULL
            /\ s.panel[p].layer_output.output \notin InLayout(l)
        BY <2>1, <2>4, <3>1 DEF LosesOutput, SamePanel
      <3>3. /\ s.panel[p].layer_output.output = s.panel[p].output
            /\ s.extents[s.panel[p].output] # NULL
            /\ s.panel[p].output \in Output
        <4>1. s.panel[p] \in PanelStates /\ PanelAgrees(s, p)
          BY <1>2, <2>4, GoodParts
        <4>2. s.panel[p].layer_output \in LayerOutput
          BY <3>2, <4>1 DEF PanelStates
        <4> QED BY <3>2, <4>1, <4>2 DEF PanelAgrees, LayerOutput
      <3>4. s.panel[p].output \in InLayout(s.layout)
        BY <1>2, <3>3 DEF Tracked
      <3> QED BY <1>10, <2>4, <3>2, <3>3, <3>4 DEF Outlives
    <2> QED BY <2>2, <2>3, <2>4
  <1>15. Changed(s, r, k)
    BY <1>9, <1>10, <1>11, <1>12, <1>13, <1>14 DEF Changed, Whole
  <1>16. LayoutChanged(t) = r
    BY <1>1, <1>3, <1>7 DEF r, boxes
  <1> QED BY <1>10, <1>15, <1>16 DEF t

\* What is known of output q is the same.
OutputStays(s, r, q) ==
    /\ r.wlr_output[q] = s.wlr_output[q]
    /\ r.ephemeral[q] = s.ephemeral[q]
    /\ q \in InLayout(r.layout) <=> q \in InLayout(s.layout)
    /\ q \in InLayout(s.layout) => Entry(r.layout, q) = Entry(s.layout, q)

\* A state that stays loses no panel.
LEMMA Unchanged ==
    ASSUME NEW s, NEW k, Whole(s, k)
    PROVE  Changed(s, s, k)
  BY DEF Changed, Outlives

\* One change after the other is one, if the first adds no output that the second
\* removes.
LEMMA ChangedTwice ==
    ASSUME NEW s, NEW t, NEW r, NEW k, Changed(s, t, k), Changed(t, r, k),
           \/ InLayout(t.layout) = InLayout(s.layout)
           \/ /\ InLayout(t.layout) \subseteq InLayout(s.layout)
              /\ InLayout(r.layout) \subseteq InLayout(t.layout)
    PROVE  Changed(s, r, k)
  <1>1. Whole(r, k) /\ (s.failed => r.failed) /\ (t.failed => r.failed)
    BY DEF Changed
  <1>2. r.failed \/ \A d \in Docks : r.panel[d] = NULL <=> s.panel[d] = NULL
    BY <1>1 DEF Changed
  <1>3. ASSUME NEW p \in Panel \ Docks PROVE Outlives(s, r, p)
    <2>1. Outlives(s, t, p) /\ Outlives(t, r, p)
      BY DEF Changed
    <2>2. CASE s.panel[p] = NULL
      BY <2>1, <2>2 DEF Outlives
    <2>3. CASE s.panel[p] # NULL /\ t.panel[p] = NULL
      BY <2>1, <2>3 DEF Outlives
    <2>4. CASE s.panel[p] # NULL /\ t.panel[p] # NULL
      BY <2>1, <2>4 DEF Outlives
    <2> QED BY <2>2, <2>3, <2>4
  <1> QED BY <1>1, <1>2, <1>3 DEF Changed

\* Outputs that are not in the layout matter to nothing else.
LEMMA ChangedElsewhere ==
    ASSUME NEW s, NEW k \in Workspace, Whole(s, k),
           NEW wlr \in [Output -> OutputStates \cup {NULL}],
           NEW known \in [Output -> Attributes \cup {NULL}],
           \A o \in InLayout(s.layout) : wlr[o] = s.wlr_output[o]
    PROVE  LET r == WithOutputs(s, wlr, known, s.layout) IN
           /\ Changed(s, r, k)
           /\ r.wlr_output = wlr /\ r.ephemeral = known /\ r.layout = s.layout
           /\ r.panel = s.panel
  <1> DEFINE r == WithOutputs(s, wlr, known, s.layout)
  <1>1. Good(s) /\ Tracked(s) /\ DocksAt(s, k) /\ s.layout \in Seq(Entries)
    BY DEF Whole, Tracked, LaidOut
  <1>2. /\ Good(r)
        /\ r.wlr_output = wlr /\ r.ephemeral = known /\ r.layout = s.layout
        /\ r.extents = s.extents /\ r.panel = s.panel /\ r.failed = s.failed
    BY <1>1, WithOutputsGood
  <1> HIDE DEF r
  <1>3. LayoutBoxes(r.wlr_output, r.layout) = LayoutBoxes(s.wlr_output, s.layout)
    BY <1>2, SameLayoutBoxes
  <1>4. Tracked(r)
    BY <1>1, <1>2, <1>3 DEF Tracked
  <1>5. DocksAt(r, k)
    BY <1>1, <1>2 DEF DocksAt
  <1>6. Whole(r, k)
    BY <1>2, <1>4, <1>5 DEF Whole
  <1>7. Changed(s, r, k)
    BY <1>2, <1>6 DEF Changed, Outlives
  <1> QED BY <1>2, <1>7 DEF r

\* To remove an output is a change of that output only (wlr_output_layout_remove).
LEMMA LayoutRemoveWell ==
    ASSUME NEW s, NEW k \in Workspace, Whole(s, k), NEW o \in Output
    PROVE  LET r == LayoutRemove(s, o) IN
           /\ Changed(s, r, k)
           /\ r.wlr_output = s.wlr_output /\ r.ephemeral = s.ephemeral
           /\ InLayout(r.layout) = InLayout(s.layout) \ {o}
           /\ \A q \in Output \ {o} : OutputStays(s, r, q)
  <1>1. CASE o \notin InLayout(s.layout)
    <2>1. LayoutRemove(s, o) = s
      BY <1>1 DEF LayoutRemove
    <2> QED BY <1>1, <2>1, Unchanged DEF OutputStays
  <1>2. CASE o \in InLayout(s.layout)
    <2> DEFINE l == Remove(s.layout, Entry(s.layout, o))
               r == LayoutChanged(WithOutputs(s, s.wlr_output, s.ephemeral, l))
    <2>1. s \in StateType /\ Tracked(s)
      BY GoodParts DEF Whole
    <2>2. /\ s.wlr_output \in [Output -> OutputStates \cup {NULL}]
          /\ s.ephemeral \in [Output -> Attributes \cup {NULL}]
      BY <2>1 DEF StateType
    <2>3. /\ LaidOut(l) /\ InLayout(l) = InLayout(s.layout) \ {o}
          /\ \A q \in InLayout(l) : Entry(l, q) = Entry(s.layout, q)
      BY <1>2, <2>1, RemovedLayout DEF Tracked
    <2>4. [s EXCEPT !.layout = l] = WithOutputs(s, s.wlr_output, s.ephemeral, l)
      <3> HIDE DEF l
      <3> QED BY <2>1 DEF WithOutputs, StateType
    <2>5. LayoutRemove(s, o) = r
      BY <1>2, <2>4 DEF LayoutRemove
    <2> HIDE DEF l
    <2>6. \A q \in InLayout(l) : s.wlr_output[q] # NULL
      BY <2>1, <2>3 DEF Tracked
    <2>7. /\ Changed(s, r, k)
          /\ r.wlr_output = s.wlr_output /\ r.ephemeral = s.ephemeral /\ r.layout = l
      BY <2>2, <2>3, <2>6, LayoutChangedWell
    <2> HIDE DEF r
    <2>8. \A q \in Output \ {o} : OutputStays(s, r, q)
      BY <2>3, <2>7 DEF OutputStays
    <2> QED BY <2>3, <2>5, <2>7, <2>8
  <1> QED BY <1>1, <1>2

\* To add an output is a change of that output only (wlr_output_layout_add).
LEMMA LayoutAddWell ==
    ASSUME NEW s, NEW k \in Workspace, Whole(s, k), NEW o \in Output,
           s.wlr_output[o] # NULL, NEW x \in Int \cup {NULL}
    PROVE  LET r == LayoutAdd(s, o, x) IN
           /\ Changed(s, r, k)
           /\ r.wlr_output = s.wlr_output /\ r.ephemeral = s.ephemeral
           /\ InLayout(r.layout) = InLayout(s.layout) \cup {o}
           /\ Entry(r.layout, o).x = x
           /\ \A q \in Output \ {o} : OutputStays(s, r, q)
  <1> DEFINE l == WithEntry(s.layout, o, x)
             r == LayoutChanged(WithOutputs(s, s.wlr_output, s.ephemeral, l))
  <1>1. s \in StateType /\ Tracked(s)
    BY GoodParts DEF Whole
  <1>2. /\ s.wlr_output \in [Output -> OutputStates \cup {NULL}]
        /\ s.ephemeral \in [Output -> Attributes \cup {NULL}]
    BY <1>1 DEF StateType
  <1>3. /\ LaidOut(l) /\ InLayout(l) = InLayout(s.layout) \cup {o}
        /\ Entry(l, o).x = x
        /\ \A q \in InLayout(s.layout) \ {o} : Entry(l, q) = Entry(s.layout, q)
    BY <1>1, AddedLayout DEF Tracked
  <1>4. LayoutAdd(s, o, x) = LayoutChanged([s EXCEPT !.layout = l])
    BY <1>1 DEF LayoutAdd, WithEntry, StateType
  <1> HIDE DEF l
  <1>5. [s EXCEPT !.layout = l] = WithOutputs(s, s.wlr_output, s.ephemeral, l)
    BY <1>1 DEF WithOutputs, StateType
  <1>6. LayoutAdd(s, o, x) = r
    BY <1>4, <1>5
  <1>7. \A q \in InLayout(l) : s.wlr_output[q] # NULL
    BY <1>1, <1>3 DEF Tracked
  <1>8. /\ Changed(s, r, k)
        /\ r.wlr_output = s.wlr_output /\ r.ephemeral = s.ephemeral /\ r.layout = l
    BY <1>2, <1>3, <1>7, LayoutChangedWell
  <1> HIDE DEF r
  <1>9. \A q \in Output \ {o} : OutputStays(s, r, q)
    BY <1>3, <1>8 DEF OutputStays
  <1> QED BY <1>3, <1>6, <1>8, <1>9

\* To commit a state is a change of that output only (wlr_output_commit_state).
LEMMA CommitStateWell ==
    ASSUME NEW s, NEW k \in Workspace, Whole(s, k), NEW o \in Output,
           s.wlr_output[o] # NULL, NEW w \in OutputStates
    PROVE  LET r == CommitState(s, o, w) IN
           /\ Changed(s, r, k)
           /\ r.wlr_output[o] = w /\ r.ephemeral = s.ephemeral /\ r.layout = s.layout
           /\ \A q \in Output \ {o} : OutputStays(s, r, q)
  <1> DEFINE wlr == [s.wlr_output EXCEPT ![o] = w]
             t == WithOutputs(s, wlr, s.ephemeral, s.layout)
             r == CommitState(s, o, w)
  <1>1. s \in StateType /\ Tracked(s) /\ LaidOut(s.layout)
    BY GoodParts DEF Whole, Tracked
  <1>2. /\ wlr \in [Output -> OutputStates \cup {NULL}]
        /\ s.ephemeral \in [Output -> Attributes \cup {NULL}]
        /\ wlr[o] = w /\ w # NULL
        /\ \A q \in Output \ {o} : wlr[q] = s.wlr_output[q]
        /\ InLayout(s.layout) \subseteq Output
    BY <1>1, EntryIsThere, NullAssumption DEF StateType
  <1>3. r = IF o \in InLayout(s.layout) THEN LayoutChanged([s EXCEPT !.wlr_output = wlr])
            ELSE [s EXCEPT !.wlr_output = wlr]
    BY <1>1 DEF CommitState, StateType
  <1> HIDE DEF wlr
  <1>4. [s EXCEPT !.wlr_output = wlr] = t
    BY <1>1 DEF WithOutputs, StateType
  <1>5. /\ Changed(s, r, k)
        /\ r.wlr_output = wlr /\ r.ephemeral = s.ephemeral /\ r.layout = s.layout
    <2>1. CASE o \in InLayout(s.layout)
      <3>1. r = LayoutChanged(t)
        BY <1>3, <1>4, <2>1
      <3>2. \A q \in InLayout(s.layout) : wlr[q] # NULL
        BY <1>1, <1>2 DEF Tracked
      <3> HIDE DEF r
      <3> QED BY <1>1, <1>2, <3>1, <3>2, LayoutChangedWell
    <2>2. CASE o \notin InLayout(s.layout)
      <3>1. r = t
        BY <1>3, <1>4, <2>2
      <3>2. \A q \in InLayout(s.layout) : wlr[q] = s.wlr_output[q]
        BY <1>2, <2>2
      <3> HIDE DEF r
      <3> QED BY <1>2, <3>1, <3>2, ChangedElsewhere
    <2> QED BY <2>1, <2>2
  <1> HIDE DEF r
  <1>6. \A q \in Output \ {o} : OutputStays(s, r, q)
    BY <1>2, <1>5 DEF OutputStays
  <1> QED BY <1>2, <1>5, <1>6 DEF r

-----------------------------------------------------------------------------
(* Configurations of outputs.                                              *)

\* A scale below 1.0 is not remembered.
ScaledUp(a) == a # NULL => a.scale = AtLeast(One, a.scale)

\* What is remembered of output o follows from its state and its place.
Remembered(s, o) ==
    /\ ScaledUp(s.ephemeral[o])
    /\ s.wlr_output[o] # NULL =>
           /\ s.ephemeral[o] # NULL
           /\ s.ephemeral[o].enabled = s.wlr_output[o].enabled
           /\ s.ephemeral[o].mode = s.wlr_output[o].mode
           /\ s.ephemeral[o].scale = AtLeast(One, s.wlr_output[o].scale)
           /\ o \in InLayout(s.layout) =>
                  s.ephemeral[o].position = Entry(s.layout, o).x

ProperHead(head) ==
    /\ head.output \in Output
    /\ head.enabled \in BOOLEAN
    /\ head.enabled => head.scale \in Scale /\ head.mode \in Modes /\ head.x \in Int

\* What holds of the output of a head that was applied.
Applied(s, head) ==
    LET o == head.output IN
    /\ s.wlr_output[o] # NULL
    /\ s.ephemeral[o] # NULL
    /\ IF head.enabled THEN /\ s.ephemeral[o].enabled
                            /\ s.ephemeral[o].mode = head.mode
                            /\ s.ephemeral[o].scale = AtLeast(One, head.scale)
                       ELSE ~ s.wlr_output[o].enabled

\* A scale that is raised to 1.0 stays.
LEMMA AtLeastOne ==
    ASSUME NEW n \in Scale
    PROVE  /\ AtLeast(One, n) \in Scale
           /\ AtLeast(One, AtLeast(One, n)) = AtLeast(One, n)
           /\ AtLeast(0, n) = n
  <1>1. n \in Nat /\ One \in Scale /\ One \in Nat
    BY ScaleAssumption
  <1> QED BY <1>1 DEF AtLeast

\* What is updated is remembered scaled up, with a position if there is one
\* (wlmbe_output_config_update_attributes).
LEMMA UpdateAttributesType ==
    ASSUME NEW config \in Attributes, NEW w \in OutputStates, NEW x \in Int \cup {NULL}
    PROVE  LET r == UpdateAttributes(config, w, x) IN
           /\ r \in Attributes /\ r # NULL
           /\ r.enabled = w.enabled /\ r.mode = w.mode
           /\ r.scale = AtLeast(One, w.scale) /\ ScaledUp(r)
           /\ x # NULL => r.position = x
           /\ x = NULL => r.position = config.position
  <1>1. AtLeast(One, w.scale) \in Scale /\ w.enabled \in BOOLEAN /\ w.mode \in Modes
    BY AtLeastOne DEF OutputStates
  <1>2. (IF x = NULL THEN config.position ELSE x) \in Int \cup {NULL}
    BY DEF Attributes
  <1>3. UpdateAttributes(config, w, x) \in Attributes
    BY <1>1, <1>2 DEF UpdateAttributes, Attributes
  <1>4. UpdateAttributes(config, w, x) # NULL
    BY <1>3, NullAssumption
  <1>5. w.scale \in Scale
    BY DEF OutputStates
  <1>6. UpdateAttributes(config, w, x).scale = AtLeast(One, w.scale)
    BY DEF UpdateAttributes
  <1>7. ScaledUp(UpdateAttributes(config, w, x))
    BY <1>5, <1>6, AtLeastOne DEF ScaledUp
  <1> QED BY <1>3, <1>4, <1>6, <1>7 DEF UpdateAttributes

\* What is committed for a head (wlr_output_head_v1_state_apply).
LEMMA RequestedType ==
    ASSUME NEW w \in OutputStates, NEW head, ProperHead(head), NEW least \in {0, One}
    PROVE  LET r == Requested(w, head, least) IN
           /\ r \in OutputStates /\ r # NULL
           /\ r.enabled = head.enabled
           /\ r.mode = IF head.enabled THEN head.mode ELSE w.mode
           /\ r.scale = IF head.enabled THEN AtLeast(least, head.scale) ELSE w.scale
  <1> DEFINE r == Requested(w, head, least)
  <1>1. CASE head.enabled
    <2>1. AtLeast(least, head.scale) \in Scale /\ head.mode \in Modes
      BY <1>1, AtLeastOne DEF ProperHead
    <2>2. r = [enabled |-> TRUE, scale |-> AtLeast(least, head.scale), mode |-> head.mode]
      BY <1>1 DEF Requested
    <2> HIDE DEF r
    <2>3. /\ r \in OutputStates /\ r.enabled = TRUE
          /\ r.mode = head.mode /\ r.scale = AtLeast(least, head.scale)
      BY <2>1, <2>2 DEF OutputStates
    <2>4. head.enabled = TRUE
      BY <1>1 DEF ProperHead
    <2>5. r # NULL
      BY <2>3, NullAssumption
    <2> QED BY <2>3, <2>4, <2>5 DEF r
  <1>2. CASE ~ head.enabled
    <2>1. r = [enabled |-> FALSE, scale |-> w.scale, mode |-> w.mode]
      BY <1>2 DEF Requested, OutputStates
    <2> HIDE DEF r
    <2>2. /\ r \in OutputStates /\ r.enabled = FALSE
          /\ r.mode = w.mode /\ r.scale = w.scale
      BY <2>1 DEF OutputStates
    <2>3. head.enabled = FALSE
      BY <1>2 DEF ProperHead
    <2>4. r # NULL
      BY <2>2, NullAssumption
    <2> QED BY <2>2, <2>3, <2>4 DEF r
  <1> QED BY <1>1, <1>2

\* What is remembered of an output stays true as long as nothing of it changes.
LEMMA RememberedStays ==
    ASSUME NEW s, NEW r, NEW q, OutputStays(s, r, q), Remembered(s, q)
    PROVE  Remembered(r, q)
  BY DEF OutputStays, Remembered

\* A head that was applied stays so as long as nothing of its output changes.
LEMMA AppliedStays ==
    ASSUME NEW s, NEW r, NEW head, OutputStays(s, r, head.output), Applied(s, head)
    PROVE  Applied(r, head)
  BY DEF OutputStays, Applied

\* An output that two handlers leave alone stays.
LEMMA OutputStaysTwice ==
    ASSUME NEW s, NEW t, NEW r, NEW q, OutputStays(s, t, q), OutputStays(t, r, q)
    PROVE  OutputStays(s, r, q)
  BY DEF OutputStays

\* What is remembered of outputs matters to nothing else.
LEMMA RememberWell ==
    ASSUME NEW s, NEW k \in Workspace, Whole(s, k), NEW o \in Output, NEW a \in Attributes
    PROVE  LET r == [s EXCEPT !.ephemeral[o] = a] IN
           /\ Changed(s, r, k)
           /\ r.wlr_output = s.wlr_output /\ r.layout = s.layout
           /\ r.ephemeral[o] = a
           /\ \A q \in Output \ {o} : OutputStays(s, r, q)
  <1> DEFINE known == [s.ephemeral EXCEPT ![o] = a]
             r == WithOutputs(s, s.wlr_output, known, s.layout)
  <1>1. s \in StateType
    BY GoodParts DEF Whole
  <1>2. /\ known \in [Output -> Attributes \cup {NULL}] /\ known[o] = a
        /\ \A q \in Output \ {o} : known[q] = s.ephemeral[q]
    BY <1>1 DEF StateType
  <1>3. [s EXCEPT !.ephemeral[o] = a] = [s EXCEPT !.ephemeral = known]
    BY <1>1 DEF StateType
  <1> HIDE DEF known
  <1>4. [s EXCEPT !.ephemeral = known] = r
    BY <1>1 DEF WithOutputs, StateType
  <1>5. s.wlr_output \in [Output -> OutputStates \cup {NULL}]
    BY <1>1 DEF StateType
  <1>6. /\ Changed(s, r, k)
        /\ r.wlr_output = s.wlr_output /\ r.ephemeral = known /\ r.layout = s.layout
    BY <1>2, <1>5, ChangedElsewhere
  <1> HIDE DEF r
  <1> QED BY <1>2, <1>3, <1>4, <1>6 DEF OutputStays

\* The output of a head that is applied.
LEMMA ApplyHeadWell ==
    ASSUME NEW s, NEW k \in Workspace, Whole(s, k), NEW head, ProperHead(head),
           head.output \in InLayout(s.layout), Remembered(s, head.output)
    PROVE  LET r == ApplyHead(s, head) IN
           /\ Changed(s, r, k)
           /\ InLayout(r.layout) \subseteq InLayout(s.layout)
           /\ Remembered(r, head.output)
           /\ Applied(r, head)
           /\ \A q \in Output \ {head.output} : OutputStays(s, r, q)
  <1> DEFINE o == head.output
             w == Requested(s.wlr_output[o], head, One)
             t == CommitState(s, o, w)
             u == IF head.enabled THEN LayoutAdd(t, o, head.x) ELSE LayoutRemove(t, o)
             x == IF head.enabled THEN head.x ELSE NULL
             a == UpdateAttributes(u.ephemeral[o], w, x)
             r == [u EXCEPT !.ephemeral[o] = a]
  <1>1. /\ o \in Output /\ s.wlr_output[o] # NULL /\ s.ephemeral[o] # NULL
        /\ s.wlr_output[o] \in OutputStates /\ s.ephemeral[o] \in Attributes
        /\ InLayout(s.layout) \subseteq Output
    <2>1. s \in StateType /\ o \in Output /\ s.wlr_output[o] # NULL /\ LaidOut(s.layout)
      BY GoodParts DEF Whole, Tracked, ProperHead
    <2>2. s.ephemeral[o] # NULL
      BY <2>1 DEF Remembered
    <2> QED BY <2>1, <2>2, EntryIsThere DEF StateType
  <1>2. /\ w \in OutputStates /\ w # NULL
        /\ w.enabled = head.enabled
        /\ w.mode = IF head.enabled THEN head.mode ELSE s.wlr_output[o].mode
        /\ w.scale = IF head.enabled THEN AtLeast(One, head.scale)
                                     ELSE s.wlr_output[o].scale
    BY <1>1, RequestedType
  <1>3. x \in Int \cup {NULL} /\ (head.enabled => x = head.x /\ x \in Int)
    BY DEF ProperHead
  <1>4. ApplyHead(s, head) = r
    BY DEF ApplyHead
  <1> HIDE DEF w, x
  <1>5. /\ Changed(s, t, k)
        /\ t.wlr_output[o] = w /\ t.ephemeral = s.ephemeral /\ t.layout = s.layout
        /\ \A q \in Output \ {o} : OutputStays(s, t, q)
    BY <1>1, <1>2, CommitStateWell
  <1> HIDE DEF t
  <1>6. Whole(t, k)
    BY <1>5 DEF Changed
  <1>7. /\ Changed(t, u, k)
        /\ u.wlr_output = t.wlr_output /\ u.ephemeral = t.ephemeral
        /\ InLayout(u.layout) = InLayout(s.layout) \ (IF head.enabled THEN {} ELSE {o})
        /\ head.enabled => Entry(u.layout, o).x = head.x
        /\ \A q \in Output \ {o} : OutputStays(t, u, q)
    <2>1. CASE head.enabled
      <3> DEFINE v == LayoutAdd(t, o, head.x)
      <3>1. u = v /\ head.x \in Int \cup {NULL}
        BY <1>3, <2>1
      <3>2. /\ Changed(t, v, k)
            /\ v.wlr_output = t.wlr_output /\ v.ephemeral = t.ephemeral
            /\ InLayout(v.layout) = InLayout(t.layout) \cup {o}
            /\ Entry(v.layout, o).x = head.x
            /\ \A q \in Output \ {o} : OutputStays(t, v, q)
        BY <1>1, <1>2, <1>5, <1>6, <3>1, LayoutAddWell
      <3> HIDE DEF u, v
      <3> QED BY <1>5, <2>1, <3>1, <3>2
    <2>2. CASE ~ head.enabled
      <3> DEFINE v == LayoutRemove(t, o)
      <3>1. u = v
        BY <2>2
      <3>2. /\ Changed(t, v, k)
            /\ v.wlr_output = t.wlr_output /\ v.ephemeral = t.ephemeral
            /\ InLayout(v.layout) = InLayout(t.layout) \ {o}
            /\ \A q \in Output \ {o} : OutputStays(t, v, q)
        BY <1>1, <1>6, LayoutRemoveWell
      <3> HIDE DEF u, v
      <3> QED BY <1>5, <2>2, <3>1, <3>2
    <2> QED BY <2>1, <2>2
  <1> HIDE DEF u
  <1>8. /\ a \in Attributes /\ a # NULL
        /\ a.enabled = w.enabled /\ a.mode = w.mode
        /\ a.scale = AtLeast(One, w.scale) /\ ScaledUp(a)
        /\ x # NULL => a.position = x
    BY <1>1, <1>2, <1>3, <1>5, <1>7, UpdateAttributesType
  <1> HIDE DEF a
  <1>9. Whole(u, k)
    BY <1>7 DEF Changed
  <1>10. /\ Changed(u, r, k)
         /\ r.wlr_output = u.wlr_output /\ r.layout = u.layout
         /\ r.ephemeral[o] = a
         /\ \A q \in Output \ {o} : OutputStays(u, r, q)
    BY <1>1, <1>8, <1>9, RememberWell
  <1> HIDE DEF r
  <1>11. InLayout(r.layout) \subseteq InLayout(s.layout)
    BY <1>7, <1>10
  <1>12. Changed(s, r, k)
    <2>1. Changed(t, r, k)
      BY <1>5, <1>7, <1>10, ChangedTwice
    <2> QED BY <1>5, <2>1, ChangedTwice
  <1>13. \A q \in Output \ {o} : OutputStays(s, r, q)
    BY <1>5, <1>7, <1>10, OutputStaysTwice
  <1>14. Remembered(r, o)
    <2>1. o \in InLayout(r.layout) => a.position = Entry(r.layout, o).x
      <3>1. CASE head.enabled
        <4>1. x # NULL /\ x = head.x
          BY <1>3, <3>1, NullAssumption
        <4> QED BY <1>7, <1>8, <1>10, <3>1, <4>1
      <3>2. CASE ~ head.enabled
        BY <1>7, <1>10, <3>2
      <3> QED BY <3>1, <3>2
    <2> QED BY <1>5, <1>7, <1>8, <1>10, <2>1 DEF Remembered
  <1>15. Applied(r, head)
    <2>1. head.enabled => AtLeast(One, w.scale) = AtLeast(One, head.scale)
      BY <1>2, AtLeastOne DEF ProperHead
    <2>2. r.wlr_output[o] = w /\ r.ephemeral[o] = a
      BY <1>5, <1>7, <1>10
    <2> QED BY <1>2, <1>8, <2>1, <2>2 DEF Applied
  <1> QED BY <1>4, <1>11, <1>12, <1>13, <1>14, <1>15

\* What an operation does that folds the states over a list.
LEMMA RunsInvariance ==
    ASSUME NEW n, NEW S, NEW start, NEW step, Advances(n, S, start, step),
           \A i \in 0..n : S[i] \subseteq StateType
    PROVE  /\ \E f : Runs(f, n, start, step)
           /\ \A f : Proceeds(f, n, start, step) => \A i \in 0..n : f[i] \in S[i]
  <1>1. n \in Nat
    BY DEF Advances
  <1>2. \E f : Runs(f, n, start, step)
    <2>1. PICK f : Walks(f, n, S, start, step)
      BY Iteration
    <2>2. \A i \in 1..n : f[i - 1] \in StateType
      <3>1. ASSUME NEW i \in 1..n PROVE f[i - 1] \in StateType
        <4>1. i - 1 \in 0..n
          BY <1>1
        <4> QED BY <2>1, <4>1 DEF Walks
      <3> QED BY <3>1
    <2>3. Runs(f, n, start, step)
      BY <2>1, <2>2 DEF Walks, Runs
    <2> QED BY <2>3
  <1>3. ASSUME NEW f, Proceeds(f, n, start, step) PROVE \A i \in 0..n : f[i] \in S[i]
    <2>1. ASSUME NEW i \in 1..n, f[i - 1] \in S[i - 1] PROVE f[i] = step[i][f[i - 1]]
      <3>1. i - 1 \in 0..n
        BY <1>1
      <3>2. f[i - 1] \in StateType
        BY <2>1, <3>1
      <3> QED BY <1>3, <3>2 DEF Proceeds
    <2>2. f[0] = start
      BY <1>3 DEF Proceeds
    <2> QED BY <2>1, <2>2, FoldInvariance
  <1> QED BY <1>2, <1>3

\* Heads of different outputs in the layout.
Heads(heads, l) ==
    /\ Len(heads) \in Nat /\ DOMAIN heads = 1..Len(heads)
    /\ \A i \in DOMAIN heads : ProperHead(heads[i]) /\ heads[i].output \in InLayout(l)
    /\ \A i, j \in DOMAIN heads : heads[i].output = heads[j].output => i = j

\* What holds after n of the heads were applied.
HeadsApplied(start, s, k, heads, n) ==
    /\ Changed(start, s, k)
    /\ InLayout(s.layout) \subseteq InLayout(start.layout)
    /\ \A o \in Output : Remembered(s, o)
    /\ \A j \in 1..n : Applied(s, heads[j])
    /\ \A j \in (n + 1)..Len(heads) : heads[j].output \in InLayout(s.layout)

\* Every head finds its output in the layout, and the state of outputs remembered.
LEMMA NextHeadWell ==
    ASSUME NEW start, NEW k \in Workspace, NEW heads, Heads(heads, start.layout),
           NEW i \in 1..Len(heads), NEW s, HeadsApplied(start, s, k, heads, i - 1)
    PROVE  HeadsApplied(start, ApplyHead(s, heads[i]), k, heads, i)
  <1> DEFINE head == heads[i]
             o == head.output
             r == ApplyHead(s, head)
  <1>1. Len(heads) \in Nat /\ DOMAIN heads = 1..Len(heads)
    BY DEF Heads
  <1>2. /\ Changed(start, s, k) /\ Whole(s, k)
        /\ InLayout(s.layout) \subseteq InLayout(start.layout)
        /\ \A q \in Output : Remembered(s, q)
    BY DEF HeadsApplied, Changed
  <1>3. ProperHead(head) /\ o \in Output
    BY <1>1 DEF Heads, ProperHead
  <1>4. o \in InLayout(s.layout)
    <2>1. i \in (i - 1 + 1)..Len(heads)
      BY <1>1
    <2> QED BY <2>1 DEF HeadsApplied
  <1>5. \A j \in 1..Len(heads) : /\ heads[j].output \in Output
                                 /\ j # i => heads[j].output # o
    BY <1>1 DEF Heads, ProperHead
  <1> HIDE DEF head
  <1>6. /\ Changed(s, r, k)
        /\ InLayout(r.layout) \subseteq InLayout(s.layout)
        /\ Remembered(r, o)
        /\ Applied(r, head)
        /\ \A q \in Output \ {o} : OutputStays(s, r, q)
    BY <1>2, <1>3, <1>4, ApplyHeadWell
  <1> HIDE DEF r
  <1>7. Changed(start, r, k) /\ InLayout(r.layout) \subseteq InLayout(start.layout)
    BY <1>2, <1>6, ChangedTwice
  <1>8. ASSUME NEW q \in Output PROVE Remembered(r, q)
    BY <1>2, <1>6, RememberedStays
  <1>9. ASSUME NEW j \in 1..i PROVE Applied(r, heads[j])
    <2>1. CASE j = i
      BY <1>6, <2>1 DEF head
    <2>2. CASE j # i
      <3>1. j \in 1..(i - 1) /\ j \in 1..Len(heads)
        BY <1>1, <2>2
      <3>2. Applied(s, heads[j])
        BY <3>1 DEF HeadsApplied
      <3>3. OutputStays(s, r, heads[j].output)
        BY <1>5, <1>6, <2>2, <3>1
      <3> QED BY <3>2, <3>3, AppliedStays
    <2> QED BY <2>1, <2>2
  <1>10. ASSUME NEW j \in (i + 1)..Len(heads) PROVE heads[j].output \in InLayout(r.layout)
    <2>1. j \in (i - 1 + 1)..Len(heads) /\ j \in 1..Len(heads) /\ j # i
      BY <1>1
    <2>2. heads[j].output \in InLayout(s.layout)
      BY <2>1 DEF HeadsApplied
    <2>3. OutputStays(s, r, heads[j].output)
      BY <1>5, <1>6, <2>1
    <2> QED BY <2>2, <2>3 DEF OutputStays
  <1>11. HeadsApplied(start, r, k, heads, i)
    BY <1>7, <1>8, <1>9, <1>10 DEF HeadsApplied
  <1> QED BY <1>11 DEF r, head

\* The first n heads of a configuration are applied, each to its output, and no output
\* leaves the layout but those of heads that are disabled.
LEMMA ApplyHeadsWell ==
    ASSUME NEW start, NEW k \in Workspace, Whole(start, k),
           \A o \in Output : Remembered(start, o),
           NEW heads, Heads(heads, start.layout), NEW n \in 0..Len(heads)
    PROVE  HeadsApplied(start, ApplyHeads(start, heads, n), k, heads, n)
  <1> DEFINE S == [i \in 0..n |-> {s \in StateType : HeadsApplied(start, s, k, heads, i)}]
             step == [i \in 1..n |-> [s \in StateType |-> ApplyHead(s, heads[i])]]
             Is(f) == f = [i \in 0..n |-> IF i = 0 THEN start
                                          ELSE ApplyHead(f[i - 1], heads[i])]
             after == CHOOSE f : Is(f)
  <1>1. Len(heads) \in Nat /\ n \in Nat /\ n <= Len(heads) /\ start \in StateType
    BY GoodParts DEF Heads, Whole
  <1>2. ApplyHeads(start, heads, n) = after[n]
    BY DEF ApplyHeads
  <1>3. HeadsApplied(start, start, k, heads, 0)
    <2>1. Changed(start, start, k)
      BY Unchanged
    <2>2. \A j \in 1..Len(heads) : heads[j].output \in InLayout(start.layout)
      BY DEF Heads
    <2>3. 1..0 = {} /\ 0 + 1 = 1
      OBVIOUS
    <2> QED BY <2>1, <2>2, <2>3 DEF HeadsApplied
  <1>4. ASSUME NEW i \in 1..n, NEW s \in S[i - 1] PROVE step[i][s] \in S[i]
    <2>1. i - 1 \in 0..n /\ i \in 0..n /\ i \in 1..Len(heads)
      BY <1>1
    <2>2. s \in StateType /\ HeadsApplied(start, s, k, heads, i - 1)
      BY <2>1
    <2>3. HeadsApplied(start, ApplyHead(s, heads[i]), k, heads, i)
      BY <2>1, <2>2, NextHeadWell
    <2>4. ApplyHead(s, heads[i]) \in StateType
      BY <2>3, GoodParts DEF HeadsApplied, Changed, Whole
    <2> QED BY <2>1, <2>2, <2>3, <2>4
  <1>5. start \in S[0] /\ \A i \in 0..n : S[i] \subseteq StateType
    BY <1>1, <1>3
  <1>6. \A i \in 1..n : \A s \in StateType : step[i][s] = ApplyHead(s, heads[i])
    OBVIOUS
  <1>7. S[n] = {s \in StateType : HeadsApplied(start, s, k, heads, n)}
    BY <1>1
  <1> HIDE DEF S, step
  <1>8. Advances(n, S, start, step)
    BY <1>1, <1>4, <1>5 DEF Advances
  <1>9. /\ \E f : Runs(f, n, start, step)
        /\ \A f : Proceeds(f, n, start, step) => \A i \in 0..n : f[i] \in S[i]
    BY <1>5, <1>8, RunsInvariance
  <1>10. PICK f : Runs(f, n, start, step)
    BY <1>9
  <1>11. Is(f)
    <2>1. f = [i \in 0..n |-> f[i]] /\ f[0] = start
      BY <1>10 DEF Runs
    <2>2. ASSUME NEW i \in 0..n, i # 0 PROVE f[i] = ApplyHead(f[i - 1], heads[i])
      <3>1. i \in 1..n
        BY <1>1, <2>2
      <3> QED BY <1>6, <1>10, <3>1 DEF Runs
    <2> QED BY <2>1, <2>2
  <1>12. Is(after)
    <2> HIDE DEF Is
    <2> QED BY <1>11
  <1> HIDE DEF after
  <1>13. Proceeds(after, n, start, step)
    BY <1>1, <1>6, <1>12 DEF Proceeds
  <1>14. after[n] \in S[n]
    <2>1. n \in 0..n
      BY <1>1
    <2> QED BY <1>9, <1>13, <2>1
  <1> QED BY <1>2, <1>7, <1>14

\* The same heads once more, which were all applied.
AllApplied(start, s, k, heads) ==
    /\ Changed(start, s, k)
    /\ InLayout(s.layout) \subseteq InLayout(start.layout)
    /\ \A o \in Output : Remembered(s, o)
    /\ \A j \in DOMAIN heads : Applied(s, heads[j])

\* A head that was applied is committed once more, with the scale it asked for.
LEMMA CommitAgainWell ==
    ASSUME NEW start, NEW k \in Workspace, NEW heads, NEW l, Heads(heads, l),
           NEW i \in DOMAIN heads, NEW s, AllApplied(start, s, k, heads)
    PROVE  LET o == heads[i].output IN
           AllApplied(start, CommitState(s, o, Requested(s.wlr_output[o], heads[i], 0)),
                      k, heads)
  <1> DEFINE head == heads[i]
             o == head.output
             w == Requested(s.wlr_output[o], head, 0)
             r == CommitState(s, o, w)
  <1>1. ProperHead(head) /\ o \in Output
    BY DEF Heads, ProperHead
  <1>2. \A j \in DOMAIN heads : /\ heads[j].output \in Output
                                /\ j # i => heads[j].output # o
    BY DEF Heads, ProperHead
  <1>3. /\ Changed(start, s, k) /\ Whole(s, k)
        /\ InLayout(s.layout) \subseteq InLayout(start.layout)
        /\ \A q \in Output : Remembered(s, q)
        /\ Applied(s, head)
    BY DEF AllApplied, Changed
  <1> HIDE DEF head
  <1>4. s.wlr_output[o] \in OutputStates /\ s.wlr_output[o] # NULL
    BY <1>1, <1>3, GoodParts DEF Whole, StateType, Applied
  <1>5. /\ w \in OutputStates /\ w # NULL
        /\ w.enabled = head.enabled
        /\ w.mode = IF head.enabled THEN head.mode ELSE s.wlr_output[o].mode
        /\ w.scale = IF head.enabled THEN AtLeast(0, head.scale) ELSE s.wlr_output[o].scale
    BY <1>1, <1>4, RequestedType
  <1> HIDE DEF w
  <1>6. /\ Changed(s, r, k)
        /\ r.wlr_output[o] = w /\ r.ephemeral = s.ephemeral /\ r.layout = s.layout
        /\ \A q \in Output \ {o} : OutputStays(s, r, q)
    BY <1>1, <1>3, <1>4, <1>5, CommitStateWell
  <1> HIDE DEF r
  <1>7. Changed(start, r, k) /\ InLayout(r.layout) \subseteq InLayout(start.layout)
    BY <1>3, <1>6, ChangedTwice
  <1>8. Remembered(s, o)
    BY <1>1, <1>3
  <1>9. Remembered(r, o)
    <2>1. CASE head.enabled
      <3>1. /\ s.ephemeral[o].enabled /\ s.ephemeral[o].enabled \in BOOLEAN
            /\ s.ephemeral[o].mode = head.mode
            /\ s.ephemeral[o].scale = AtLeast(One, head.scale)
            /\ s.ephemeral[o] # NULL
        <4>1. s.ephemeral[o] \in Attributes
          BY <1>1, <1>3, GoodParts DEF Whole, StateType, Applied
        <4> QED BY <1>3, <2>1, <4>1 DEF Applied, Attributes
      <3>2. w.scale = head.scale /\ w.enabled = TRUE
        BY <1>1, <1>5, <2>1, AtLeastOne DEF ProperHead
      <3>3. s.ephemeral[o].enabled = TRUE
        BY <3>1
      <3>4. w.mode = head.mode
        BY <1>5, <2>1
      <3>5. o \in InLayout(s.layout) => s.ephemeral[o].position = Entry(s.layout, o).x
        BY <1>4, <1>8 DEF Remembered
      <3>6. ScaledUp(s.ephemeral[o])
        BY <1>8 DEF Remembered
      <3> QED BY <1>6, <3>1, <3>2, <3>3, <3>4, <3>5, <3>6 DEF Remembered
    <2>2. CASE ~ head.enabled
      <3>1. w.enabled = FALSE
        BY <1>1, <1>5, <2>2 DEF ProperHead
      <3>2. s.wlr_output[o].enabled = FALSE
        BY <1>3, <1>4, <2>2 DEF Applied, OutputStates
      <3>3. w.mode = s.wlr_output[o].mode /\ w.scale = s.wlr_output[o].scale
        BY <1>5, <2>2
      <3> QED BY <1>4, <1>6, <1>8, <3>1, <3>2, <3>3 DEF Remembered
    <2> QED BY <2>1, <2>2
  <1>10. ASSUME NEW q \in Output PROVE Remembered(r, q)
    BY <1>3, <1>6, <1>9, RememberedStays
  <1>11. Applied(r, head)
    <2>1. ~ head.enabled => ~ w.enabled
      BY <1>5
    <2> QED BY <1>3, <1>5, <1>6, <2>1 DEF Applied
  <1>12. ASSUME NEW j \in DOMAIN heads PROVE Applied(r, heads[j])
    <2>1. CASE j = i
      BY <1>11, <2>1 DEF head
    <2>2. CASE j # i
      <3>1. Applied(s, heads[j])
        BY DEF AllApplied
      <3>2. OutputStays(s, r, heads[j].output)
        BY <1>2, <1>6, <2>2
      <3> QED BY <3>1, <3>2, AppliedStays
    <2> QED BY <2>1, <2>2
  <1>13. AllApplied(start, r, k, heads)
    BY <1>7, <1>10, <1>12 DEF AllApplied
  <1> QED BY <1>13 DEF r, w, head

\* All heads are committed once more (wlr_backend_commit).
LEMMA BackendCommitWell ==
    ASSUME NEW before, NEW k \in Workspace, NEW heads, NEW l, Heads(heads, l),
           NEW start, AllApplied(before, start, k, heads)
    PROVE  AllApplied(before, BackendCommit(start, heads), k, heads)
  <1> DEFINE n == Len(heads)
             Commit(s, head) == CommitState(s, head.output,
                                    Requested(s.wlr_output[head.output], head, 0))
             T == {s \in StateType : AllApplied(before, s, k, heads)}
             S == [i \in 0..n |-> T]
             step == [i \in 1..n |-> [s \in StateType |-> Commit(s, heads[i])]]
             Is(f) == f = [i \in 0..n |-> IF i = 0 THEN start
                                          ELSE Commit(f[i - 1], heads[i])]
             after == CHOOSE f : Is(f)
  <1>1. n \in Nat /\ DOMAIN heads = 1..n
    BY DEF Heads
  <1>2. BackendCommit(start, heads) = after[n]
    BY DEF BackendCommit
  <1>3. start \in T
    BY GoodParts DEF AllApplied, Changed, Whole
  <1>4. ASSUME NEW i \in 1..n, NEW s \in T PROVE Commit(s, heads[i]) \in T
    <2>1. AllApplied(before, Commit(s, heads[i]), k, heads)
      BY <1>1, CommitAgainWell
    <2>2. Commit(s, heads[i]) \in StateType
      BY <2>1, GoodParts DEF AllApplied, Changed, Whole
    <2> HIDE DEF Commit
    <2> QED BY <2>1, <2>2
  <1>5. T \subseteq StateType
    OBVIOUS
  <1>6. \A i \in 1..n : \A s \in StateType : step[i][s] = Commit(s, heads[i])
    OBVIOUS
  <1>7. \A i \in 0..n : S[i] = T
    OBVIOUS
  <1> HIDE DEF S, step, Commit, T, n
  <1>8. Advances(n, S, start, step)
    <2>1. 0 \in 0..n /\ \A i \in 1..n : i \in 0..n /\ i - 1 \in 0..n
      BY <1>1
    <2> QED BY <1>1, <1>3, <1>4, <1>5, <1>6, <1>7, <2>1 DEF Advances
  <1>9. /\ \E f : Runs(f, n, start, step)
        /\ \A f : Proceeds(f, n, start, step) => \A i \in 0..n : f[i] \in S[i]
    BY <1>5, <1>7, <1>8, RunsInvariance
  <1>10. PICK f : Runs(f, n, start, step)
    BY <1>9
  <1>11. Is(f)
    <2>1. f = [i \in 0..n |-> f[i]] /\ f[0] = start
      BY <1>10 DEF Runs
    <2>2. ASSUME NEW i \in 0..n, i # 0 PROVE f[i] = Commit(f[i - 1], heads[i])
      <3>1. i \in 1..n
        BY <1>1, <2>2
      <3> QED BY <1>6, <1>10, <3>1 DEF Runs
    <2> QED BY <2>1, <2>2
  <1>12. Is(after)
    <2> HIDE DEF Is
    <2> QED BY <1>11
  <1> HIDE DEF after
  <1>13. Proceeds(after, n, start, step)
    BY <1>1, <1>6, <1>12 DEF Proceeds
  <1>14. after[n] \in T
    <2>1. n \in 0..n
      BY <1>1
    <2> QED BY <1>7, <1>9, <1>13, <2>1
  <1> QED BY <1>2, <1>14 DEF T

\* A configuration, whether all of its heads are applied, some or none.
LEMMA ApplyWell ==
    ASSUME NEW s, NEW k \in Workspace, Whole(s, k), \A o \in Output : Remembered(s, o),
           NEW heads, Heads(heads, s.layout), NEW n \in 0..Len(heads) + 1
    PROVE  LET r == Apply(s, heads, n) IN
           Changed(s, r, k) /\ \A o \in Output : Remembered(r, o)
  <1>1. Len(heads) \in Nat /\ DOMAIN heads = 1..Len(heads)
    BY DEF Heads
  <1>2. CASE n <= Len(heads)
    <2>1. Apply(s, heads, n) = ApplyHeads(s, heads, n)
      BY <1>2 DEF Apply
    <2>2. n \in 0..Len(heads)
      BY <1>1, <1>2
    <2>3. HeadsApplied(s, ApplyHeads(s, heads, n), k, heads, n)
      BY <2>2, ApplyHeadsWell
    <2> QED BY <2>1, <2>3 DEF HeadsApplied
  <1>3. CASE ~ (n <= Len(heads))
    <2> DEFINE t == ApplyHeads(s, heads, Len(heads))
    <2>1. Apply(s, heads, n) = BackendCommit(t, heads)
      BY <1>3 DEF Apply
    <2>2. HeadsApplied(s, t, k, heads, Len(heads))
      <3>1. Len(heads) \in 0..Len(heads)
        BY <1>1
      <3> QED BY <3>1, ApplyHeadsWell
    <2> HIDE DEF t
    <2>3. AllApplied(s, t, k, heads)
      BY <1>1, <2>2 DEF HeadsApplied, AllApplied
    <2>4. AllApplied(s, BackendCommit(t, heads), k, heads)
      BY <2>3, BackendCommitWell
    <2> QED BY <2>1, <2>4 DEF AllApplied
  <1> QED BY <1>2, <1>3

\* Clients give a head for every output of the layout, so none has two.
LEMMA RequestsAreHeads ==
    ASSUME NEW l, LaidOut(l), NEW heads \in Requests(l)
    PROVE  Heads(heads, l) /\ Len(heads) = Len(l)
  <1> DEFINE n == Len(l)
             first == [i \in 1..n |-> l[i].output]
             second == [i \in 1..n |-> heads[i].output]
  <1>1. n \in Nat /\ DOMAIN l = 1..n
    BY DEF LaidOut
  <1>2. /\ heads \in [1..n -> OutputHead]
        /\ {h.output : h \in Members(heads)} = InLayout(l)
    BY <1>1 DEF Requests
  <1> HIDE DEF n
  <1>3. DOMAIN heads = 1..n /\ Len(heads) = n
    <2>1. heads \in Seq(OutputHead)
      BY <1>1, <1>2
    <2> QED BY <1>1, <1>2, <2>1
  <1>4. \A i \in 1..n : heads[i] \in Members(heads) /\ heads[i].output \in InLayout(l)
    BY <1>2, <1>3 DEF Members
  <1>5. \A o \in InLayout(l) : \E i \in 1..n : heads[i].output = o
    BY <1>2, <1>3 DEF Members
  <1>6. IsFiniteSet(1..n)
    BY <1>1, FS_Interval
  <1>7. Cardinality(1..n) = Cardinality(InLayout(l))
    <2>1. first \in [1..n -> InLayout(l)]
      BY <1>1 DEF InLayout
    <2>2. \A i, j \in 1..n : first[i] = first[j] => i = j
      BY <1>1 DEF LaidOut
    <2>3. \A o \in InLayout(l) : \E i \in 1..n : first[i] = o
      BY <1>1 DEF InLayout
    <2> HIDE DEF first
    <2>4. first \in Bijection(1..n, InLayout(l))
      BY <2>1, <2>2, <2>3 DEF Bijection, Injection, Surjection, IsInjective
    <2>5. ExistsBijection(1..n, InLayout(l))
      BY <2>4 DEF ExistsBijection
    <2> QED BY <1>6, <2>5, FS_Bijection
  <1>8. \A i, j \in 1..n : second[i] = second[j] => i = j
    <2>1. second \in [1..n -> InLayout(l)]
      BY <1>4
    <2>2. \A o \in InLayout(l) : \E i \in 1..n : second[i] = o
      BY <1>5
    <2> HIDE DEF second
    <2>3. second \in Surjection(1..n, InLayout(l))
      BY <2>1, <2>2 DEF Surjection
    <2>4. second \in Injection(1..n, InLayout(l))
      BY <1>6, <1>7, <2>3, FS_SurjSameCardinalityImpliesInj
    <2> QED BY <2>4 DEF Injection, IsInjective
  <1>9. \A i \in 1..n : ProperHead(heads[i])
    BY <1>2, InputAssumption DEF ProperHead
  <1> QED BY <1>1, <1>3, <1>4, <1>8, <1>9 DEF Heads, n

-----------------------------------------------------------------------------
(* The invariant, and what every step keeps.                               *)

\* What holds of the state when workspace k is the current one.
Holds(s, k) ==
    /\ Whole(s, k)
    /\ s.failed \/ AllDocks(s)
    /\ \A o \in Output : Remembered(s, o)

\* The desktop's workspaces, of which k is the current one.
GoodWorkspaces(list, k) ==
    list \in Seq(Workspace) /\ Unique(list) /\ k \in Members(list)

\* The panels of clients are on workspaces that there are.
OnWorkspaces(s, list) ==
    \A p \in Panel \ Docks : s.panel[p] # NULL /\ s.panel[p].layer_output # NULL
        => s.panel[p].layer_output.workspace \in Members(list)

IInv == /\ GoodWorkspaces(workspaces, current)
        /\ Holds(State, current)
        /\ OnWorkspaces(State, workspaces)
        /\ failed => \A p \in Panel : panel[p] = NULL

\* The program starts without outputs, and knows attributes that were saved.
LEMMA InitialHolds ==
    ASSUME NEW known \in [Output -> Attributes \cup {NULL}], NEW k,
           \A o \in Output : ScaledUp(known[o])
    PROVE  /\ Holds(Initial(known), k)
           /\ Holds([Initial(known) EXCEPT !.failed = TRUE], k)
  <1> DEFINE IsInitial(s) == /\ s \in StateType
                             /\ s.wlr_output = [o \in Output |-> NULL]
                             /\ s.ephemeral = known
                             /\ s.layout = <<>>
                             /\ s.extents = [o \in Output |-> NULL]
                             /\ s.panels = [lo \in LayerOutput |-> <<>>]
                             /\ s.panel = [p \in Panel |-> NULL]
             first == Initial(known)
             ended == [first EXCEPT !.failed = TRUE]
  <1>1. ASSUME NEW s, IsInitial(s) PROVE Holds(s, k)
    <2>1. Members(<<>>) = {} /\ Unique(<<>>) /\ InLayout(<<>>) = {} /\ LaidOut(<<>>)
      BY DEF Members, Unique, InLayout, LaidOut
    <2>2. Good(s)
      BY <1>1, <2>1 DEF Good, ListsAgree, ListPlaced
    <2>3. Tracked(s)
      BY <1>1, <2>1 DEF Tracked
    <2>4. \A d \in Docks : s.panel[d] = NULL
      BY <1>1, DocksArePanels
    <2> QED BY <1>1, <2>2, <2>3, <2>4 DEF Holds, Whole, DocksAt, AllDocks, Remembered
  <1>2. IsInitial(first)
    BY DEF Initial, StateType
  <1> HIDE DEF first
  <1>3. IsInitial(ended)
    BY <1>2 DEF StateType
  <1> HIDE DEF IsInitial
  <1> QED BY <1>1, <1>2, <1>3 DEF first

\* The state that an operation leads to, or the end of the program.
LEMMA BecomesHolds ==
    ASSUME NEW r, NEW k \in Workspace, Holds(r, k), Becomes(r), current' = k,
           NEW list, GoodWorkspaces(list, k), workspaces' = list, OnWorkspaces(r, list)
    PROVE  /\ IInv'
           /\ failed' \/ (panel' = r.panel /\ layout' = r.layout)
  <1> DEFINE next == IF r.failed THEN [Initial(NoAttributes) EXCEPT !.failed = TRUE] ELSE r
  <1>1. /\ wlr_output' = next.wlr_output /\ ephemeral' = next.ephemeral
        /\ layout' = next.layout /\ extents' = next.extents
        /\ panels' = next.panels /\ panel' = next.panel /\ failed' = next.failed
    BY DEF Becomes
  <1>2. Holds(next, k)
    <2>1. /\ NoAttributes \in [Output -> Attributes \cup {NULL}]
          /\ \A o \in Output : ScaledUp(NoAttributes[o])
      BY DEF NoAttributes, ScaledUp
    <2> QED BY <2>1, InitialHolds
  <1>3. /\ r.failed => next.failed
        /\ r.failed => \A p \in Panel : next.panel[p] = NULL
    BY DEF Initial
  <1>4. ~ r.failed => next = r
    OBVIOUS
  <1> HIDE DEF next
  <1>5. next \in StateType
    BY <1>2, GoodParts DEF Holds, Whole
  <1>6. State' = next
    BY <1>1, <1>5 DEF State, StateType
  <1>7. failed' => \A p \in Panel : panel'[p] = NULL
    BY <1>1, <1>3, <1>4
  <1>8. OnWorkspaces(next, list)
    BY <1>3, <1>4 DEF OnWorkspaces
  <1>9. IInv'
    BY <1>2, <1>6, <1>7, <1>8 DEF IInv
  <1> QED BY <1>1, <1>3, <1>4, <1>9

\* A panel that is gone is a client's, and so is its output or its workspace.
Outlived ==
    failed' \/ \A p \in Panel : panel[p] # NULL /\ panel'[p] = NULL =>
        /\ p \notin Docks
        /\ \/ panel[p].output \in InLayout(layout) \ InLayout(layout')
           \/ /\ panel[p].layer_output # NULL
              /\ panel[p].layer_output.workspace
                     \in Members(workspaces) \ Members(workspaces')

\* A change that keeps what is remembered is a step that keeps the invariant.
LEMMA ChangedHolds ==
    ASSUME IInv, NEW r, Changed(State, r, current),
           \A o \in Output : Remembered(r, o), Becomes(r), UNCHANGED desktop
    PROVE  IInv' /\ Outlived
  <1>1. State.panel = panel /\ State.layout = layout /\ State.failed = failed
    BY DEF State
  <1>2. r.failed \/ AllDocks(r)
    BY DEF IInv, Holds, AllDocks, Changed
  <1>3. Holds(r, current)
    BY <1>2 DEF Holds, Changed
  <1>4. OnWorkspaces(r, workspaces)
    BY DEF IInv, OnWorkspaces, Changed, Outlives
  <1>5. /\ GoodWorkspaces(workspaces, current) /\ current \in Workspace
        /\ workspaces' = workspaces /\ current' = current
    BY MembersType DEF IInv, GoodWorkspaces, desktop
  <1>6. IInv' /\ (failed' \/ (panel' = r.panel /\ layout' = r.layout))
    BY <1>3, <1>4, <1>5, BecomesHolds
  <1>7. failed' \/ ~ r.failed
    BY DEF Becomes, Initial
  <1>8. Outlived
    BY <1>1, <1>6, <1>7 DEF Changed, Outlives, Outlived
  <1> QED BY <1>6, <1>8

\* What the invariant says of the variables before a step.
LEMMA StateHolds ==
    ASSUME IInv
    PROVE  /\ GoodWorkspaces(workspaces, current) /\ current \in Workspace
           /\ OnWorkspaces(State, workspaces)
           /\ Holds(State, current) /\ Whole(State, current) /\ Good(State) /\ Tracked(State)
           /\ State \in StateType
           /\ \A o \in Output : Remembered(State, o)
           /\ State.wlr_output = wlr_output /\ State.ephemeral = ephemeral
           /\ State.layout = layout /\ State.extents = extents
           /\ State.panels = panels /\ State.panel = panel /\ State.failed = failed
  <1>1. /\ GoodWorkspaces(workspaces, current) /\ current \in Workspace
        /\ OnWorkspaces(State, workspaces) /\ Holds(State, current)
    BY MembersType DEF IInv, GoodWorkspaces
  <1>2. Whole(State, current) /\ \A o \in Output : Remembered(State, o)
    BY <1>1 DEF Holds
  <1>3. Good(State) /\ Tracked(State)
    BY <1>2 DEF Whole
  <1>4. State \in StateType
    BY <1>3, GoodParts
  <1> QED BY <1>1, <1>2, <1>3, <1>4 DEF State

\* The first of the workspaces that are configured is the current one.
LEMMA InitialWorkspacesGood ==
    ASSUME NEW list \in InitialWorkspaces
    PROVE  GoodWorkspaces(list, Head(list)) /\ Head(list) \in Workspace
  <1>1. list \in Seq(Workspace) /\ list # <<>> /\ Unique(list)
    BY WorkspacesAssumption
  <1>2. Head(list) \in Members(list)
    BY <1>1, EndsAreMembers
  <1> QED BY <1>1, <1>2, MembersType DEF GoodWorkspaces

\* The invariant holds at first.
LEMMA InitHolds ==
    Init => IInv
  <1> SUFFICES ASSUME Init PROVE IInv
    OBVIOUS
  <1> DEFINE r == Initial(NoAttributes)
  <1>1. /\ NoAttributes \in [Output -> Attributes \cup {NULL}]
        /\ \A o \in Output : ScaledUp(NoAttributes[o])
    BY DEF NoAttributes, ScaledUp
  <1>2. Holds(r, current)
    BY <1>1, InitialHolds
  <1>3. State = r /\ \A p \in Panel : panel[p] = NULL
    BY DEF Init, State, Initial
  <1>4. GoodWorkspaces(workspaces, current)
    BY InitialWorkspacesGood DEF Init
  <1>5. OnWorkspaces(State, workspaces)
    BY <1>3 DEF OnWorkspaces, State
  <1> QED BY <1>2, <1>3, <1>4, <1>5 DEF IInv

\* A restart forgets or rereads what was remembered, and every panel goes.
LEMMA RestartHolds ==
    ASSUME IInv, NEW saved \in BOOLEAN, Restart(saved)
    PROVE  IInv'
  <1> DEFINE known == [o \in Output |->
                          IF saved /\ ephemeral[o] # NULL
                          THEN [ephemeral[o] EXCEPT !.mode = Reread(@)] ELSE NULL]
  <1>1. ASSUME NEW o \in Output, ephemeral[o] # NULL
        PROVE  /\ [ephemeral[o] EXCEPT !.mode = Reread(@)] \in Attributes
               /\ ScaledUp([ephemeral[o] EXCEPT !.mode = Reread(@)])
    <2> DEFINE mode == ephemeral[o].mode
    <2>1. ephemeral[o] \in Attributes
      BY <1>1, StateHolds DEF StateType
    <2>2. mode \in Modes /\ mode.refresh \in Nat
      BY <2>1 DEF Attributes, Modes
    <2> HIDE DEF mode
    <2> DEFINE fraction == mode.refresh % 1000
               digits == CASE fraction < 10 -> 100 [] fraction \in 10..99 -> 10
                           [] OTHER -> 1
    <2>3. fraction \in 0..999 /\ mode.refresh - fraction \in Nat
      BY <2>2
    <2> HIDE DEF fraction
    <2>4. digits \in {1, 10, 100}
      BY <2>3
    <2>5. fraction * digits \in Nat
      BY <2>3, <2>4
    <2>6. mode.refresh - fraction + fraction * digits \in Nat
      BY <2>2, <2>3, <2>5
    <2>7. Reread(mode) = [mode EXCEPT !.refresh = @ - fraction + fraction * digits]
      BY DEF Reread, fraction
    <2>8. Reread(mode) \in Modes
      BY <2>2, <2>6, <2>7 DEF Modes
    <2>9. [ephemeral[o] EXCEPT !.mode = Reread(@)] =
              [enabled |-> ephemeral[o].enabled, scale |-> ephemeral[o].scale,
               mode |-> Reread(mode), position |-> ephemeral[o].position]
      BY <2>1 DEF Attributes, mode
    <2>10. ScaledUp(ephemeral[o])
      BY StateHolds DEF Remembered
    <2>11. ScaledUp([ephemeral[o] EXCEPT !.mode = Reread(@)])
      BY <1>1, <2>9, <2>10 DEF ScaledUp
    <2> QED BY <2>1, <2>8, <2>9, <2>11 DEF Attributes
  <1>2. /\ known \in [Output -> Attributes \cup {NULL}]
        /\ \A o \in Output : ScaledUp(known[o])
    BY <1>1 DEF ScaledUp
  <1>3. /\ Becomes(Initial(known))
        /\ workspaces' \in InitialWorkspaces /\ current' = Head(workspaces')
    BY DEF Restart
  <1> HIDE DEF known
  <1>4. PICK list \in InitialWorkspaces : workspaces' = list /\ current' = Head(list)
    BY <1>3
  <1>5. GoodWorkspaces(list, Head(list)) /\ Head(list) \in Workspace
    BY InitialWorkspacesGood
  <1>6. Holds(Initial(known), Head(list))
    BY <1>2, InitialHolds
  <1>7. OnWorkspaces(Initial(known), list)
    BY DEF OnWorkspaces, Initial
  <1> QED BY <1>3, <1>4, <1>5, <1>6, <1>7, BecomesHolds

\* What an operation leaves of the outputs when it commits one of their states.
LEMMA OutputDestroyedHolds ==
    ASSUME IInv, NEW o \in Output, OutputDestroyed(o)
    PROVE  IInv' /\ Outlived
  <1> DEFINE k == current
             t == LayoutRemove(State, o)
             wlr == [t.wlr_output EXCEPT ![o] = NULL]
             r == WithOutputs(t, wlr, t.ephemeral, t.layout)
  <1>1. /\ Changed(State, t, k)
        /\ t.wlr_output = State.wlr_output /\ t.ephemeral = State.ephemeral
        /\ InLayout(t.layout) = InLayout(State.layout) \ {o}
        /\ \A q \in Output \ {o} : OutputStays(State, t, q)
    BY StateHolds, LayoutRemoveWell
  <1> HIDE DEF t
  <1>2. Whole(t, k) /\ t \in StateType /\ LaidOut(t.layout)
    BY <1>1, GoodParts DEF Changed, Whole, Tracked
  <1>3. /\ wlr \in [Output -> OutputStates \cup {NULL}]
        /\ t.ephemeral \in [Output -> Attributes \cup {NULL}]
        /\ wlr[o] = NULL /\ \A q \in Output \ {o} : wlr[q] = t.wlr_output[q]
        /\ InLayout(t.layout) \subseteq Output
    BY <1>2, EntryIsThere DEF StateType
  <1>4. [t EXCEPT !.wlr_output[o] = NULL] = [t EXCEPT !.wlr_output = wlr]
    BY <1>2 DEF StateType
  <1> HIDE DEF wlr
  <1>5. [t EXCEPT !.wlr_output = wlr] = r
    BY <1>2 DEF WithOutputs, StateType
  <1>6. \A q \in InLayout(t.layout) : wlr[q] = t.wlr_output[q]
    BY <1>1, <1>3
  <1>7. /\ Changed(t, r, k)
        /\ r.wlr_output = wlr /\ r.ephemeral = t.ephemeral /\ r.layout = t.layout
    BY <1>2, <1>3, <1>6, StateHolds, ChangedElsewhere
  <1>8. Becomes(r) /\ UNCHANGED desktop
    BY <1>4, <1>5 DEF OutputDestroyed, t
  <1> HIDE DEF r
  <1>9. Changed(State, r, k)
    BY <1>1, <1>7, ChangedTwice
  <1>10. ASSUME NEW q \in Output PROVE Remembered(r, q)
    <2>1. CASE q = o
      <3>1. ScaledUp(r.ephemeral[o])
        BY <1>1, <1>7, StateHolds DEF Remembered
      <3> QED BY <1>3, <1>7, <2>1, <3>1 DEF Remembered
    <2>2. CASE q # o
      <3>1. Remembered(t, q)
        BY <1>1, <2>2, StateHolds, RememberedStays
      <3>2. OutputStays(t, r, q)
        BY <1>3, <1>7, <2>2 DEF OutputStays
      <3> QED BY <3>1, <3>2, RememberedStays
    <2> QED BY <2>1, <2>2
  <1> QED BY <1>8, <1>9, <1>10, StateHolds, ChangedHolds

\* A nested output's window is resized (_wlmbe_output_handle_request_state).
LEMMA RequestStateHolds ==
    ASSUME IInv, NEW o \in Output, NEW mode \in Mode, RequestState(o, mode)
    PROVE  IInv' /\ Outlived
  <1> DEFINE k == current
             w == [wlr_output[o] EXCEPT !.mode = mode]
             t == CommitState(State, o, w)
             a == UpdateAttributes(t.ephemeral[o], w, NULL)
             r == [t EXCEPT !.ephemeral[o] = a]
  <1>1. /\ wlr_output[o] \in OutputStates /\ wlr_output[o] # NULL
        /\ ephemeral[o] \in Attributes /\ ephemeral[o] # NULL
    BY StateHolds DEF RequestState, StateType, Remembered
  <1>2. /\ w = [enabled |-> wlr_output[o].enabled, scale |-> wlr_output[o].scale,
                mode |-> mode]
        /\ w \in OutputStates
    BY <1>1, InputAssumption DEF OutputStates
  <1>3. Becomes(r) /\ UNCHANGED desktop
    BY DEF RequestState
  <1> HIDE DEF w
  <1>4. /\ Changed(State, t, k)
        /\ t.wlr_output[o] = w /\ t.ephemeral = ephemeral /\ t.layout = layout
        /\ \A q \in Output \ {o} : OutputStays(State, t, q)
    BY <1>1, <1>2, StateHolds, CommitStateWell
  <1> HIDE DEF t
  <1>5. Whole(t, k)
    BY <1>4 DEF Changed
  <1>6. /\ a \in Attributes /\ a # NULL
        /\ a.enabled = w.enabled /\ a.mode = w.mode
        /\ a.scale = AtLeast(One, w.scale) /\ ScaledUp(a)
        /\ a.position = ephemeral[o].position
    <2> DEFINE x == NULL
    <2>1. x \in Int \cup {NULL} /\ t.ephemeral[o] = ephemeral[o]
      BY <1>4
    <2>2. a = UpdateAttributes(ephemeral[o], w, x)
      BY <2>1
    <2> HIDE DEF a, x
    <2>3. LET b == UpdateAttributes(ephemeral[o], w, x) IN
          /\ b \in Attributes /\ b # NULL
          /\ b.enabled = w.enabled /\ b.mode = w.mode
          /\ b.scale = AtLeast(One, w.scale) /\ ScaledUp(b)
          /\ x # NULL => b.position = x
          /\ x = NULL => b.position = ephemeral[o].position
      BY <1>1, <1>2, <2>1, UpdateAttributesType
    <2> QED BY <2>2, <2>3 DEF x
  <1> HIDE DEF a
  <1>7. /\ Changed(t, r, k)
        /\ r.wlr_output = t.wlr_output /\ r.layout = t.layout
        /\ r.ephemeral[o] = a
        /\ \A q \in Output \ {o} : OutputStays(t, r, q)
    BY <1>5, <1>6, StateHolds, RememberWell
  <1> HIDE DEF r
  <1>8. Changed(State, r, k)
    <2>1. InLayout(t.layout) = InLayout(State.layout)
      BY <1>4, StateHolds
    <2> QED BY <1>4, <1>7, <2>1, ChangedTwice
  <1>9. ASSUME NEW q \in Output PROVE Remembered(r, q)
    <2>1. CASE q = o
      <3>1. o \in InLayout(layout) => ephemeral[o].position = Entry(layout, o).x
        BY <1>1, StateHolds DEF Remembered
      <3> QED BY <1>4, <1>6, <1>7, <2>1, <3>1 DEF Remembered
    <2>2. CASE q # o
      <3>1. Remembered(t, q)
        BY <1>4, <2>2, StateHolds, RememberedStays
      <3> QED BY <1>7, <2>2, <3>1, RememberedStays
    <2> QED BY <2>1, <2>2
  <1> QED BY <1>3, <1>8, <1>9, StateHolds, ChangedHolds

\* An output is plugged in, with the attributes that were remembered or configured
\* (_wlmbe_backend_handle_new_output).
LEMMA NewOutputHolds ==
    ASSUME IInv, NEW o \in Output, NEW w \in Announced, NEW works \in BOOLEAN,
           NewOutput(o, w, works)
    PROVE  IInv' /\ Outlived
  <1> DEFINE k == current
             matched == IF Configured[o] = NULL THEN FromWlr(w)
                        ELSE ApplyAttributes(FromWlr(w), Configured[o])
             config == IF ephemeral[o] = NULL THEN matched ELSE ephemeral[o]
             state == [enabled |-> config.enabled, mode |-> config.mode,
                       scale |-> AtLeast(One, config.scale)]
             known == [State EXCEPT !.ephemeral[o] = config]
             created == [known EXCEPT !.wlr_output[o] = state]
             r == IF works THEN LayoutAdd(created, o, config.position) ELSE known
  <1>1. wlr_output[o] = NULL /\ Becomes(r) /\ UNCHANGED desktop
    BY DEF NewOutput
  <1>2. o \notin InLayout(layout) /\ LaidOut(layout)
    BY <1>1, StateHolds DEF Tracked
  <1>3. config \in Attributes /\ ScaledUp(config)
    <2>1. CASE ephemeral[o] # NULL
      <3>1. ephemeral[o] \in Attributes
        BY <2>1, StateHolds DEF StateType
      <3>2. ScaledUp(ephemeral[o])
        BY StateHolds DEF Remembered
      <3> QED BY <2>1, <3>1, <3>2
    <2>2. CASE ephemeral[o] = NULL /\ Configured[o] = NULL
      <3>1. config = [enabled |-> w.enabled, scale |-> w.scale, mode |-> w.mode,
                      position |-> NULL]
        BY <2>2 DEF FromWlr
      <3>2. w.enabled \in BOOLEAN /\ w.scale = One /\ w.mode \in Modes
        BY InputAssumption DEF Announced
      <3> HIDE DEF config
      <3>3. config \in Attributes
        BY <3>1, <3>2, ScaleAssumption DEF Attributes
      <3>4. config.scale = One /\ AtLeast(One, One) = One
        BY <3>1, <3>2 DEF AtLeast, One
      <3> QED BY <3>3, <3>4 DEF ScaledUp
    <2>3. CASE ephemeral[o] = NULL /\ Configured[o] # NULL
      <3> DEFINE c == Configured[o]
                 mode == IF c.mode = NULL THEN w.mode ELSE c.mode
                 position == IF c.position = NULL THEN NULL ELSE c.position
      <3>1. c \in [enabled : BOOLEAN, scale : Scale, mode : Modes \cup {NULL},
                   position : Int \cup {NULL}]
        BY <2>3, InputAssumption
      <3>2. w.mode \in Modes
        BY InputAssumption DEF Announced
      <3>3. config = [enabled |-> c.enabled, scale |-> AtLeast(One, c.scale),
                      mode |-> mode, position |-> position]
        BY <2>3 DEF FromWlr, ApplyAttributes
      <3>4. c.enabled \in BOOLEAN /\ c.scale \in Scale /\ mode \in Modes
            /\ position \in Int \cup {NULL}
        BY <3>1, <3>2
      <3> HIDE DEF c, mode, position, config
      <3>5. config \in Attributes
        BY <3>3, <3>4, AtLeastOne DEF Attributes
      <3>6. config.scale = AtLeast(One, c.scale)
        BY <3>3
      <3> QED BY <3>4, <3>5, <3>6, AtLeastOne DEF ScaledUp
    <2> QED BY <2>1, <2>2, <2>3
  <1> HIDE DEF config
  <1>4. config # NULL
    BY <1>3, NullAssumption
  <1>5. /\ Changed(State, known, k)
        /\ known.wlr_output = wlr_output /\ known.layout = layout
        /\ known.ephemeral[o] = config
        /\ \A q \in Output \ {o} : OutputStays(State, known, q)
    BY <1>3, StateHolds, RememberWell
  <1> HIDE DEF known
  <1>6. Whole(known, k) /\ known \in StateType
    BY <1>5, GoodParts DEF Changed, Whole
  <1>7. CASE ~ works
    <2>1. r = known
      BY <1>7
    <2>2. ASSUME NEW q \in Output PROVE Remembered(known, q)
      <3>1. CASE q = o
        BY <1>1, <1>3, <1>5, <3>1 DEF Remembered
      <3>2. CASE q # o
        BY <1>5, <3>2, StateHolds, RememberedStays
      <3> QED BY <3>1, <3>2
    <2> HIDE DEF r
    <2> QED BY <1>1, <1>5, <2>1, <2>2, StateHolds, ChangedHolds
  <1>8. CASE works
    <2> DEFINE x == config.position
               wlr == [known.wlr_output EXCEPT ![o] = state]
               t == WithOutputs(known, wlr, known.ephemeral, known.layout)
               u == LayoutAdd(t, o, x)
    <2>1. /\ config.enabled \in BOOLEAN /\ config.scale \in Scale /\ config.mode \in Modes
          /\ x \in Int \cup {NULL}
      BY <1>3 DEF Attributes
    <2>2. AtLeast(One, config.scale) \in Scale
      BY <2>1, AtLeastOne
    <2>3. /\ state \in OutputStates
          /\ state.enabled = config.enabled /\ state.mode = config.mode
          /\ state.scale = AtLeast(One, config.scale)
      BY <2>1, <2>2 DEF OutputStates
    <2> HIDE DEF state, x
    <2>4. state # NULL
      BY <2>3, NullAssumption
    <2>5. /\ wlr \in [Output -> OutputStates \cup {NULL}] /\ wlr[o] = state
          /\ \A q \in Output \ {o} : wlr[q] = known.wlr_output[q]
          /\ known.ephemeral \in [Output -> Attributes \cup {NULL}]
          /\ InLayout(known.layout) \subseteq Output
      BY <1>2, <1>5, <1>6, <2>3, EntryIsThere DEF StateType
    <2>6. created = [known EXCEPT !.wlr_output = wlr]
      BY <1>6 DEF StateType
    <2> HIDE DEF wlr, created
    <2>7. created = t
      BY <1>6, <2>6 DEF WithOutputs, StateType
    <2>8. r = u
      BY <1>8, <2>7 DEF x
    <2>9. \A q \in InLayout(known.layout) : wlr[q] = known.wlr_output[q]
      BY <1>2, <1>5, <2>5
    <2>10. /\ Changed(known, t, k)
           /\ t.wlr_output = wlr /\ t.ephemeral = known.ephemeral
           /\ t.layout = known.layout
      BY <1>6, <2>5, <2>9, StateHolds, ChangedElsewhere
    <2> HIDE DEF t
    <2>11. Whole(t, k) /\ t.wlr_output[o] # NULL
      BY <2>4, <2>5, <2>10 DEF Changed
    <2>12. /\ Changed(t, u, k)
           /\ u.wlr_output = t.wlr_output /\ u.ephemeral = t.ephemeral
           /\ InLayout(u.layout) = InLayout(t.layout) \cup {o}
           /\ Entry(u.layout, o).x = x
           /\ \A q \in Output \ {o} : OutputStays(t, u, q)
      BY <2>1, <2>11, StateHolds, LayoutAddWell
    <2> HIDE DEF u, r
    <2>13. Changed(State, u, k)
      <3>1. /\ InLayout(known.layout) = InLayout(State.layout)
            /\ InLayout(t.layout) = InLayout(State.layout)
        BY <1>5, <2>10, StateHolds
      <3>2. Changed(State, t, k)
        BY <1>5, <2>10, <3>1, ChangedTwice
      <3> QED BY <2>12, <3>1, <3>2, ChangedTwice
    <2>14. ASSUME NEW q \in Output PROVE Remembered(u, q)
      <3>1. CASE q = o
        <4>1. /\ u.ephemeral[o] = config /\ u.wlr_output[o] = state
              /\ Entry(u.layout, o).x = config.position
          BY <1>5, <2>5, <2>10, <2>12 DEF x
        <4>2. config.scale = AtLeast(One, config.scale)
          BY <1>3, <1>4 DEF ScaledUp
        <4>3. config.scale = AtLeast(One, state.scale)
          BY <2>1, <2>3, <4>2
        <4> QED BY <1>3, <1>4, <2>3, <3>1, <4>1, <4>3 DEF Remembered
      <3>2. CASE q # o
        <4>1. Remembered(known, q)
          BY <1>5, <3>2, StateHolds, RememberedStays
        <4>2. OutputStays(known, t, q)
          BY <2>5, <2>10, <3>2 DEF OutputStays
        <4>3. Remembered(t, q)
          BY <4>1, <4>2, RememberedStays
        <4> QED BY <2>12, <3>2, <4>3, RememberedStays
      <3> QED BY <3>1, <3>2
    <2> QED BY <1>1, <2>8, <2>13, <2>14, StateHolds, ChangedHolds
  <1> QED BY <1>7, <1>8

\* A client's configuration is applied, in part or in full
\* (_wlmbe_output_manager_handle_apply).
LEMMA ApplyConfigurationHolds ==
    ASSUME IInv, NEW n \in 0..Len(layout) + 1, NEW heads \in Requests(layout),
           ApplyConfiguration(heads, n)
    PROVE  IInv' /\ Outlived
  <1>1. Heads(heads, State.layout) /\ Len(heads) = Len(layout)
    BY StateHolds, RequestsAreHeads DEF Tracked
  <1>2. n \in 0..Len(heads) + 1
    BY <1>1
  <1> DEFINE r == Apply(State, heads, n)
  <1>3. Changed(State, r, current) /\ \A o \in Output : Remembered(r, o)
    BY <1>1, <1>2, StateHolds, ApplyWell
  <1>4. Becomes(r) /\ UNCHANGED desktop
    BY DEF ApplyConfiguration
  <1> HIDE DEF r
  <1> QED BY <1>3, <1>4, StateHolds, ChangedHolds

\* All scales are changed, each output stays where it is (wlmbe_output_manager_scale).
LEMMA MagnifyOrReduceHolds ==
    ASSUME IInv, NEW n \in 0..Len(layout) + 1, NEW scaled, MagnifyOrReduce(scaled, n)
    PROVE  IInv' /\ Outlived
  <1> DEFINE Kept(e) == LET w == wlr_output[e.output] IN
                        [output |-> e.output, enabled |-> w.enabled, mode |-> w.mode,
                         scale |-> AtLeast(One, scaled[w.scale]),
                         x |-> extents[e.output].x]
             heads == [i \in DOMAIN layout |-> Kept(layout[i])]
             r == Apply(State, heads, n)
  <1>1. /\ \A h \in Members(heads) : h.scale \in Scale
        /\ Becomes(r) /\ UNCHANGED desktop
    BY DEF MagnifyOrReduce
  <1>2. /\ LaidOut(layout) /\ Len(layout) \in Nat /\ DOMAIN layout = 1..Len(layout)
        /\ \A o \in InLayout(layout) : wlr_output[o] # NULL
    BY StateHolds DEF Tracked, LaidOut
  <1>3. DOMAIN heads = 1..Len(layout) /\ Len(heads) = Len(layout)
    BY <1>2
  <1>4. \A i \in 1..Len(layout) : heads[i] = Kept(layout[i])
    BY <1>2
  <1>5. ASSUME NEW i \in 1..Len(layout)
        PROVE  /\ ProperHead(heads[i])
               /\ heads[i].output = layout[i].output
               /\ heads[i].output \in InLayout(layout)
    <2> DEFINE o == layout[i].output
    <2>1. o \in InLayout(layout) /\ o \in Output
      BY <1>2, EntryIsThere DEF InLayout
    <2>2. wlr_output[o] \in OutputStates
      BY <1>2, <2>1, StateHolds DEF StateType
    <2>3. extents[o] \in Extents
      <3>1. \A q \in InLayout(layout) : LayoutBoxes(wlr_output, layout)[q] \in Extents
        BY <1>2, StateHolds, LayoutBoxesType DEF StateType
      <3>2. extents[o] = LayoutBoxes(wlr_output, layout)[o]
        BY <2>1, StateHolds DEF Tracked
      <3> QED BY <2>1, <3>1, <3>2
    <2>4. heads[i].scale \in Scale
      BY <1>1, <1>3 DEF Members
    <2>5. /\ heads[i].output = o /\ heads[i].enabled = wlr_output[o].enabled
          /\ heads[i].mode = wlr_output[o].mode /\ heads[i].x = extents[o].x
      <3>1. heads[i] = Kept(layout[i])
        BY <1>4
      <3> HIDE DEF heads
      <3>2. heads[i] = [output |-> o, enabled |-> wlr_output[o].enabled,
                        mode |-> wlr_output[o].mode,
                        scale |-> AtLeast(One, scaled[wlr_output[o].scale]),
                        x |-> extents[o].x]
        BY <3>1
      <3> HIDE DEF o
      <3> QED BY <3>2
    <2> HIDE DEF heads, o
    <2>6. ProperHead(heads[i])
      BY <2>1, <2>2, <2>3, <2>4, <2>5 DEF ProperHead, OutputStates, Extents
    <2> QED BY <2>1, <2>5, <2>6 DEF o
  <1> HIDE DEF heads
  <1>6. Heads(heads, State.layout)
    BY <1>2, <1>3, <1>5, StateHolds DEF Heads, LaidOut
  <1>7. n \in 0..Len(heads) + 1
    BY <1>3
  <1>8. Changed(State, r, current) /\ \A o \in Output : Remembered(r, o)
    BY <1>6, <1>7, StateHolds, ApplyWell
  <1> HIDE DEF r
  <1> QED BY <1>1, <1>8, StateHolds, ChangedHolds

\* What is done to panels only.
LEMMA PanelsHold ==
    ASSUME IInv, NEW r, NEW k \in Workspace, Good(r), SameOutputs(State, r),
           r.extents = State.extents, DocksAt(r, k), r.failed \/ AllDocks(r)
    PROVE  Holds(r, k)
  <1>1. /\ r.wlr_output = State.wlr_output /\ r.ephemeral = State.ephemeral
        /\ r.layout = State.layout
    BY DEF SameOutputs
  <1>2. Tracked(r)
    BY <1>1, StateHolds DEF Tracked
  <1>3. ASSUME NEW o \in Output PROVE Remembered(r, o)
    BY <1>1, StateHolds DEF Remembered
  <1> QED BY <1>2, <1>3 DEF Holds, Whole

\* Every dock there is had its turn, and no workspace is gone.
LEMMA AllShownHolds ==
    ASSUME IInv, NEW r, NEW k \in Workspace, AllShown(State, r, k),
           \/ \A d \in Docks : r.panel[d] = NULL <=> State.panel[d] = NULL
           \/ \A d \in Docks : State.panel[d] = NULL /\ r.panel[d] # NULL,
           Becomes(r), current' = k,
           NEW list, workspaces' = list, GoodWorkspaces(list, k),
           Members(workspaces) \subseteq Members(list)
    PROVE  IInv' /\ Outlived
  <1>1. Good(r) /\ OnlyPanels(State, r, Docks)
    BY DEF AllShown
  <1>2. SameOutputs(State, r) /\ r.extents = State.extents /\ (State.failed => r.failed)
    BY <1>1 DEF OnlyPanels
  <1>3. DocksAt(r, k)
    BY DEF AllShown, DocksAt
  <1>4. r.failed \/ AllDocks(r)
    BY <1>2, StateHolds DEF Holds, AllDocks
  <1>5. Holds(r, k)
    BY <1>1, <1>2, <1>3, <1>4, PanelsHold
  <1>6. OnWorkspaces(r, list)
    BY <1>1, StateHolds DEF OnWorkspaces, OnlyPanels, SamePanel
  <1>7. IInv' /\ (failed' \/ (panel' = r.panel /\ layout' = r.layout))
    BY <1>5, <1>6, BecomesHolds
  <1>8. ASSUME NEW p \in Panel, State.panel[p] # NULL PROVE r.panel[p] # NULL
    <2>1. CASE p \in Docks
      BY <1>8, <2>1
    <2>2. CASE p \notin Docks
      BY <1>1, <1>8, <2>2 DEF OnlyPanels
    <2> QED BY <2>1, <2>2
  <1>9. Outlived
    BY <1>7, <1>8, StateHolds DEF Outlived
  <1> QED BY <1>7, <1>9

\* Clip and dock are created when there is an output (main).
LEMMA StartHolds ==
    ASSUME IInv, ~ failed, NEW tiles \in Tiles, Start(tiles)
    PROVE  IInv' /\ Outlived
  <1> DEFINE r == CreateDocks(State, current, tiles)
  <1>1. Becomes(r) /\ current' = current /\ workspaces' = workspaces /\ ~ Running
    BY DEF Start, desktop
  <1>2. \A d \in Docks : State.panel[d] = NULL
    BY <1>1, StateHolds DEF Running, Holds, AllDocks
  <1>3. AllShown(State, r, current) /\ \A d \in Docks : r.panel[d] # NULL
    BY <1>2, StateHolds, CreateDocksShows
  <1> HIDE DEF r
  <1> QED BY <1>1, <1>2, <1>3, StateHolds, AllShownHolds

\* The docks handle the event of workspaces: those there were are where they are to be.
LEMMA WorkspacesShow ==
    ASSUME IInv, NEW k \in Workspace
    PROVE  LET r == ChangeWorkspaces(State, k) IN
           /\ AllShown(State, r, k)
           /\ \A d \in Docks : r.panel[d] = NULL <=> State.panel[d] = NULL
  <1>1. \/ State.failed
        \/ \A d \in Docks : State.panel[d] # NULL
               => State.panel[d].layer_output \in Shown(State.layout, current, d)
    BY StateHolds DEF Whole, DocksAt
  <1> QED BY <1>1, StateHolds, ChangeWorkspacesShows

\* Workspaces are switched (_wlmtk_desktop_switch_to_workspace).
LEMMA SwitchToWorkspaceHolds ==
    ASSUME IInv, NEW k \in Workspace, SwitchToWorkspace(k)
    PROVE  IInv' /\ Outlived
  <1> DEFINE r == ChangeWorkspaces(State, k)
  <1>1. Becomes(r) /\ current' = k /\ workspaces' = workspaces /\ k \in Members(workspaces)
    BY DEF SwitchToWorkspace
  <1>2. AllShown(State, r, k) /\ \A d \in Docks : r.panel[d] = NULL <=> State.panel[d] = NULL
    BY WorkspacesShow
  <1> HIDE DEF r
  <1>3. GoodWorkspaces(workspaces, k)
    BY <1>1, StateHolds DEF GoodWorkspaces
  <1> QED BY <1>1, <1>2, <1>3, AllShownHolds

\* A workspace is added (wlmtk_desktop_add_workspace).
LEMMA AddWorkspaceHolds ==
    ASSUME IInv, NEW k \in Workspace, AddWorkspace(k)
    PROVE  IInv' /\ Outlived
  <1> DEFINE r == ChangeWorkspaces(State, current)
             list == PushBack(workspaces, k)
  <1>1. /\ Becomes(r) /\ current' = current /\ workspaces' = list
        /\ k \notin Members(workspaces)
    BY DEF AddWorkspace
  <1>2. /\ AllShown(State, r, current)
        /\ \A d \in Docks : r.panel[d] = NULL <=> State.panel[d] = NULL
    BY StateHolds, WorkspacesShow
  <1> HIDE DEF r
  <1>3. GoodWorkspaces(list, current) /\ Members(workspaces) \subseteq Members(list)
    BY <1>1, StateHolds, PushBackMembers DEF GoodWorkspaces
  <1> HIDE DEF list
  <1> QED BY <1>1, <1>2, <1>3, StateHolds, AllShownHolds

\* The last workspace is destroyed, and the panels of clients on it are: clip and dock
\* are on the current one (wlmtk_desktop_destroy_last_workspace).
LEMMA DestroyLastWorkspaceHolds ==
    ASSUME IInv, DestroyLastWorkspace
    PROVE  IInv' /\ Outlived
  <1> DEFINE k == current
             last == workspaces[Len(workspaces)]
             list == Remove(workspaces, last)
             u == ChangeWorkspaces(State, k)
             r == DestroyLayerOutputs(u, OfWorkspace(last))
  <1>1. Becomes(r) /\ current' = k /\ workspaces' = list /\ last # k
    BY DEF DestroyLastWorkspace
  <1>2. /\ last \in Members(workspaces)
        /\ GoodWorkspaces(list, k) /\ Members(list) = Members(workspaces) \ {last}
    <2>1. workspaces \in Seq(Workspace) /\ Unique(workspaces) /\ k \in Members(workspaces)
      BY StateHolds DEF GoodWorkspaces
    <2>2. last \in Members(workspaces)
      BY <2>1, EndsAreMembers DEF Members
    <2> HIDE DEF last
    <2> QED BY <1>1, <2>1, <2>2, RemoveMembers, RemoveType DEF GoodWorkspaces
  <1>3. AllShown(State, u, k) /\ \A d \in Docks : u.panel[d] = NULL <=> State.panel[d] = NULL
    BY StateHolds, WorkspacesShow
  <1> HIDE DEF u, last, list
  <1>4. Good(u) /\ OnlyPanels(State, u, Docks)
    BY <1>3 DEF AllShown
  <1>5. OfWorkspace(last) \in SUBSET LayerOutput
    BY DEF OfWorkspace
  <1>6. /\ Good(r)
        /\ SameOutputs(u, r) /\ r.extents = u.extents /\ r.failed = u.failed
        /\ \A p \in Panel :
               r.panel[p] = IF u.panel[p] = NULL
                                \/ u.panel[p].layer_output \in OfWorkspace(last)
                            THEN NULL ELSE u.panel[p]
    BY <1>4, <1>5, DestroyLayerOutputsGood
  <1> HIDE DEF r
  <1>7. /\ SameOutputs(State, r) /\ r.extents = State.extents /\ r.layout = u.layout
        /\ State.failed => r.failed
    BY <1>4, <1>6 DEF OnlyPanels, SameOutputs
  <1>8. ASSUME NEW d \in Docks, ~ r.failed
        PROVE  /\ r.panel[d] = u.panel[d]
               /\ u.panel[d] # NULL => u.panel[d].layer_output \in Shown(u.layout, k, d)
    <2>1. u.panel[d] # NULL => u.panel[d].layer_output \in Shown(u.layout, k, d)
      BY <1>3, <1>6, <1>8 DEF AllShown
    <2>2. u.panel[d] # NULL => u.panel[d].layer_output \notin OfWorkspace(last)
      BY <1>1, <2>1, NullAssumption DEF Shown, OfWorkspace
    <2> QED BY <1>6, <2>1, <2>2, DocksArePanels
  <1>9. DocksAt(r, k)
    BY <1>7, <1>8 DEF DocksAt
  <1>10. r.failed \/ AllDocks(r)
    <2>1. State.failed \/ AllDocks(State)
      BY StateHolds DEF Holds
    <2> QED BY <1>3, <1>7, <1>8, <2>1 DEF AllDocks
  <1>11. Holds(r, k)
    BY <1>6, <1>7, <1>9, <1>10, StateHolds, PanelsHold
  <1>12. ASSUME NEW p \in Panel \ Docks, State.panel[p] # NULL
         PROVE  LET lo == State.panel[p].layer_output IN
                IF lo \in OfWorkspace(last) THEN r.panel[p] = NULL
                ELSE r.panel[p] # NULL /\ r.panel[p].layer_output = lo
    <2>1. u.panel[p] # NULL /\ u.panel[p].layer_output = State.panel[p].layer_output
      BY <1>4, <1>12 DEF OnlyPanels, SamePanel
    <2> QED BY <1>6, <2>1
  <1>13. ASSUME NEW p \in Panel \ Docks, State.panel[p] = NULL PROVE r.panel[p] = NULL
    BY <1>4, <1>6, <1>13 DEF OnlyPanels
  <1>14. ASSUME NEW p \in Panel, State.panel[p] # NULL,
                State.panel[p].layer_output # NULL
         PROVE  State.panel[p].layer_output \in LayerOutput
    BY <1>14, StateHolds, GoodParts DEF PanelStates
  <1>15. OnWorkspaces(r, list)
    <2> SUFFICES ASSUME NEW p \in Panel \ Docks, r.panel[p] # NULL,
                        r.panel[p].layer_output # NULL
                 PROVE  r.panel[p].layer_output.workspace \in Members(list)
      BY DEF OnWorkspaces
    <2> DEFINE lo == State.panel[p].layer_output
    <2>1. State.panel[p] # NULL /\ r.panel[p].layer_output = lo /\ lo \notin OfWorkspace(last)
      BY <1>12, <1>13
    <2>2. lo \in LayerOutput /\ lo.workspace # last
      BY <1>14, <2>1 DEF OfWorkspace
    <2>3. lo.workspace \in Members(workspaces)
      BY <2>1, StateHolds DEF OnWorkspaces
    <2> QED BY <1>2, <2>1, <2>2, <2>3
  <1>16. IInv' /\ (failed' \/ (panel' = r.panel /\ layout' = r.layout))
    BY <1>1, <1>2, <1>11, <1>15, StateHolds, BecomesHolds
  <1>17. Outlived
    <2>1. failed' \/ ~ r.failed
      BY <1>1 DEF Becomes, Initial
    <2>2. ASSUME NEW p \in Panel, panel[p] # NULL, r.panel[p] = NULL, ~ r.failed
          PROVE  /\ p \notin Docks
                 /\ panel[p].layer_output # NULL
                 /\ panel[p].layer_output.workspace = last
      <3>1. State.panel[p] # NULL
        BY <2>2, StateHolds
      <3>2. p \notin Docks
        BY <1>3, <1>8, <2>2, <3>1
      <3>3. State.panel[p].layer_output \in OfWorkspace(last)
        BY <1>12, <2>2, <3>1, <3>2
      <3>4. /\ State.panel[p].layer_output # NULL
            /\ State.panel[p].layer_output.workspace = last
        BY <3>3, NullAssumption DEF OfWorkspace
      <3> QED BY <3>2, <3>4, StateHolds
    <2>3. last \in Members(workspaces) \ Members(workspaces')
      BY <1>1, <1>2
    <2> QED BY <1>16, <2>1, <2>2, <2>3 DEF Outlived
  <1> QED BY <1>16, <1>17

\* Clip and dock get other tiles, or another theme.
LEMMA TilesChangedHolds ==
    ASSUME IInv, NEW tiles \in Tiles, TilesChanged(tiles)
    PROVE  IInv' /\ Outlived
  <1> DEFINE r == ResizeTiles(State, tiles)
  <1>1. Becomes(r) /\ current' = current /\ workspaces' = workspaces
    BY DEF TilesChanged, desktop
  <1>2. \/ State.failed
        \/ \A d \in Docks : State.panel[d] # NULL
               => State.panel[d].layer_output \in Shown(State.layout, current, d)
    BY StateHolds DEF Whole, DocksAt
  <1>3. /\ AllShown(State, r, current)
        /\ \A d \in Docks : r.panel[d] = NULL <=> State.panel[d] = NULL
    BY <1>2, StateHolds, ResizeTilesShows
  <1> HIDE DEF r
  <1> QED BY <1>1, <1>3, StateHolds, AllShownHolds

\* A client changes one of its panels.
LEMMA OnlyPanelHolds ==
    ASSUME IInv, NEW p \in Panel \ Docks, NEW r, Good(r), OnlyPanel(State, r, p),
           r.panel[p] # NULL =>
               \/ r.panel[p].layer_output = NULL
               \/ r.panel[p].layer_output.workspace = current
               \/ /\ State.panel[p] # NULL
                  /\ r.panel[p].layer_output = State.panel[p].layer_output
    PROVE  Holds(r, current) /\ OnWorkspaces(r, workspaces) /\ r.failed = State.failed
  <1>1. SameOutputs(State, r) /\ r.extents = State.extents /\ r.failed = State.failed
    BY DEF OnlyPanel
  <1>2. ASSUME NEW d \in Docks
        PROVE  /\ State.panel[d] = NULL <=> r.panel[d] = NULL
               /\ State.panel[d] # NULL => SamePanel(r.panel[d], State.panel[d])
    <2>1. d \in Panel \ {p}
      BY DocksArePanels
    <2> QED BY <2>1 DEF OnlyPanel
  <1>3. r.layout = State.layout
    BY <1>1 DEF SameOutputs
  <1>4. DocksAt(r, current)
    BY <1>1, <1>2, <1>3, StateHolds DEF Whole, DocksAt, SamePanel
  <1>5. r.failed \/ AllDocks(r)
    BY <1>1, <1>2, StateHolds DEF Holds, AllDocks
  <1>6. OnWorkspaces(r, workspaces)
    <2> SUFFICES ASSUME NEW q \in Panel \ Docks, r.panel[q] # NULL,
                        r.panel[q].layer_output # NULL
                 PROVE  r.panel[q].layer_output.workspace \in Members(workspaces)
      BY DEF OnWorkspaces
    <2>1. OnWorkspaces(State, workspaces) /\ current \in Members(workspaces)
      BY StateHolds DEF GoodWorkspaces
    <2>2. CASE q = p
      BY <2>1, <2>2 DEF OnWorkspaces
    <2>3. CASE q # p
      BY <2>1, <2>3 DEF OnWorkspaces, OnlyPanel, SamePanel
    <2> QED BY <2>2, <2>3
  <1> QED BY <1>1, <1>4, <1>5, <1>6, StateHolds, PanelsHold

\* A client commits its panel (_wlmaker_layer_panel_handle_surface_commit).
LEMMA CommitSurfaceHolds ==
    ASSUME IInv, NEW p \in Panel \ Docks, NEW pos \in Positioning, NEW l \in Layer,
           CommitSurface(p, pos, l)
    PROVE  IInv' /\ Outlived
  <1> DEFINE t == CommitPositioning(State, p, pos)
             r == ApplyLayer(t, p, l)
  <1>1. /\ State.panel[p] # NULL /\ Becomes(r)
        /\ current' = current /\ workspaces' = workspaces
    BY StateHolds DEF CommitSurface, desktop
  <1>2. pos \in Positionings
    BY InputAssumption
  <1>3. Good(t) /\ OnlyPanel(State, t, p) /\ t.panel[p] # NULL
    BY <1>1, <1>2, StateHolds, CommitPositioningGood
  <1> HIDE DEF t
  <1>4. /\ Good(r) /\ OnlyPanel(t, r, p) /\ r.panel[p] # NULL
        /\ \/ r.panel[p].layer_output = NULL
           \/ r.panel[p].layer_output.workspace = current
    BY <1>3, StateHolds, ApplyLayerGood
  <1> HIDE DEF r
  <1>5. OnlyPanel(State, r, p)
    BY <1>3, <1>4, OnlyPanelTwice
  <1>6. Holds(r, current) /\ OnWorkspaces(r, workspaces)
    BY <1>4, <1>5, OnlyPanelHolds
  <1>7. IInv' /\ (failed' \/ (panel' = r.panel /\ layout' = r.layout))
    BY <1>1, <1>6, StateHolds, BecomesHolds
  <1>8. Outlived
    BY <1>4, <1>5, <1>7, StateHolds DEF OnlyPanel, Outlived
  <1> QED BY <1>7, <1>8

\* A client destroys its panel, and no other one (_wlmaker_layer_panel_handle_destroy).
LEMMA LayerSurfaceDestroyedHolds ==
    ASSUME IInv, NEW p \in Panel \ Docks, LayerSurfaceDestroyed(p)
    PROVE  /\ IInv'
           /\ failed' \/ \A q \in Panel \ {p} : panel[q] # NULL => panel'[q] # NULL
  <1> DEFINE r == DestroyPanel(State, p)
  <1>1. /\ State.panel[p] # NULL /\ Becomes(r)
        /\ current' = current /\ workspaces' = workspaces
    BY StateHolds DEF LayerSurfaceDestroyed, desktop
  <1>2. Good(r) /\ OnlyPanel(State, r, p) /\ r.panel[p] = NULL
    BY <1>1, StateHolds, DestroyPanelGood
  <1> HIDE DEF r
  <1>3. Holds(r, current) /\ OnWorkspaces(r, workspaces)
    BY <1>2, OnlyPanelHolds
  <1>4. IInv' /\ (failed' \/ (panel' = r.panel /\ layout' = r.layout))
    BY <1>1, <1>3, StateHolds, BecomesHolds
  <1> QED BY <1>2, <1>4, StateHolds DEF OnlyPanel

\* A panel that is created, or that its client maps or unmaps.
LEMMA PanelAloneHolds ==
    ASSUME IInv, ~ failed, NEW p \in Panel \ Docks, NEW a \in PanelStates,
           \/ panel[p] = NULL /\ Loose(a)
           \/ panel[p] # NULL /\ a = [panel[p] EXCEPT !.visible = a.visible],
           panel' = [panel EXCEPT ![p] = a],
           UNCHANGED <<wlr_output, ephemeral, layout, extents, panels, desktop, failed>>
    PROVE  IInv' /\ Outlived
  <1> DEFINE r == WithPanel(State, p, a)
  <1>1. a # NULL
    BY NullAssumption
  <1>2. Loose(State.panel[p]) \/ State.panel[p] # NULL
    BY DEF Loose
  <1>3. \/ Loose(State.panel[p]) /\ Loose(a)
        \/ /\ State.panel[p] # NULL /\ a # NULL
           /\ a = [State.panel[p] EXCEPT !.visible = a.visible]
    BY <1>1, StateHolds DEF Loose
  <1>4. Good(r) /\ OnlyPanel(State, r, p) /\ r.panel[p] = a
    BY <1>3, StateHolds, WithPanelGood
  <1>5. State' = r
    <2>1. /\ r \in StateType
          /\ SameOutputs(State, r)
          /\ r.extents = State.extents /\ r.failed = State.failed
          /\ r.panels = State.panels
      BY StateHolds, WithPanelFields
    <2>2. r.panel = [panel EXCEPT ![p] = a]
      BY StateHolds DEF WithPanel, StateType
    <2> HIDE DEF r
    <2> QED BY <2>1, <2>2, StateHolds DEF SameOutputs, State, StateType
  <1> HIDE DEF r
  <1>6. Holds(r, current) /\ OnWorkspaces(r, workspaces)
    <2>1. a.layer_output = NULL \/ a.layer_output = State.panel[p].layer_output
      <3>1. CASE Loose(a)
        BY <1>1, <3>1 DEF Loose
      <3>2. CASE a = [State.panel[p] EXCEPT !.visible = a.visible] /\ State.panel[p] # NULL
        <4>1. State.panel[p] \in PanelStates
          BY <3>2, StateHolds, GoodParts
        <4> QED BY <3>2, <4>1 DEF PanelStates
      <3> QED BY <1>3, <3>1, <3>2
    <2>2. a.layer_output # NULL => State.panel[p] # NULL
      BY <1>1, <1>3 DEF Loose
    <2> QED BY <1>4, <2>1, <2>2, OnlyPanelHolds
  <1>7. IInv'
    BY <1>5, <1>6, StateHolds DEF IInv, desktop
  <1>8. \A q \in Panel : panel[q] # NULL => panel'[q] # NULL
    <2>1. panel' = r.panel
      BY <1>5 DEF State
    <2> QED BY <1>1, <1>4, <2>1, StateHolds DEF OnlyPanel
  <1> QED BY <1>7, <1>8 DEF Outlived

\* A client creates a panel, which is on no layer yet (wlmaker_layer_panel_create).
LEMMA NewLayerSurfaceHolds ==
    ASSUME IInv, ~ failed, NEW p \in Panel \ Docks, NEW o \in Output \cup {NULL},
           NewLayerSurface(p, o)
    PROVE  IInv' /\ Outlived
  <1> DEFINE margin == [left |-> 0, right |-> 0]
             pos == [anchor |-> {}, width |-> 0, zone |-> 0, edge |-> NULL,
                     margin |-> margin]
             a == [output |-> o, layer_output |-> NULL, box |-> NULL, visible |-> FALSE,
                   positioning |-> pos]
  <1>1. pos \in Positionings
    <2>1. margin \in [left : Int, right : Int]
      OBVIOUS
    <2> HIDE DEF margin
    <2> QED BY <2>1 DEF Positionings
  <1> HIDE DEF pos
  <1>2. a \in PanelStates /\ Loose(a)
    BY <1>1 DEF PanelStates, Loose
  <1>3. /\ panel[p] = NULL
        /\ panel' = [panel EXCEPT ![p] = a]
        /\ UNCHANGED <<wlr_output, ephemeral, layout, extents, panels, desktop, failed>>
    BY DEF NewLayerSurface, pos
  <1> HIDE DEF a
  <1> QED BY <1>2, <1>3, PanelAloneHolds

\* A panel is shown or hidden: its zone counts when the list is placed next.
LEMMA SetMappedHolds ==
    ASSUME IInv, ~ failed, NEW p \in Panel \ Docks, NEW mapped \in BOOLEAN, SetMapped(p, mapped)
    PROVE  IInv' /\ Outlived
  <1> DEFINE a == [panel[p] EXCEPT !.visible = mapped]
  <1>1. panel[p] # NULL /\ panel[p] \in PanelStates
    BY StateHolds, GoodParts DEF SetMapped
  <1>2. a = [output |-> panel[p].output, layer_output |-> panel[p].layer_output,
             box |-> panel[p].box, visible |-> mapped,
             positioning |-> panel[p].positioning]
    BY <1>1 DEF PanelStates
  <1>3. a \in PanelStates
    BY <1>1, <1>2 DEF PanelStates
  <1>4. a.visible = mapped
    BY <1>2
  <1>5. a = [panel[p] EXCEPT !.visible = a.visible]
    BY <1>4
  <1>6. /\ panel' = [panel EXCEPT ![p] = a]
        /\ UNCHANGED <<wlr_output, ephemeral, layout, extents, panels, desktop, failed>>
    <2>1. panel' = [panel EXCEPT ![p].visible = mapped]
      BY DEF SetMapped
    <2> QED BY <2>1 DEF SetMapped
  <1> HIDE DEF a
  <1> QED BY <1>1, <1>3, <1>5, <1>6, PanelAloneHolds

-----------------------------------------------------------------------------
(* The theorems.                                                           *)

\* Every step keeps the invariant.
LEMMA NextHolds ==
    IInv /\ [Next]_vars => IInv'
  <1> SUFFICES ASSUME IInv, [Next]_vars PROVE IInv'
    OBVIOUS
  <1>1. ASSUME NEW saved \in BOOLEAN, Restart(saved) PROVE IInv'
    BY <1>1, RestartHolds
  <1>2. ASSUME NEW o \in Output, NEW w \in Announced, NEW works \in BOOLEAN,
               NewOutput(o, w, works)
        PROVE  IInv'
    BY <1>2, NewOutputHolds
  <1>3. ASSUME ~ failed, NEW tiles \in Tiles, Start(tiles) PROVE IInv'
    BY <1>3, StartHolds
  <1>4. ASSUME NEW o \in Output, OutputDestroyed(o) PROVE IInv'
    BY <1>4, OutputDestroyedHolds
  <1>5. ASSUME Reconfiguring PROVE IInv'
    <2>1. ASSUME NEW o \in Output, NEW mode \in Mode, RequestState(o, mode) PROVE IInv'
      BY <2>1, RequestStateHolds
    <2>2. ASSUME NEW n \in 0..Len(layout) + 1, NEW heads \in Requests(layout),
                 ApplyConfiguration(heads, n)
          PROVE  IInv'
      BY <2>2, ApplyConfigurationHolds
    <2>3. ASSUME NEW n \in 0..Len(layout) + 1, NEW scaled, MagnifyOrReduce(scaled, n)
          PROVE  IInv'
      BY <2>3, MagnifyOrReduceHolds
    <2> QED BY <1>5, <2>1, <2>2, <2>3 DEF Reconfiguring
  <1>6. ASSUME ~ failed, NEW p \in Panel \ Docks, OfClient(p) PROVE IInv'
    <2>1. ASSUME NEW o \in Output \cup {NULL}, NewLayerSurface(p, o) PROVE IInv'
      BY <1>6, <2>1, NewLayerSurfaceHolds
    <2>2. ASSUME NEW pos \in Positioning, NEW l \in Layer, CommitSurface(p, pos, l)
          PROVE  IInv'
      BY <2>2, CommitSurfaceHolds
    <2>3. ASSUME NEW mapped \in BOOLEAN, SetMapped(p, mapped) PROVE IInv'
      BY <1>6, <2>3, SetMappedHolds
    <2>4. ASSUME LayerSurfaceDestroyed(p) PROVE IInv'
      BY <2>4, LayerSurfaceDestroyedHolds
    <2> QED BY <1>6, <2>1, <2>2, <2>3, <2>4 DEF OfClient
  <1>7. ASSUME OfProgram PROVE IInv'
    <2>1. ASSUME NEW k \in Workspace, SwitchToWorkspace(k) PROVE IInv'
      BY <2>1, SwitchToWorkspaceHolds
    <2>2. ASSUME NEW k \in Workspace, AddWorkspace(k) PROVE IInv'
      BY <2>2, AddWorkspaceHolds
    <2>3. ASSUME DestroyLastWorkspace PROVE IInv'
      BY <2>3, DestroyLastWorkspaceHolds
    <2>4. ASSUME NEW tiles \in Tiles, TilesChanged(tiles) PROVE IInv'
      BY <2>4, TilesChangedHolds
    <2> QED BY <1>7, <2>1, <2>2, <2>3, <2>4 DEF OfProgram
  <1>8. CASE UNCHANGED vars
    <2>1. State' = State
      BY <1>8 DEF vars, State
    <2> QED BY <1>8, <2>1 DEF IInv, vars, desktop
  <1> QED BY <1>1, <1>2, <1>3, <1>4, <1>5, <1>6, <1>7, <1>8 DEF Next

\* The invariant: the layers know the extents of the outputs in the layout, every
\* panel and the layer output it is on know each other, and clip and dock are where
\* the layout and the current workspace have them.
THEOREM OutputsInvariant == Spec => []IInv
  <1> QED BY InitHolds, NextHolds, PTL DEF Spec

\* The variables keep their types, through configurations of any number of outputs,
\* applied in part or in full.
THEOREM OutputsTypeCorrect == Spec => []TypeOK
  <1>1. IInv => TypeOK
    <2> SUFFICES ASSUME IInv PROVE TypeOK
      OBVIOUS
    <2>1. /\ wlr_output \in [Output -> OutputStates \cup {NULL}]
          /\ ephemeral \in [Output -> Attributes \cup {NULL}]
          /\ layout \in Seq(Entries)
          /\ extents \in [Output -> [x : Int, width : Nat] \cup {NULL}]
          /\ panels \in [LayerOutput -> Seq(Panel)]
          /\ panel \in [Panel -> PanelStates \cup {NULL}]
          /\ failed \in BOOLEAN
      BY StateHolds DEF StateType, Extents
    <2>2. \A p \in Panel : panel[p] # NULL =>
              (panel[p].box = NULL <=> panel[p].layer_output = NULL)
      BY StateHolds, GoodParts DEF HasPlace
    <2> QED BY <2>1, <2>2, StateHolds DEF TypeOK, GoodWorkspaces
  <1> QED BY <1>1, OutputsInvariant, PTL

\* A panel is linked in the list of the layer output that it knows and in no other,
\* and no list has a panel that was destroyed, or is on a workspace that was.
THEOREM OutputsPanelsAgree == Spec => []PanelsAgree
  <1>1. IInv => PanelsAgree
    <2> SUFFICES ASSUME IInv PROVE PanelsAgree
      OBVIOUS
    <2>1. ListsAgree(State) /\ \A p \in Panel : panel[p] # NULL => PanelAgrees(State, p)
      BY StateHolds, GoodParts
    <2>2. ASSUME NEW p \in Panel, panel[p] # NULL, panel[p].layer_output # NULL
          PROVE  panel[p].layer_output.workspace \in Members(workspaces)
      <3>1. CASE p \in Docks
        <4>1. ~ failed
          BY <2>2 DEF IInv
        <4>2. panel[p].layer_output \in Shown(layout, current, p)
          BY <2>2, <3>1, <4>1, StateHolds DEF Whole, DocksAt
        <4>3. panel[p].layer_output.workspace = current
          BY <2>2, <4>2 DEF Shown
        <4> QED BY <4>3, StateHolds DEF GoodWorkspaces
      <3>2. CASE p \notin Docks
        BY <2>2, <3>2, StateHolds DEF OnWorkspaces
      <3> QED BY <3>1, <3>2
    <2> QED BY <2>1, <2>2, StateHolds DEF ListsAgree, PanelAgrees, PanelsAgree
  <1> QED BY <1>1, OutputsInvariant, PTL

\* The panels of a layer are placed one after the other in the place that the output
\* has in the layout, whatever was done to the layout, the outputs and the panels.
THEOREM OutputsPanelsArePlaced == Spec => []PanelsArePlaced
  <1>1. IInv => PanelsArePlaced
    <2> SUFFICES ASSUME IInv PROVE PanelsArePlaced
      OBVIOUS
    <2> DEFINE boxes == LayoutBoxes(wlr_output, layout)
    <2>1. DOMAIN boxes = InLayout(layout)
      <3>1. wlr_output \in [Output -> OutputStates \cup {NULL}]
        BY StateHolds DEF StateType
      <3>2. LaidOut(layout) /\ \A o \in InLayout(layout) : wlr_output[o] # NULL
        BY StateHolds DEF Tracked
      <3> QED BY <3>1, <3>2, LayoutBoxesType
    <2>2. ASSUME NEW o \in Output
          PROVE  extents[o] = IF o \in InLayout(layout) THEN boxes[o] ELSE NULL
      BY StateHolds DEF Tracked
    <2> HIDE DEF boxes
    <2>3. ASSUME NEW lo \in LayerOutput, panels[lo] # <<>>
          PROVE  /\ lo.output \in DOMAIN boxes
                 /\ \E seen \in SUBSET Members(panels[lo]) :
                        [i \in DOMAIN panels[lo] |-> panel[panels[lo][i]].box]
                            = Boxes(panel, panels[lo], boxes[lo.output], seen)
      <3>1. panels[lo] \in Seq(Panel) /\ lo.output \in Output
        BY StateHolds DEF StateType, LayerOutput
      <3>2. Head(panels[lo]) \in Members(panels[lo]) /\ Head(panels[lo]) \in Panel
        BY <2>3, <3>1, EndsAreMembers, MembersType
      <3>3. /\ panel[Head(panels[lo])] # NULL
            /\ panel[Head(panels[lo])].layer_output = lo
            /\ PanelAgrees(State, Head(panels[lo]))
        BY <3>2, StateHolds, GoodParts
      <3>4. extents[lo.output] # NULL
        BY <3>3, NullAssumption, StateHolds DEF PanelAgrees
      <3>5. lo.output \in DOMAIN boxes /\ extents[lo.output] = boxes[lo.output]
        BY <2>1, <2>2, <3>1, <3>4
      <3>6. ListPlaced(State, lo)
        BY StateHolds, GoodParts
      <3> QED BY <2>3, <3>5, <3>6, StateHolds DEF ListPlaced
    <2> QED BY <2>3 DEF PanelsArePlaced, boxes
  <1> QED BY <1>1, OutputsInvariant, PTL

\* What is remembered of an output that is plugged in follows its state, whichever
\* configurations were applied, and how far.
THEOREM OutputsConfigFollows == Spec => []ConfigFollowsOutput
  <1>1. IInv => ConfigFollowsOutput
    BY StateHolds DEF Remembered, ConfigFollowsOutput
  <1> QED BY <1>1, OutputsInvariant, PTL

\* Clip and dock are on the top layer of the current workspace, on the primary output
\* or one they prefer, as long as there is an output.
THEOREM OutputsDocksAreShown == Spec => []DocksAreShown
  <1>1. IInv => DocksAreShown
    <2> SUFFICES ASSUME IInv PROVE DocksAreShown
      OBVIOUS
    <2>1. ASSUME NEW d \in Docks, panel[d] # NULL
          PROVE  LET lo == panel[d].layer_output IN
                 IF layout = <<>> THEN lo = NULL
                 ELSE /\ lo # NULL
                      /\ lo.workspace = current
                      /\ lo.layer = TopLayer
                      /\ lo.output \in Preferred[d] \cup {Primary(layout)}
      <3>1. ~ failed
        BY <2>1, DocksArePanels DEF IInv
      <3>2. panel[d].layer_output \in Shown(layout, current, d)
        BY <2>1, <3>1, StateHolds DEF Whole, DocksAt
      <3> QED BY <3>2, NullAssumption DEF Shown
    <2> QED BY <2>1 DEF DocksAreShown
  <1> QED BY <1>1, OutputsInvariant, PTL

\* A panel of a client goes when that client closes it, its output leaves the layout or
\* its workspace is destroyed, and clip and dock do not: no other step destroys one.
THEOREM OutputsPanelsOutlive == Spec => PanelsOutliveChanges
  <1> DEFINE Step == \A p \in Panel : panel[p] # NULL /\ panel'[p] = NULL =>
                         \/ failed'
                         \/ \E saved \in BOOLEAN : Restart(saved)
                         \/ /\ p \notin Docks
                            /\ \/ LayerSurfaceDestroyed(p)
                               \/ panel[p].output \in InLayout(layout) \ InLayout(layout')
                               \/ /\ panel[p].layer_output # NULL
                                  /\ panel[p].layer_output.workspace
                                         \in Members(workspaces) \ Members(workspaces')
  <1>1. IInv /\ [Next]_vars => [Step]_vars
    <2> SUFFICES ASSUME IInv, Next PROVE Step
      OBVIOUS
    <2>1. ASSUME Outlived PROVE Step
      BY <2>1 DEF Outlived
    <2>2. ASSUME NEW saved \in BOOLEAN, Restart(saved) PROVE Step
      BY <2>2
    <2>3. ASSUME ~ failed, NEW p \in Panel \ Docks, LayerSurfaceDestroyed(p) PROVE Step
      <3>1. failed' \/ \A q \in Panel \ {p} : panel[q] # NULL => panel'[q] # NULL
        BY <2>3, LayerSurfaceDestroyedHolds
      <3> QED BY <2>3, <3>1
    <2> HIDE DEF Step
    <2>4. ASSUME NEW o \in Output, NEW w \in Announced, NEW works \in BOOLEAN,
                 NewOutput(o, w, works)
          PROVE  Step
      BY <2>1, <2>4, NewOutputHolds
    <2>5. ASSUME ~ failed, NEW tiles \in Tiles, Start(tiles) PROVE Step
      BY <2>1, <2>5, StartHolds
    <2>6. ASSUME NEW o \in Output, OutputDestroyed(o) PROVE Step
      BY <2>1, <2>6, OutputDestroyedHolds
    <2>7. ASSUME Reconfiguring PROVE Step
      <3>1. ASSUME NEW o \in Output, NEW mode \in Mode, RequestState(o, mode) PROVE Step
        BY <2>1, <3>1, RequestStateHolds
      <3>2. ASSUME NEW n \in 0..Len(layout) + 1, NEW heads \in Requests(layout),
                   ApplyConfiguration(heads, n)
            PROVE  Step
        BY <2>1, <3>2, ApplyConfigurationHolds
      <3>3. ASSUME NEW n \in 0..Len(layout) + 1, NEW scaled, MagnifyOrReduce(scaled, n)
            PROVE  Step
        BY <2>1, <3>3, MagnifyOrReduceHolds
      <3> QED BY <2>7, <3>1, <3>2, <3>3 DEF Reconfiguring
    <2>8. ASSUME ~ failed, NEW p \in Panel \ Docks, OfClient(p) PROVE Step
      <3>1. ASSUME NEW o \in Output \cup {NULL}, NewLayerSurface(p, o) PROVE Step
        BY <2>1, <2>8, <3>1, NewLayerSurfaceHolds
      <3>2. ASSUME NEW pos \in Positioning, NEW l \in Layer, CommitSurface(p, pos, l)
            PROVE  Step
        BY <2>1, <3>2, CommitSurfaceHolds
      <3>3. ASSUME NEW mapped \in BOOLEAN, SetMapped(p, mapped) PROVE Step
        BY <2>1, <2>8, <3>3, SetMappedHolds
      <3> QED BY <2>3, <2>8, <3>1, <3>2, <3>3 DEF OfClient
    <2>9. ASSUME OfProgram PROVE Step
      <3>1. ASSUME NEW k \in Workspace, SwitchToWorkspace(k) PROVE Step
        BY <2>1, <3>1, SwitchToWorkspaceHolds
      <3>2. ASSUME NEW k \in Workspace, AddWorkspace(k) PROVE Step
        BY <2>1, <3>2, AddWorkspaceHolds
      <3>3. ASSUME DestroyLastWorkspace PROVE Step
        BY <2>1, <3>3, DestroyLastWorkspaceHolds
      <3>4. ASSUME NEW tiles \in Tiles, TilesChanged(tiles) PROVE Step
        BY <2>1, <3>4, TilesChangedHolds
      <3> QED BY <2>9, <3>1, <3>2, <3>3, <3>4 DEF OfProgram
    <2> QED BY <2>2, <2>4, <2>5, <2>6, <2>7, <2>8, <2>9 DEF Next
  <1>2. Spec => [][Step]_vars
    <2> HIDE DEF Step
    <2> QED BY <1>1, OutputsInvariant, PTL DEF Spec
  <1> QED BY <1>2 DEF PanelsOutliveChanges
=============================================================================
