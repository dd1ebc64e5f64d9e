------------------------------ MODULE Outputs ------------------------------
(***************************************************************************)
(* The outputs (backend/backend.c, output.c, output_config.c and           *)
(* output_manager.c) with the panels of clients that are placed on them    *)
(* (layer_shell.c, layer_panel.c), and the clip and the dock (Docks):      *)
(* outputs are plugged in and out, the attributes of each are remembered,  *)
(* and clients of the output management protocol, or MAGNIFY and REDUCE,   *)
(* apply configurations to all outputs of the layout, head by head, any of *)
(* which may be refused.  Workspaces are switched, and come and go with    *)
(* their layers and the panels that are on them (toolkit/desktop.c).       *)
(*                                                                         *)
(* The program may end and be started again at any time, with the          *)
(* attributes that were saved or without any.  Outputs are announced       *)
(* before it starts to serve clients.                                      *)
(*                                                                         *)
(* Scales are counted in halves, so that they may be below 1.0; modes have *)
(* a width and a refresh rate, in mHz.  Descriptions of outputs are        *)
(* unique, and the entries of the configuration are given by the outputs   *)
(* they match.  Transformations, the size of nested backends, the keyboard *)
(* focus that panels take and out-of-memory paths are left out.            *)
(***************************************************************************)
EXTENDS Docks

CONSTANTS
    Mode,           \* Modes that an output can be set to.
    Scale,          \* Scales that outputs get.
    OutputHead,     \* What clients ask for of one output.
    Configured,     \* For each output the attributes configured, or NULL.
    Positioning,    \* What clients commit for their panels.
    InitialWorkspaces   \* The lists of workspaces that may be configured.

One == 2

ASSUME ScaleAssumption ==
    /\ Scale \subseteq Nat \ {0}
    /\ One \in Scale

\* What the variables hold of an output, and an entry of the layout.
Modes == [width : Nat, refresh : Nat]
OutputStates == [enabled : BOOLEAN, scale : Scale, mode : Modes]
Attributes == [enabled : BOOLEAN, scale : Scale, mode : Modes, position : Int \cup {NULL}]
Entries == [output : Output, x : Int \cup {NULL}]

\* Clients always give an enabled head a position.
ASSUME InputAssumption ==
    /\ Mode \subseteq Modes
    /\ \A head \in OutputHead :
           /\ head.output \in Output
           /\ head.enabled \in BOOLEAN
           /\ head.enabled => head.scale \in Scale /\ head.mode \in Modes /\ head.x \in Int
    /\ \A o \in Output : Configured[o] # NULL =>
           Configured[o] \in [enabled : BOOLEAN, scale : Scale, mode : Modes \cup {NULL},
                              position : Int \cup {NULL}]
    /\ Positioning \subseteq Positionings

\* The clip needs a workspace to be on when it is created (clip.c:254).
ASSUME WorkspacesAssumption ==
    \A list \in InitialWorkspaces :
        list \in Seq(Workspace) /\ list # <<>> /\ Unique(list)

\* NULL is nothing else.
ASSUME NullAssumption ==
    /\ NULL \notin Output \cup LayerOutput
    /\ NULL \notin Int
    /\ NULL \notin PanelStates \cup Places \cup OutputStates \cup Attributes

VARIABLES
    wlr_output,     \* State of the outputs that are plugged in, else NULL.
    ephemeral,      \* wlmbe_backend_t::ephemeral_output_configs, by output.
    layout,         \* The outputs of the layout, with their position.
    extents,        \* wlmtk_layer_output_t::extents; NULL if not tracked.
    panels,         \* wlmtk_layer_output_t::panels.
    panel,          \* State of each panel there is, else NULL.
    workspaces,     \* wlmtk_desktop_t::workspaces, in their order.
    current,        \* wlmtk_desktop_t::current_workspace_ptr.
    failed          \* Whether an assertion has ended the program.

desktop == <<workspaces, current>>
vars == <<wlr_output, ephemeral, layout, extents, panels, panel, desktop, failed>>

State == [wlr_output |-> wlr_output, ephemeral |-> ephemeral, layout |-> layout,
          extents |-> extents, panels |-> panels, panel |-> panel, failed |-> failed]

\* A program that has just started, with the attributes given.
Initial(attributes) ==
    [wlr_output |-> [o \in Output |-> NULL], ephemeral |-> attributes, layout |-> <<>>,
     extents |-> [o \in Output |-> NULL], panels |-> [lo \in LayerOutput |-> <<>>],
     panel |-> [p \in Panel |-> NULL], failed |-> FALSE]

NoAttributes == [o \in Output |-> NULL]

\* An assertion that fails ends the program: nothing is left.
Becomes(st) ==
    LET next == IF st.failed THEN [Initial(NoAttributes) EXCEPT !.failed = TRUE]
                             ELSE st
    IN  /\ wlr_output' = next.wlr_output
        /\ ephemeral' = next.ephemeral
        /\ layout' = next.layout
        /\ extents' = next.extents
        /\ panels' = next.panels
        /\ panel' = next.panel
        /\ failed' = next.failed

Init ==
    LET st == Initial(NoAttributes)
    IN  /\ wlr_output = st.wlr_output
        /\ ephemeral = st.ephemeral
        /\ layout = st.layout
        /\ extents = st.extents
        /\ panels = st.panels
        /\ panel = st.panel
        /\ failed = st.failed
        /\ workspaces \in InitialWorkspaces
        /\ current = Head(workspaces)

\* Clip and dock were created, and the event loop runs.
Running == \A d \in Docks : panel[d] # NULL

AtLeast(bound, n) == IF n < bound THEN bound ELSE n

-----------------------------------------------------------------------------
(* Output configurations: enabled, scale, mode, and position unless NULL.  *)

\* wlmbe_output_config_create_from_wlr, for an output in state w.
FromWlr(w) == [enabled |-> w.enabled, scale |-> w.scale, mode |-> w.mode,
               position |-> NULL]

\* wlmbe_output_config_apply_attributes: the mode and the position are optional.
ApplyAttributes(config, attributes) ==
    [enabled |-> attributes.enabled,
     scale |-> AtLeast(One, attributes.scale),
     mode |-> IF attributes.mode = NULL THEN config.mode ELSE attributes.mode,
     position |-> IF attributes.position = NULL THEN config.position
                                                ELSE attributes.position]

\* wlmbe_output_config_update_attributes: remembers the output's state, and its
\* position x unless NULL.
UpdateAttributes(config, w, x) ==
    [enabled |-> w.enabled, scale |-> AtLeast(One, w.scale), mode |-> w.mode,
     position |-> IF x = NULL THEN config.position ELSE x]

\* A mode, as it is written to the state file and read again: the fraction of the
\* rate is written without leading zeros.
Reread(mode) ==
    LET fraction == mode.refresh % 1000
        digits == CASE fraction < 10 -> 100 [] fraction \in 10..99 -> 10 [] OTHER -> 1
    IN  [mode EXCEPT !.refresh = @ - fraction + fraction * digits]

-----------------------------------------------------------------------------
(* The output layout of wlroots: outputs have a position, or are placed to *)
(* the right of all others.                                                *)

InLayout(l) == {l[i].output : i \in DOMAIN l}
Entry(l, o) == CHOOSE e \in Members(l) : e.output = o

\* "Mode applies before scaling".
LogicalWidth(w) == (w.mode.width * One) \div w.scale

Widths(wlr, l) == [i \in DOMAIN l |-> LogicalWidth(wlr[l[i].output])]

\* Where the outputs that have a position end, and then the first n of the layout.
RightEdges(l, widths) ==
    LET placed == {i \in DOMAIN l : l[i].x # NULL}
        right[n \in 0..Len(l)] ==
            IF n = 0 THEN Max({0} \cup {l[i].x + widths[i] : i \in placed})
            ELSE right[n - 1] + (IF n \in placed THEN 0 ELSE widths[n])
    IN  right

LayoutBoxes(wlr, l) ==
    LET widths == Widths(wlr, l)
        x(e) == IF e.x # NULL THEN e.x ELSE RightEdges(l, widths)[Position(l, e) - 1]
    IN  [o \in InLayout(l) |->
            [x |-> x(Entry(l, o)), width |-> widths[Position(l, Entry(l, o))]]]

\* The event of a layout that changed: clip and dock handle it first.
LayoutChanged(st) ==
    TrackOutputs(ChangeOutputs(st), LayoutBoxes(st.wlr_output, st.layout))

LayoutRemove(st, o) ==
    IF o \notin InLayout(st.layout) THEN st
    ELSE LayoutChanged([st EXCEPT !.layout = Remove(@, Entry(@, o))])

\* Mutant: an output that moves leaves the layout.
LayoutMove(st, o, x) ==
    LET without == LayoutRemove(st, o) IN
    LayoutChanged([without EXCEPT !.layout = Append(@, [output |-> o, x |-> x])])

\* wlr_output_layout_add, and wlr_output_layout_add_auto if x is NULL: the output
\* may be in the layout already.
LayoutAdd(st, o, x) ==
    LET entry == [output |-> o, x |-> x] IN
    LayoutChanged([st EXCEPT !.layout =
        IF o \in InLayout(@)
        THEN [@ EXCEPT ![Position(@, Entry(@, o))] = entry]
        ELSE Append(@, entry)])

\* wlr_output_commit_state: the layout follows outputs that change. A commit that
\* only disables an output changes nothing of it: as the box it has remains the same
\* then, to handle that as a change makes no difference once it has been removed.
CommitState(st, o, w) ==
    LET committed == [st EXCEPT !.wlr_output[o] = w]
    IN  IF o \in InLayout(st.layout) THEN LayoutChanged(committed) ELSE committed

-----------------------------------------------------------------------------
(* Outputs that are plugged in and out.                                    *)

\* Whether the backend is told to enable an output is part of its attributes; one
\* that is remembered as disabled is not used at all.
NewOutput(o, w, works) ==
    LET matched == IF Configured[o] = NULL THEN FromWlr(w)
                   ELSE ApplyAttributes(FromWlr(w), Configured[o])
        config == IF ephemeral[o] = NULL THEN matched ELSE ephemeral[o]
        known == [State EXCEPT !.ephemeral[o] = config]
        created == [known EXCEPT !.wlr_output[o] =
                        [enabled |-> config.enabled, mode |-> config.mode,
                         scale |-> AtLeast(One, config.scale)]]
    IN  /\ wlr_output[o] = NULL
        /\ ephemeral[o] # NULL => ephemeral[o].enabled
        /\ Becomes(IF works THEN LayoutAdd(created, o, config.position) ELSE known)
        /\ UNCHANGED desktop

\* An output that is destroyed leaves the layout.
OutputDestroyed(o) ==
    /\ wlr_output[o] # NULL
    /\ Becomes([LayoutRemove(State, o) EXCEPT !.wlr_output[o] = NULL])
    /\ UNCHANGED desktop

\* _wlmbe_output_handle_request_state: a nested output's window is resized.
RequestState(o, mode) ==
    /\ wlr_output[o] # NULL
    /\ mode # wlr_output[o].mode
    /\ LET w == [wlr_output[o] EXCEPT !.mode = mode] IN
       Becomes([CommitState(State, o, w) EXCEPT
                    !.ephemeral[o] = UpdateAttributes(@, w, NULL)])
    /\ UNCHANGED desktop

\* Once all outputs were announced, and if there is one, the program creates clip
\* and dock, with the tiles that its theme and its state have.
Start(tiles) ==
    /\ ~Running
    /\ layout # <<>>
    /\ Becomes(CreateDocks(State, current, tiles))
    /\ UNCHANGED desktop

\* The program ends, by an assertion or a crash even, and is started again. To read
\* attributes that were saved earlier, or none, is to have restarted then.
Restart(saved) ==
    /\ Becomes(Initial([o \in Output |->
           IF saved /\ ephemeral[o] # NULL THEN [ephemeral[o] EXCEPT !.mode = Reread(@)]
                                           ELSE NULL]))
    /\ workspaces' \in InitialWorkspaces
    /\ current' = Head(workspaces')

-----------------------------------------------------------------------------
(* Configurations of outputs: heads with an output, whether it is to be    *)
(* enabled, a scale, a mode and a position.                                *)

\* The state to commit for a head, with a least scale: if the head is disabled,
\* nothing else changes.
Requested(w, head, least) ==
    IF head.enabled
    THEN [enabled |-> TRUE, scale |-> AtLeast(least, head.scale), mode |-> head.mode]
    ELSE [w EXCEPT !.enabled = FALSE]

\* Mutant: what is disabled is not remembered.
ApplyEnabledHead(st, head) ==
    LET w == Requested(st.wlr_output[head.output], head, One)
        committed == CommitState(st, head.output, w)
    IN  IF head.enabled
        THEN [LayoutAdd(committed, head.output, head.x) EXCEPT
                  !.ephemeral[head.output] = UpdateAttributes(@, w, head.x)]
        ELSE LayoutRemove(committed, head.output)

\* _wlmaker_output_manager_config_head_apply, of a head that is not refused.
ApplyHead(st, head) ==
    LET o == head.output
        w == Requested(st.wlr_output[o], head, One)
        committed == CommitState(st, o, w)
        laid == IF head.enabled THEN LayoutAdd(committed, o, head.x)
                                ELSE LayoutRemove(committed, o)
    IN  [laid EXCEPT !.ephemeral[o] =
             UpdateAttributes(@, w, IF head.enabled THEN head.x ELSE NULL)]

\* The first n heads, one after the other: after[i] is the state after i of them.
ApplyHeads(st, heads, n) ==
    LET after[i \in 0..n] == IF i = 0 THEN st ELSE ApplyHead(after[i - 1], heads[i])
    IN  after[n]

\* wlr_backend_commit: the heads once more, with the scale they asked for.
BackendCommit(st, heads) ==
    LET commit(s, head) == CommitState(s, head.output,
            Requested(s.wlr_output[head.output], head, 0))
        after[i \in 0..Len(heads)] ==
            IF i = 0 THEN st ELSE commit(after[i - 1], heads[i])
    IN  after[Len(heads)]

\* _wlmbe_output_manager_apply: the first n heads are applied, and the next one is
\* refused; after the last one it is the backend that may refuse all of them.
Apply(st, heads, n) ==
    IF n <= Len(heads) THEN ApplyHeads(st, heads, n)
    ELSE BackendCommit(ApplyHeads(st, heads, Len(heads)), heads)

\* A client configures the outputs it was told of: those in the layout.
ApplyConfiguration(heads, n) ==
    /\ {h.output : h \in Members(heads)} = InLayout(layout)
    /\ n \in 0..Len(heads) + 1
    /\ Becomes(Apply(State, heads, n))
    /\ UNCHANGED desktop

\* wlmbe_output_manager_scale: every head keeps its state, and is placed where the
\* layout has it. Bound: scales remain in Scale.
MagnifyOrReduce(scaled, n) ==
    LET head(e) == LET w == wlr_output[e.output] IN
                   [output |-> e.output, enabled |-> w.enabled, mode |-> w.mode,
                    scale |-> AtLeast(One, scaled[w.scale]),
                    x |-> extents[e.output].x]
        heads == [i \in DOMAIN layout |-> head(layout[i])]
    IN  /\ \A h \in Members(heads) : h.scale \in Scale
        /\ n \in 0..Len(heads) + 1
        /\ Becomes(Apply(State, heads, n))
        /\ UNCHANGED desktop

-----------------------------------------------------------------------------
(* Layer surfaces of clients.                                              *)

\* wlmaker_layer_panel_create: a client names an output; the one at the cursor
\* is taken if it does not, and NULL if there is none.
NewLayerSurface(p, o) ==
    /\ panel[p] = NULL
    /\ IF layout = <<>> THEN o = NULL ELSE o \in InLayout(layout)
    /\ panel' = [panel EXCEPT ![p] =
           [output |-> o, layer_output |-> NULL, box |-> NULL, visible |-> FALSE,
            positioning |-> [anchor |-> {}, width |-> 0, zone |-> 0, edge |-> NULL,
                             margin |-> [left |-> 0, right |-> 0]]]]
    /\ UNCHANGED <<wlr_output, ephemeral, layout, extents, panels, desktop, failed>>

\* _wlmaker_layer_panel_apply_layer: the layer l of the current workspace.
ApplyLayer(st, p, l) ==
    LET lo == st.panel[p].layer_output IN
    IF lo = NULL THEN AddPanel(st, current, l, p)
    ELSE IF lo.workspace = current /\ lo.layer = l THEN st
    ELSE AddPanel(RemovePanel(st, p), current, l, p)

\* What is positioned without a width needs an anchor, and the edge of a zone
\* must be an anchor: else an error is posted to the client, and nothing done.
Valid(pos) ==
    /\ pos.width = 0 => pos.anchor # {}
    /\ pos.edge # NULL => pos.edge \in pos.anchor

CommitSurface(p, pos, l) ==
    /\ panel[p] # NULL
    /\ Valid(pos)
    /\ Becomes(ApplyLayer(CommitPositioning(State, p, pos), p, l))
    /\ UNCHANGED desktop

\* A client maps a surface that was configured, and unmaps it: the panel is shown
\* or hidden where it is.
SetMapped(p, mapped) ==
    /\ panel[p] # NULL
    /\ mapped => panel[p].layer_output # NULL
    /\ panel' = [panel EXCEPT ![p].visible = mapped]
    /\ UNCHANGED <<wlr_output, ephemeral, layout, extents, panels, desktop, failed>>

LayerSurfaceDestroyed(p) ==
    /\ panel[p] # NULL
    /\ Becomes(DestroyPanel(State, p))
    /\ UNCHANGED desktop

-----------------------------------------------------------------------------
(* Workspaces, clip and dock.                                              *)

\* _wlmtk_desktop_switch_to_workspace.
SwitchToWorkspace(k) ==
    /\ k \in Members(workspaces) \ {current}
    /\ Becomes(ChangeWorkspaces(State, k))
    /\ current' = k
    /\ UNCHANGED workspaces

\* wlmtk_desktop_add_workspace, of a workspace just created: its layers have no panels.
AddWorkspace(k) ==
    /\ k \notin Members(workspaces)
    /\ Becomes(ChangeWorkspaces(State, current))
    /\ workspaces' = PushBack(workspaces, k)
    /\ UNCHANGED current

\* Mutant: the panels of the workspace stay.
RemoveLastWorkspace ==
    LET last == workspaces[Len(workspaces)] IN
    /\ Len(workspaces) > 1
    /\ last # current
    /\ Becomes(ChangeWorkspaces(State, current))
    /\ workspaces' = Remove(workspaces, last)
    /\ UNCHANGED current

\* wlmtk_desktop_destroy_last_workspace: unless there are windows on it, which may be
\* at any time. The panels on its layers are destroyed.
DestroyLastWorkspace ==
    LET last == workspaces[Len(workspaces)] IN
    /\ Len(workspaces) > 1
    /\ last # current
    /\ Becomes(DestroyLayerOutputs(ChangeWorkspaces(State, current), OfWorkspace(last)))
    /\ workspaces' = Remove(workspaces, last)
    /\ UNCHANGED current

\* Another theme is loaded, or a dock app brings its tile or leaves.
TilesChanged(tiles) ==
    /\ Becomes(ResizeTiles(State, tiles))
    /\ UNCHANGED desktop

-----------------------------------------------------------------------------
\* What a backend announces: an output that shows something already or does not.
Announced == [enabled : BOOLEAN, scale : {One}, mode : Mode]

\* What a client may ask for, in the order of its requests.
Requests(l) == {heads \in [DOMAIN l -> OutputHead] :
                    {h.output : h \in Members(heads)} = InLayout(l)}

Reconfiguring ==
    \/ \E o \in Output, mode \in Mode : RequestState(o, mode)
    \/ \E n \in 0..Len(layout) + 1 :
           \/ \E heads \in Requests(layout) : ApplyConfiguration(heads, n)
           \/ MagnifyOrReduce([s \in Scale |-> s * 2], n)
           \/ MagnifyOrReduce([s \in Scale |-> s \div 2], n)

OfClient(p) ==
    \/ \E o \in Output \cup {NULL} : NewLayerSurface(p, o)
    \/ \E pos \in Positioning, l \in Layer : CommitSurface(p, pos, l)
    \/ \E mapped \in BOOLEAN : SetMapped(p, mapped)
    \/ LayerSurfaceDestroyed(p)

OfProgram ==
    \/ \E k \in Workspace : SwitchToWorkspace(k) \/ AddWorkspace(k)
    \/ DestroyLastWorkspace
    \/ \E tiles \in Tiles : TilesChanged(tiles)

Next ==
    \/ \E saved \in BOOLEAN : Restart(saved)
    \/ /\ ~failed
       /\ \/ \E o \in Output, w \in Announced, works \in BOOLEAN : NewOutput(o, w, works)
          \/ \E tiles \in Tiles : Start(tiles)
    \/ /\ ~failed
       /\ Running
       /\ \/ \E o \in Output : OutputDestroyed(o)
          \/ Reconfiguring
          \/ \E p \in Panel \ Docks : OfClient(p)
          \/ OfProgram

Spec == Init /\ [][Next]_vars

-----------------------------------------------------------------------------
\* The types of the variables.
TypeOK ==
    /\ wlr_output \in [Output -> OutputStates \cup {NULL}]
    /\ ephemeral \in [Output -> Attributes \cup {NULL}]
    /\ layout \in Seq(Entries)
    /\ extents \in [Output -> [x : Int, width : Nat] \cup {NULL}]
    /\ panels \in [LayerOutput -> Seq(Panel)]
    /\ panel \in [Panel -> PanelStates \cup {NULL}]
    /\ \A p \in Panel : panel[p] # NULL =>
           (panel[p].box = NULL <=> panel[p].layer_output = NULL)
    /\ workspaces \in Seq(Workspace)
    /\ current \in Workspace
    /\ failed \in BOOLEAN

\* What is remembered of an output that is plugged in is its state, whichever
\* configurations were applied in full, in part or not at all, and the position
\* it has unless it was placed automatically: "re-connected outputs are using
\* the same attributes they left with" (backend.c:94). A scale below 1.0, which
\* applying a configuration may leave behind, is remembered as 1.0.
ConfigFollowsOutput ==
    \A o \in Output : wlr_output[o] # NULL =>
        /\ ephemeral[o] # NULL
        /\ ephemeral[o].enabled = wlr_output[o].enabled
        /\ ephemeral[o].mode = wlr_output[o].mode
        /\ ephemeral[o].scale = AtLeast(One, wlr_output[o].scale)
        /\ o \in InLayout(layout) => ephemeral[o].position = Entry(layout, o).x

\* A panel is linked in the list of the layer output that it knows and in no
\* other, on the output its client asked for, which is tracked; and no list has a
\* panel that was destroyed or is on a workspace that was. That holds through
\* outputs and clients that leave, through commits that move a panel to another
\* workspace, and through workspaces that are destroyed.
PanelsAgree ==
    /\ \A lo \in LayerOutput :
           /\ Unique(panels[lo])
           /\ \A p \in Members(panels[lo]) :
                  panel[p] # NULL /\ panel[p].layer_output = lo
    /\ \A p \in Panel : panel[p] # NULL => LET lo == panel[p].layer_output IN
           lo # NULL => /\ p \in Members(panels[lo])
                        /\ lo.output = panel[p].output
                        /\ extents[lo.output] # NULL
                        /\ lo.workspace \in Members(workspaces)

\* The panels of a layer are placed one after the other in what is the output's
\* place in the layout now: as what each of them committed last says, each
\* leaving out the zones of those before it that were visible when they were
\* placed.
PanelsArePlaced ==
    LET boxes == LayoutBoxes(wlr_output, layout) IN
    \A lo \in LayerOutput : panels[lo] # <<>> =>
        /\ lo.output \in DOMAIN boxes
        /\ \E seen \in SUBSET Members(panels[lo]) :
               [i \in DOMAIN panels[lo] |-> panel[panels[lo][i]].box]
                   = Boxes(panel, panels[lo], boxes[lo.output], seen)

\* A panel of a client is closed by that client, because its output leaves the layout,
\* or with its workspace, which is kept for windows but not for panels (desktop.c:288),
\* unless the program ends: applying configurations to outputs that stay, plugging
\* others in and out, switching and adding workspaces move and resize panels and
\* destroy none. Clip and dock leave an output that goes before its panels are
\* destroyed (dock.c:212), and are never on a workspace that is.
PanelsOutliveChanges ==
    [][\A p \in Panel : panel[p] # NULL /\ panel'[p] = NULL =>
           \/ failed'
           \/ \E saved \in BOOLEAN : Restart(saved)
           \/ /\ p \notin Docks
              /\ \/ LayerSurfaceDestroyed(p)
                 \/ panel[p].output \in InLayout(layout) \ InLayout(layout')
                 \/ /\ panel[p].layer_output # NULL
                    /\ panel[p].layer_output.workspace
                           \in Members(workspaces) \ Members(workspaces')]_vars

\* As long as there is an output, clip and dock are on the top layer of the current
\* workspace, on the primary output or one they prefer, whichever outputs came and
\* went and in whatever order workspaces were switched (dock.c:268, 296).
DocksAreShown ==
    \A d \in Docks : panel[d] # NULL => LET lo == panel[d].layer_output IN
        IF layout = <<>> THEN lo = NULL
        ELSE /\ lo # NULL
             /\ lo.workspace = current
             /\ lo.layer = TopLayer
             /\ lo.output \in Preferred[d] \cup {Primary(layout)}

-----------------------------------------------------------------------------
(* What documents say, and the code does not do.                           *)

\* Not so: "Once found, it checks `Enabled` whether that output should be used"
\* (doc/config.md:131). An output that is configured as disabled is created, and
\* added to the layout, when it is plugged in for the first time.
OutputsInUseAreEnabled ==
    \A o \in InLayout(layout) : wlr_output[o].enabled

\* Not so: what is saved for re-connected outputs (backend.c:94) is not what they
\* left with. 60.004 Hz is written as "60.4" (output_config.c:559).
SavedModesAreReread == \A o \in Output :
    ephemeral[o] # NULL => Reread(ephemeral[o].mode) = ephemeral[o].mode

\* Not so: "Use exclusive zone + width to not overlap with other layer elements"
\* (doc/ROADMAP.md:33). A panel is placed before it is visible, and the others
\* are not placed anew when it is mapped.
ZonesAreLeftOut ==
    \A lo \in LayerOutput : panels[lo] # <<>> =>
        [i \in DOMAIN panels[lo] |-> panel[panels[lo][i]].box]
            = Boxes(panel, panels[lo], extents[lo.output], Visible(panel))

\* Not so: "Handle --on and --off, should remove output and re-position dock & clip"
\* (doc/ROADMAP.md:170). Once all outputs have left the layout the dock has no layer,
\* and the next change of the layout or of workspaces finds none (layer.c:158); and
\* an output that the dock prefers cannot be added later, as the dock is put on it
\* before the layers know of it (dock.c:313).
DocksAreRepositioned == ~failed

\* Not so: "Permit specifying output for dock, clip" (doc/ROADMAP.md:190). To switch
\* workspaces takes the dock to the primary output, whichever it prefers (dock.c:290).
DocksAreWherePreferred ==
    \A d \in {d \in Docks : panel[d] # NULL} :
        panel[d].layer_output # NULL => panel[d].output = DockOutput(layout, d)
=============================================================================
