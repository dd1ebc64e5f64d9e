------------------------------ MODULE Elements ------------------------------
(***************************************************************************)
(* The tree of elements that the desktop is composed of, and the way that  *)
(* pointer and keyboard find the element they belong to: element.c,        *)
(* container.c, root.c, base.c, and what surface.c tells the seat.         *)
(*                                                                         *)
(* Each container knows which of its elements the pointer is in, which one *)
(* holds a pointer grab, which one was pressed, and which one has the      *)
(* keyboard.  The handlers call each other up and down the tree, so they   *)
(* are written as operators on the state of the tree, tree.  Geometry is   *)
(* left out: a motion names the leaves that are below the pointer.         *)
(***************************************************************************)
EXTENDS Naturals, Sequences, Lists

CONSTANTS
    Root,           \* The container at the top: the desktop.
    Container,      \* The containers, Root among them.
    Surface,        \* Leaves that show a surface of a client.
    Leaf,           \* Other leaves: they take motion and every button event.
    Menu,           \* Containers that ask for pointer grabs.
    NULL

VARIABLE tree

Element == Container \cup Surface \cup Leaf

Children(t, c) == t.elements[c]

\* The failed assertion ends the program.
Assert(t, condition) == IF condition THEN t ELSE [t EXCEPT !.failed = TRUE]

-----------------------------------------------------------------------------
(* Pointer focus. Results that C returns next to its side effects are the  *)
(* second of a pair.                                                       *)

RECURSIVE PointerBlur(_, _)

\* Handlers of pointer_leave: a container blurs the element that had the focus,
\* a surface takes the seat's focus away from its client.
PointerLeave(t, e) ==
    IF e \in Container /\ t.focus[e] # NULL
    THEN [PointerBlur(t, t.focus[e]) EXCEPT !.focus[e] = NULL]
    ELSE IF t.seat = e THEN [t EXCEPT !.seat = NULL] ELSE t

PointerBlur(t, e) ==
    IF e \notin t.inside \/ e \in t.inhibit THEN t
    ELSE LET left == PointerLeave([t EXCEPT !.inside = @ \ {e}], e) IN
         IF t.parent[e] = NULL THEN left ELSE PointerBlur(left, t.parent[e])

RECURSIVE PointerFocus(_, _)

\* Mutant: does not blur the element that had the focus.
RequestFocusWithoutBlur(t, c, e) ==
    IF t.focus[c] = e THEN t ELSE PointerFocus([t EXCEPT !.focus[c] = e], c)

\* Blurs the element that had the focus, while c keeps what it has itself.
RequestPointerFocus(t, c, e) ==
    LET blurred == [PointerBlur([t EXCEPT !.inhibit = @ \cup {c}], t.focus[c])
                    EXCEPT !.inhibit = @ \ {c}]
        other == IF t.focus[c] = NULL THEN t ELSE blurred
    IN  IF t.focus[c] = e THEN Assert(t, c \in t.inside)
        ELSE PointerFocus([other EXCEPT !.focus[c] = e], c)

PointerFocus(t, e) ==
    LET asked == IF t.parent[e] = NULL THEN t
                 ELSE RequestPointerFocus(t, t.parent[e], e)
    IN  IF e \in t.inside THEN t ELSE [asked EXCEPT !.inside = @ \cup {e}]

RECURSIVE PointerMotion(_, _, _), MotionAmong(_, _, _, _)

\* Offers the motion to the elements es of c, from the topmost one.
MotionAmong(t, c, es, at) ==
    IF es = <<>> THEN <<PointerBlur([t EXCEPT !.focus[c] = NULL], c), FALSE>>
    ELSE LET offered == PointerMotion([t EXCEPT !.inhibit = @ \cup {c}], Head(es), at)
             after == [offered[1] EXCEPT !.inhibit = @ \ {c}]
         IN  CASE ~offered[2] -> MotionAmong(after, c, Tail(es), at)
               [] offered[2] /\ after.focus[c] = NULL -> <<after, FALSE>>
               [] OTHER -> <<Assert(after, c \in after.inside), TRUE>>

AcceptsMotion(t, e, at) ==
    IF e \notin Container THEN <<t, e \in at>>
    ELSE IF t.grab[e] # NULL THEN PointerMotion(t, t.grab[e], at)
    ELSE MotionAmong(t, e, Children(t, e), at)

\* wlmtk_element_pointer_motion: whether e is where the pointer is.  A surface
\* tells the seat.
PointerMotion(t, e, at) ==
    IF e \notin t.visible THEN <<t, FALSE>>
    ELSE LET accepted == AcceptsMotion(t, e, at) IN
         IF accepted[2]
         THEN LET focused == PointerFocus(accepted[1], e) IN
              <<IF e \in Surface THEN [focused EXCEPT !.seat = e] ELSE focused, TRUE>>
         ELSE <<PointerBlur(accepted[1], e), FALSE>>

-----------------------------------------------------------------------------
(* Pointer grabs.                                                          *)

RECURSIVE GrabCancel(_, _)
GrabCancel(t, e) ==
    IF e \notin Container THEN t
    ELSE IF t.grab[e] = NULL THEN t
    ELSE [GrabCancel(t, t.grab[e]) EXCEPT !.grab[e] = NULL]

RECURSIVE PointerGrab(_, _, _)
PointerGrab(t, c, e) ==
    IF t.grab[c] = e THEN t
    ELSE LET grabbed == [GrabCancel(t, c) EXCEPT !.grab[c] = e]
             above == IF t.parent[c] = NULL THEN grabbed
                      ELSE PointerGrab(grabbed, t.parent[c], c)
         IN  IF above.focus[c] \in {NULL, e} THEN above
             ELSE PointerBlur(above, above.focus[c])

RECURSIVE PointerGrabRelease(_, _, _)
PointerGrabRelease(t, c, e) ==
    LET released == [t EXCEPT !.grab[c] = NULL] IN
    IF t.grab[c] # e THEN t
    ELSE IF t.parent[c] = NULL THEN released
    ELSE PointerGrabRelease(released, t.parent[c], c)

-----------------------------------------------------------------------------
(* Keyboard focus.                                                         *)

RECURSIVE KeyboardBlur(_, _)
KeyboardBlur(t, e) ==
    IF e \notin Container THEN t
    ELSE IF t.keyboard[e] = NULL THEN t
    ELSE [KeyboardBlur(t, t.keyboard[e]) EXCEPT !.keyboard[e] = NULL]

RECURSIVE SetKeyboardFocus(_, _, _, _)
SetKeyboardFocus(t, c, e, enabled) ==
    LET blurred == IF enabled /\ t.keyboard[c] # NULL
                   THEN KeyboardBlur(t, t.keyboard[c]) ELSE t
        set == [blurred EXCEPT !.keyboard[c] = IF enabled THEN e ELSE NULL]
    IN  IF enabled = (t.keyboard[c] = e) THEN t
        ELSE IF t.parent[c] = NULL THEN set
        ELSE SetKeyboardFocus(set, t.parent[c], c, enabled)

-----------------------------------------------------------------------------
(* The elements of a container.                                            *)

AddElement(t, c, e) ==
    [GrabCancel(t, e) EXCEPT !.elements[c] = PushFront(@, e), !.parent[e] = c]

\* A grab of the element ends, and with it that of the container.
CancelGrabOf(t, c, e) ==
    LET canceled == GrabCancel(t, c) IN
    IF t.grab[c] # e THEN t
    ELSE IF t.parent[c] = NULL THEN canceled
    ELSE PointerGrabRelease(canceled, t.parent[c], c)

\* Mutant: the pointer stays in the element.
RemoveWithoutBlur(t, c, e) ==
    LET unfocused == SetKeyboardFocus(CancelGrabOf(t, c, e), c, e, FALSE)
        unlinked == [unfocused EXCEPT !.elements[c] = Remove(@, e), !.parent[e] = NULL]
    IN  Assert(unlinked, e \notin {unlinked.focus[c], unlinked.keyboard[c]})

RemoveElement(t, c, e) ==
    LET ungrabbed == CancelGrabOf(PointerBlur(t, e), c, e)
        unpressed == [ungrabbed EXCEPT !.pressed[c] = IF @ = e THEN NULL ELSE @]
        unfocused == SetKeyboardFocus(unpressed, c, e, FALSE)
        unlinked == [unfocused EXCEPT !.elements[c] = Remove(@, e), !.parent[e] = NULL]
    IN  Assert(unlinked, e \notin {unlinked.focus[c], unlinked.keyboard[c]})

-----------------------------------------------------------------------------
(* Buttons.                                                                *)

\* _wlmtk_surface_element_pointer_button: the seat forwards the event.
SurfaceButton(t, s, type) ==
    <<Assert(t, t.seat \in {NULL, s} \/ type = "up"), t.seat # NULL>>

\* The element of c that the event of the button goes to.
ButtonTarget(t, c, button, type) ==
    IF t.grab[c] # NULL THEN t.grab[c]
    ELSE IF button = "right" \/ type = "down" THEN t.focus[c]
    ELSE IF type = "up" \/ t.pressed[c] = t.focus[c] THEN t.pressed[c]
    ELSE NULL
=============================================================================
