-------------------------- MODULE MCWindowElements --------------------------
\* Two windows for TLC; one of them has a menu with an item and a popup.
EXTENDS WindowElements, FiniteSets

CONSTANTS desktop, windows, fullscreen, w1, w2, menu, item, popup, p1, s1, s2

TwoWindows ==
    [c \in Container |->
        CASE c = desktop -> <<fullscreen, windows>>
          [] c = w1 -> <<menu, s1>>
          [] c = w2 -> <<s2>>
          [] c = menu -> <<item>>
          [] c = popup -> <<p1>>
          [] OTHER -> <<>>]

OneSurfaceEach == [w \in Window |-> IF w = w1 THEN s1 ELSE s2]

OneMenu == [w \in Window |-> IF w = w1 THEN menu ELSE NULL]

OnePopup == [w \in Window |-> IF w = w1 THEN popup ELSE NULL]

\* Menu and popup may extend beyond their window, above the other window.
SomePlaces == {{}, {p1, s1, s2}, {item, p1, s2}}

\* Bound: a press is remembered along one path, from the desktop to the surface of
\* a window or of a popup, or by as many containers of several paths.
Bounded ==
    LET pressed == {c \in Container : tree.pressed[c] # NULL}
    IN  Cardinality(pressed) <= IF popup \in pressed THEN 4 ELSE 3
=============================================================================
