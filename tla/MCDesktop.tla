----------------------------- MODULE MCDesktop -----------------------------
\* Instances of the desktop for TLC.
EXTENDS DesktopProperties, FiniteSets, TLC

CONSTANTS k1, k2

\* Two workspaces are configured.
TwoWorkspaces == <<k1, k2>>

\* Bound: so many windows are fullscreen, or were when they were unmapped.
MaxFullscreen == 2

Bounded == Cardinality({w \in Window : win[w].fullscreen}) <= MaxFullscreen

\* Handlers and properties treat windows alike, and locks.
Symmetry == Permutations(Window) \cup Permutations(LockElement)
=============================================================================
