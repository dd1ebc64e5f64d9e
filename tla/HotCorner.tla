------------------------------ MODULE HotCorner ------------------------------
(***************************************************************************)
(* The hot corners (corner.c) with the idle monitor that their actions     *)
(* work on: when the pointer stays in a corner of the layout until a timer *)
(* fires, the corner's "Enter" action is executed, and its "Leave" action  *)
(* once the pointer or the layout moves away.  One corner is configured as *)
(* in etc/Config.plist: InhibitLockBegin and InhibitLockEnd.               *)
(***************************************************************************)
EXTENDS IdleMonitor

CONSTANT InhibitingCorner   \* The corner configured to inhibit the lock.

Corner == {"top-left", "top-right", "bottom-left", "bottom-right"}

ASSUME InhibitingCornerAssumption == InhibitingCorner \in Corner

ASSUME NullIsNoCorner == NULL \notin Corner \cup Failure

VARIABLES
    current_corner,     \* The corner the pointer is in, NULL if none.
    corner_triggered,   \* Whether the corner's timer has fired.
    corner_armed        \* Whether the corner's timer is armed.

cornerVars == <<current_corner, corner_triggered, corner_armed>>
vars == <<idleVars, cornerVars>>

Init ==
    /\ IdleInit
    /\ current_corner = NULL
    /\ corner_triggered = FALSE
    /\ corner_armed = FALSE

-----------------------------------------------------------------------------
(* The corner whose actions are executed for the corner c: the code swaps  *)
(* the two at the bottom.                                                  *)

ActionsOf(c) ==
    CASE c = "bottom-left" -> "bottom-right"
      [] c = "bottom-right" -> "bottom-left"
      [] OTHER -> c

Enter(m, c) == IF ActionsOf(c) = InhibitingCorner THEN Inhibit(m) ELSE m
Leave(m, c) == IF ActionsOf(c) = InhibitingCorner THEN Uninhibit(m) ELSE m

\* State of the corner and the monitor, as handlers change it.
State == [monitor |-> monitor, corner |-> current_corner,
          triggered |-> corner_triggered, armed |-> corner_armed]

Becomes(st) ==
    /\ monitor' = st.monitor
    /\ current_corner' = st.corner
    /\ corner_triggered' = st.triggered
    /\ corner_armed' = st.armed

\* Mutant: the corner stays triggered after its "Leave" action.
ClearTriggered(st) ==
    IF st.corner = NULL THEN st
    ELSE [st EXCEPT !.monitor = IF st.triggered THEN Leave(@, st.corner) ELSE @,
                    !.corner = NULL, !.armed = FALSE]

\* Disarms the timer, executes "Leave" if "Enter" was executed.
Clear(st) ==
    IF st.corner = NULL THEN st
    ELSE [monitor |-> IF st.triggered THEN Leave(st.monitor, st.corner)
                                      ELSE st.monitor,
          corner |-> NULL, triggered |-> FALSE, armed |-> FALSE]

Occupy(st, c) ==
    IF st.corner = c THEN st
    ELSE [Clear(st) EXCEPT !.corner = c, !.armed = TRUE]

\* The pointer is in corner c of the layout's extents, NULL if in none or if
\* the extents are empty.
Evaluate(st, c) == IF c = NULL THEN Clear(st) ELSE Occupy(st, c)

-----------------------------------------------------------------------------
\* The pointer moves: that is activity, before it is a new position.
PointerMotion(c) ==
    /\ Running
    /\ Becomes(Evaluate([State EXCEPT !.monitor = Reset(@)], c))
    /\ UNCHANGED <<inhibitors, desktop_locked, command_works>>

OutputLayoutChanged(c) ==
    /\ Running
    /\ Becomes(Evaluate(State, c))
    /\ UNCHANGED <<inhibitors, desktop_locked, command_works>>

CornerTimer ==
    /\ Running
    /\ corner_armed
    /\ Becomes([State EXCEPT !.monitor = Enter(@, current_corner),
                             !.triggered = TRUE, !.armed = FALSE])
    /\ UNCHANGED <<inhibitors, desktop_locked, command_works>>

\* Steps of the idle monitor that leave the corner alone.
IdleTimer == Timer /\ UNCHANGED cornerVars
InhibitorAdded(i) == NewInhibitor(i) /\ UNCHANGED cornerVars
InhibitorDestroyed(i) == DestroyInhibitor(i) /\ UNCHANGED cornerVars
SessionLocked == DesktopLock /\ UNCHANGED cornerVars
SessionUnlocked == DesktopUnlock /\ UNCHANGED cornerVars
OtherInput == InputActivity /\ UNCHANGED cornerVars

Input == OtherInput \/ \E c \in Corner \cup {NULL} : PointerMotion(c)

Next ==
    \/ OtherInput
    \/ \E c \in Corner \cup {NULL} : PointerMotion(c)
    \/ IdleTimer
    \/ \E i \in Inhibitor : InhibitorAdded(i) \/ InhibitorDestroyed(i)
    \/ SessionLocked
    \/ SessionUnlocked
    \/ \E c \in Corner \cup {NULL} : OutputLayoutChanged(c)
    \/ CornerTimer

Spec == Init /\ [][Next]_vars

\* The event loop dispatches a timer that stays armed. Behaviours with input for
\* ever, in which the timer would rather be armed again and again, are not what
\* the liveness property is about.
FairSpec == Spec /\ WF_vars(IdleTimer)

-----------------------------------------------------------------------------
\* The types of the variables (wlmaker_idle_monitor_t and wlmaker_corner_t).
TypeOK ==
    /\ monitor \in MonitorState
    /\ inhibitors \subseteq Inhibitor
    /\ desktop_locked \in BOOLEAN
    /\ command_works \in BOOLEAN
    /\ current_corner \in Corner \cup {NULL}
    /\ corner_triggered \in BOOLEAN
    /\ corner_armed \in BOOLEAN

\* The counter that clients' inhibitors and the hot corner share is the number
\* of inhibitors there are, and one more while the corner holds the lock back:
\* no way of leaving the corner (another corner, a new layout, no layout at all)
\* loses or repeats the "Leave" action, so the count returns to zero and the
\* BS_ASSERT in uninhibit (idle.c:251) holds.
InhibitsAreCounted ==
    /\ monitor.inhibits = Cardinality(inhibitors)
           + IF corner_triggered /\ ActionsOf(current_corner) = InhibitingCorner
             THEN 1 ELSE 0
    /\ monitor.failed # "uninhibit"

\* While the monitor is not locked its timer is either armed or has expired, so
\* that idling is never overlooked, and a timer that has expired is due: it is
\* held back by an inhibitor or by a lock command that cannot be started. While
\* the monitor is locked it listens for the unlock event that will arm the timer
\* again.
IdleTimerIsNeverLost ==
    /\ ~monitor.locked =>
           /\ monitor.armed # monitor.timer_expired
           /\ monitor.timer_expired => monitor.inhibits > 0 \/ ~command_works
    /\ monitor.locked <=> monitor.unlock_links # 0

\* "Timer-triggered locks are taking effect only when inhibits == 0"
\* (idle.c:64), whichever of the timer, a client or the corner comes last, and
\* never by a step in which there was input.
LocksOnlyWhenIdle ==
    [][~monitor.locked /\ monitor'.locked =>
           /\ monitor'.inhibits = 0
           /\ ~\E c \in Corner \cup {NULL} : PointerMotion(c)]_vars

\* The corner's timer is armed only while the pointer is in the corner and its
\* action was not executed: "If the pointer is moved before the cooldown
\* expires, the timer is disarmed, and nothing happens" (corner.c:49).
CornerTimerFollowsPointer ==
    /\ corner_armed \/ corner_triggered <=> current_corner # NULL
    /\ ~(corner_armed /\ corner_triggered)

\* A session without input and, from some time on, without inhibitors gets
\* locked, and again after each unlock (timer, uninhibit and handle_unlock),
\* provided the lock command can be started.
IdleSessionIsLocked ==
    command_works /\ <>[][~Input]_vars /\ <>[](monitor.inhibits = 0)
        => []<>(monitor.locked \/ monitor.failed # NULL)

-----------------------------------------------------------------------------
(* What comments say, and the code does not do.                            *)

\* "Handler for unlock_event. Re-arms the timer." (idle.c:410): the monitor is
\* there to handle the event, however often inhibitors came and went while it
\* was locked.
UnlockEventIsHandled == monitor.failed # "unlock_event"

\* "Action when entering the bottom-left corner." (corner.c:95), and the same
\* for the others: the action of the corner the pointer is in is executed.
TriggeredCornerInhibits ==
    corner_triggered /\ current_corner = InhibitingCorner
        => monitor.inhibits > Cardinality(inhibitors)
=============================================================================
