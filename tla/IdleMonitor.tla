----------------------------- MODULE IdleMonitor -----------------------------
(***************************************************************************)
(* The idle monitor (idle.c): a timer that every input re-arms, inhibitors *)
(* of clients and of bound actions, and the lock program that is started   *)
(* when the timer has expired and nothing inhibits it.  The monitor waits  *)
(* for the desktop's unlock event before it arms the timer again.          *)
(*                                                                         *)
(* Handlers are operators on the record m of the monitor's state, so that  *)
(* HotCorner can compose them with the actions that corners execute.       *)
(***************************************************************************)
EXTENDS Naturals, FiniteSets

CONSTANTS
    Inhibitor,      \* The inhibitors clients may create.
    NULL

\* The server has created the inhibitors there are, so they can be counted.
ASSUME InhibitorAssumption == IsFiniteSet(Inhibitor)

VARIABLES
    monitor,        \* State of wlmaker_idle_monitor_t.
    inhibitors,     \* The inhibitors there are.
    desktop_locked, \* wlmtk_desktop_t::locked.
    command_works   \* Whether the configured lock command can be started.

idleVars == <<monitor, inhibitors, desktop_locked, command_works>>

\* What ends the program: an uninhibit without inhibit, and an unlock event for
\* a listener that is linked more than once.
Failure == {"uninhibit", "unlock_event"}

\* How often the listener of the unlock event is linked; 2 is more than once.
Links == 0..2

\* The counter is at most the number of inhibitors and one for the hot corner.
MonitorState ==
    [armed         : BOOLEAN,
     timer_expired : BOOLEAN,
     inhibits      : 0..(Cardinality(Inhibitor) + 1),
     locked        : BOOLEAN,
     unlock_links  : Links,
     failed        : Failure \cup {NULL}]

\* wlmaker_idle_monitor_create, with IdleSeconds configured.
IdleInit ==
    /\ monitor = [armed |-> TRUE, timer_expired |-> FALSE, inhibits |-> 0,
                  locked |-> FALSE, unlock_links |-> 0, failed |-> NULL]
    /\ inhibitors = {}
    /\ desktop_locked = FALSE
    /\ command_works \in BOOLEAN

-----------------------------------------------------------------------------
(* Handlers.                                                               *)

\* wlmaker_idle_monitor_reset.
Reset(m) ==
    IF m.locked THEN m
    ELSE [m EXCEPT !.armed = TRUE, !.timer_expired = FALSE]

\* Mutant: locks whether or not something inhibits it.
LockWhenExpired(m) ==
    IF m.timer_expired /\ command_works
    THEN [m EXCEPT !.locked = TRUE, !.unlock_links = IF @ = 0 THEN 1 ELSE 2]
    ELSE m

\* Starts the lock program, and listens for the unlock event -- once more, if
\* the monitor is locked already.
ConsiderLocking(m) ==
    IF m.inhibits = 0 /\ m.timer_expired /\ command_works
    THEN [m EXCEPT !.locked = TRUE, !.unlock_links = IF @ = 0 THEN 1 ELSE 2]
    ELSE m

Inhibit(m) == [m EXCEPT !.inhibits = @ + 1]

\* Mutant: the end of an inhibit does not lock a session that was idle before.
UninhibitOnly(m) ==
    IF m.inhibits = 0 THEN [m EXCEPT !.failed = "uninhibit"]
    ELSE [m EXCEPT !.inhibits = @ - 1]

Uninhibit(m) ==
    IF m.inhibits = 0 THEN [m EXCEPT !.failed = "uninhibit"]
    ELSE ConsiderLocking([m EXCEPT !.inhibits = @ - 1])

\* Mutant: the timer is reset while the monitor is still locked.
ResetThenUnlock(m) ==
    CASE m.unlock_links = 0 -> m
      [] m.unlock_links = 1 ->
             [Reset(m) EXCEPT !.unlock_links = 0, !.locked = FALSE]
      [] OTHER -> [m EXCEPT !.failed = "unlock_event"]

\* The unlock event. A listener that was linked twice is its own successor in
\* the list: emitting the event never gets back to the list's head.
HandleUnlock(m) ==
    CASE m.unlock_links = 0 -> m
      [] m.unlock_links = 1 ->
             Reset([m EXCEPT !.unlock_links = 0, !.locked = FALSE])
      [] OTHER -> [m EXCEPT !.failed = "unlock_event"]

-----------------------------------------------------------------------------
(* Actions.                                                                *)

Running == monitor.failed = NULL

\* A key, a button or an axis is used.
InputActivity ==
    /\ Running
    /\ monitor' = Reset(monitor)
    /\ UNCHANGED <<inhibitors, desktop_locked, command_works>>

Timer ==
    /\ Running
    /\ monitor.armed
    /\ monitor' = ConsiderLocking([monitor EXCEPT !.armed = FALSE,
                                                  !.timer_expired = TRUE])
    /\ UNCHANGED <<inhibitors, desktop_locked, command_works>>

NewInhibitor(i) ==
    /\ Running
    /\ i \notin inhibitors
    /\ inhibitors' = inhibitors \cup {i}
    /\ monitor' = Inhibit(monitor)
    /\ UNCHANGED <<desktop_locked, command_works>>

DestroyInhibitor(i) ==
    /\ Running
    /\ i \in inhibitors
    /\ inhibitors' = inhibitors \ {i}
    /\ monitor' = Uninhibit(monitor)
    /\ UNCHANGED <<desktop_locked, command_works>>

\* A lock program, started by the monitor or by the user, locks the desktop.
DesktopLock ==
    /\ Running
    /\ ~desktop_locked
    /\ desktop_locked' = TRUE
    /\ UNCHANGED <<monitor, inhibitors, command_works>>

DesktopUnlock ==
    /\ Running
    /\ desktop_locked
    /\ desktop_locked' = FALSE
    /\ monitor' = HandleUnlock(monitor)
    /\ UNCHANGED <<inhibitors, command_works>>
=============================================================================
