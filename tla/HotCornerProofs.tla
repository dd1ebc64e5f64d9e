--------------------------- MODULE HotCornerProofs ---------------------------
(***************************************************************************)
(* The invariants of the idle monitor and the hot corners hold for any     *)
(* number of inhibitors and whichever corner inhibits the lock.  Handlers  *)
(* work on the monitor's record, so the proof first states what each of    *)
(* them preserves, and composes that to the steps.                         *)
(***************************************************************************)
EXTENDS HotCorner, FiniteSetTheorems, TLAPS

-----------------------------------------------------------------------------
(* The idle monitor.                                                       *)

\* Monitors that did not fail in uninhibit, whatever they count.
MonitorType ==
    [armed         : BOOLEAN,
     timer_expired : BOOLEAN,
     inhibits      : Nat,
     locked        : BOOLEAN,
     unlock_links  : Links,
     failed        : {"unlock_event", NULL}]

\* The monitor listens for the unlock event exactly while it is locked, and its
\* timer is either armed or has expired while it is not.
TimerRuns(m) ==
    /\ ~m.locked => m.armed # m.timer_expired
    /\ m.locked <=> m.unlock_links # 0

\* IdleTimerIsNeverLost of a monitor.
TimerIsKept(m) ==
    /\ TimerRuns(m)
    /\ ~m.locked /\ m.timer_expired => m.inhibits > 0 \/ ~command_works

LEMMA ResetKeeps ==
    ASSUME NEW m \in MonitorType, TimerIsKept(m)
    PROVE  /\ Reset(m) \in MonitorType
           /\ TimerIsKept(Reset(m))
           /\ Reset(m).inhibits = m.inhibits
           /\ Reset(m).locked = m.locked
           /\ ~m.locked => ~Reset(m).timer_expired
  BY DEF MonitorType, TimerIsKept, TimerRuns, Reset, Links

\* ConsiderLocking establishes what holds back a timer that has expired.
LEMMA ConsiderLockingKeeps ==
    ASSUME NEW m \in MonitorType, TimerRuns(m)
    PROVE  /\ ConsiderLocking(m) \in MonitorType
           /\ TimerIsKept(ConsiderLocking(m))
           /\ ConsiderLocking(m).inhibits = m.inhibits
           /\ ~m.locked /\ ConsiderLocking(m).locked
                  => m.timer_expired /\ m.inhibits = 0
  <1>1. CASE m.inhibits = 0 /\ m.timer_expired /\ command_works
    <2>1. PICK l \in {1, 2} :
              ConsiderLocking(m) = [m EXCEPT !.locked = TRUE, !.unlock_links = l]
      BY <1>1 DEF ConsiderLocking
    <2> l \in Links
      BY DEF Links
    <2>2. ConsiderLocking(m) \in MonitorType
      BY <2>1 DEF MonitorType
    <2>3. /\ ConsiderLocking(m).locked = TRUE
          /\ ConsiderLocking(m).unlock_links = l
          /\ ConsiderLocking(m).inhibits = m.inhibits
      BY <2>1 DEF MonitorType
    <2> QED
      BY <1>1, <2>2, <2>3 DEF TimerIsKept, TimerRuns
  <1>2. CASE ~(m.inhibits = 0 /\ m.timer_expired /\ command_works)
    <2>1. ConsiderLocking(m) = m /\ m.inhibits \in Nat
      BY <1>2 DEF ConsiderLocking, MonitorType
    <2> QED
      BY <1>2, <2>1 DEF TimerIsKept
  <1> QED
    BY <1>1, <1>2

LEMMA InhibitKeeps ==
    ASSUME NEW m \in MonitorType, TimerIsKept(m)
    PROVE  /\ Inhibit(m) \in MonitorType
           /\ TimerIsKept(Inhibit(m))
           /\ Inhibit(m).inhibits = m.inhibits + 1
           /\ Inhibit(m).locked = m.locked
  BY DEF MonitorType, TimerIsKept, TimerRuns, Inhibit, Links

LEMMA UninhibitKeeps ==
    ASSUME NEW m \in MonitorType, TimerIsKept(m), m.inhibits > 0
    PROVE  /\ Uninhibit(m) \in MonitorType
           /\ TimerIsKept(Uninhibit(m))
           /\ Uninhibit(m).inhibits = m.inhibits - 1
           /\ ~m.locked /\ Uninhibit(m).locked
                  => m.timer_expired /\ m.inhibits = 1
  <1> DEFINE n == [m EXCEPT !.inhibits = @ - 1]
  <1>1. n \in MonitorType /\ TimerRuns(n)
    BY DEF MonitorType, TimerIsKept, TimerRuns
  <1>2. /\ n.inhibits = m.inhibits - 1
        /\ n.locked = m.locked
        /\ n.timer_expired = m.timer_expired
    BY DEF MonitorType
  <1>3. Uninhibit(m) = ConsiderLocking(n)
    BY DEF Uninhibit, MonitorType
  <1>4. m.inhibits \in Nat
    BY DEF MonitorType
  <1> HIDE DEF n
  <1> QED
    BY <1>1, <1>2, <1>3, <1>4, ConsiderLockingKeeps

LEMMA HandleUnlockKeeps ==
    ASSUME NEW m \in MonitorType, TimerIsKept(m)
    PROVE  /\ HandleUnlock(m) \in MonitorType
           /\ TimerIsKept(HandleUnlock(m))
           /\ HandleUnlock(m).inhibits = m.inhibits
           /\ ~m.locked => ~HandleUnlock(m).locked
  <1>1. CASE m.unlock_links = 0
    BY <1>1 DEF HandleUnlock
  <1>2. CASE m.unlock_links = 1
    <2> DEFINE n == [m EXCEPT !.unlock_links = 0, !.locked = FALSE]
    <2>1. HandleUnlock(m) = [n EXCEPT !.armed = TRUE, !.timer_expired = FALSE]
      BY <1>2 DEF HandleUnlock, Reset, MonitorType
    <2>2. n \in MonitorType /\ n.inhibits = m.inhibits
          /\ n.locked = FALSE /\ n.unlock_links = 0
      <3>1. 0 \in Links
        BY DEF Links
      <3> QED
        BY <3>1 DEF MonitorType
    <2> HIDE DEF n
    <2> QED
      BY <1>2, <2>1, <2>2 DEF MonitorType, TimerIsKept, TimerRuns
  <1>3. CASE m.unlock_links = 2
    <2>1. HandleUnlock(m) = [m EXCEPT !.failed = "unlock_event"]
      BY <1>3 DEF HandleUnlock
    <2> QED
      BY <1>3, <2>1 DEF MonitorType, TimerIsKept, TimerRuns
  <1> QED
    BY <1>1, <1>2, <1>3 DEF MonitorType, Links

-----------------------------------------------------------------------------
(* The hot corners.                                                        *)

CornerType ==
    [monitor   : MonitorType,
     corner    : Corner \cup {NULL},
     triggered : BOOLEAN,
     armed     : BOOLEAN]

\* What the corner that was entered adds to the monitor's counter.
HeldBy(corner, triggered) ==
    IF triggered /\ ActionsOf(corner) = InhibitingCorner THEN 1 ELSE 0

\* The corner and the monitor agree, when clients have n inhibitors.
Agrees(st, n) ==
    /\ st \in CornerType
    /\ TimerIsKept(st.monitor)
    /\ st.monitor.inhibits = n + HeldBy(st.corner, st.triggered)
    /\ st.armed \/ st.triggered <=> st.corner # NULL
    /\ ~(st.armed /\ st.triggered)

\* The handler that takes s to t does not lock a session with activity.
NoLockOnActivity(s, t) ==
    ~s.monitor.locked /\ t.monitor.locked
        => s.monitor.timer_expired /\ t.monitor.inhibits = 0

LEMMA ClearKeeps ==
    ASSUME NEW n \in Nat, NEW st, Agrees(st, n)
    PROVE  /\ Agrees(Clear(st), n)
           /\ Clear(st).corner = NULL
           /\ NoLockOnActivity(st, Clear(st))
  <1>1. CASE st.corner = NULL
    BY <1>1 DEF Clear, NoLockOnActivity, Agrees, CornerType
  <1>2. CASE st.corner # NULL
    <2> DEFINE m == IF st.triggered THEN Leave(st.monitor, st.corner)
                    ELSE st.monitor
    <2>1. /\ st.monitor \in MonitorType
          /\ TimerIsKept(st.monitor)
          /\ st.triggered \in BOOLEAN
          /\ st.monitor.inhibits = n + HeldBy(st.corner, st.triggered)
      BY DEF Agrees, CornerType
    <2>2. Clear(st) = [monitor |-> m, corner |-> NULL,
                       triggered |-> FALSE, armed |-> FALSE]
      BY <1>2 DEF Clear
    <2>3. /\ m \in MonitorType
          /\ TimerIsKept(m)
          /\ m.inhibits = n
          /\ ~st.monitor.locked /\ m.locked
                 => st.monitor.timer_expired /\ m.inhibits = 0
      <3>1. CASE st.triggered /\ ActionsOf(st.corner) = InhibitingCorner
        <4>1. m = Uninhibit(st.monitor)
          BY <3>1 DEF Leave
        <4>2. st.monitor.inhibits = n + 1
          BY <2>1, <3>1 DEF HeldBy
        <4> QED
          BY <2>1, <4>1, <4>2, UninhibitKeeps
      <3>2. CASE ~(st.triggered /\ ActionsOf(st.corner) = InhibitingCorner)
        <4>1. m = st.monitor
          BY <3>2 DEF Leave
        <4>2. st.monitor.inhibits = n
          BY <2>1, <3>2 DEF HeldBy
        <4> QED
          BY <2>1, <4>1, <4>2
      <3> QED
        BY <3>1, <3>2
    <2> HIDE DEF m
    <2>4. Agrees(Clear(st), n)
      <3> DEFINE t == [monitor |-> m, corner |-> NULL,
                       triggered |-> FALSE, armed |-> FALSE]
      <3>1. t \in CornerType
        BY <2>3 DEF CornerType
      <3>2. t.monitor = m /\ t.corner = NULL /\ t.triggered = FALSE
            /\ t.armed = FALSE
        OBVIOUS
      <3> HIDE DEF t
      <3>3. Agrees(t, n)
        <4>1. t.monitor.inhibits = n + HeldBy(t.corner, t.triggered)
          BY <2>3, <3>2 DEF HeldBy
        <4>2. TimerIsKept(t.monitor)
          BY <2>3, <3>2
        <4>3. /\ t.armed \/ t.triggered <=> t.corner # NULL
              /\ ~(t.armed /\ t.triggered)
          BY <3>2
        <4> QED
          BY <3>1, <4>1, <4>2, <4>3 DEF Agrees
      <3> QED
        BY <2>2, <3>3 DEF t
    <2>5. Clear(st).corner = NULL /\ Clear(st).monitor = m
      BY <2>2
    <2>6. NoLockOnActivity(st, Clear(st))
      BY <2>3, <2>5 DEF NoLockOnActivity
    <2> QED
      BY <2>4, <2>5, <2>6
  <1> QED
    BY <1>1, <1>2

LEMMA EvaluateKeeps ==
    ASSUME NEW n \in Nat, NEW st, Agrees(st, n), NEW c \in Corner \cup {NULL}
    PROVE  /\ Agrees(Evaluate(st, c), n)
           /\ NoLockOnActivity(st, Evaluate(st, c))
  <1>1. CASE c = NULL
    BY <1>1, ClearKeeps DEF Evaluate
  <1>2. CASE c # NULL /\ st.corner = c
    BY <1>2 DEF Evaluate, Occupy, NoLockOnActivity
  <1>3. CASE c # NULL /\ st.corner # c
    <2> DEFINE t == Clear(st)
    <2>1. Agrees(t, n) /\ t.corner = NULL /\ NoLockOnActivity(st, t)
      BY ClearKeeps
    <2>2. Evaluate(st, c) = [t EXCEPT !.corner = c, !.armed = TRUE]
      BY <1>3 DEF Evaluate, Occupy
    <2> HIDE DEF t
    <2>3. t.triggered = FALSE /\ t \in CornerType
      BY <2>1 DEF Agrees, CornerType
    <2>4. HeldBy(c, FALSE) = HeldBy(NULL, FALSE)
      BY DEF HeldBy
    <2> QED
      BY <1>3, <2>1, <2>2, <2>3, <2>4 DEF Agrees, CornerType, NoLockOnActivity
  <1> QED
    BY <1>1, <1>2, <1>3

LEMMA EnterKeeps ==
    ASSUME NEW n \in Nat, NEW st, Agrees(st, n), st.armed
    PROVE  LET t == [st EXCEPT !.monitor = Enter(@, st.corner),
                               !.triggered = TRUE, !.armed = FALSE]
           IN  Agrees(t, n) /\ t.monitor.locked = st.monitor.locked
  <1> DEFINE m == Enter(st.monitor, st.corner)
             t == [st EXCEPT !.monitor = m, !.triggered = TRUE, !.armed = FALSE]
  <1>1. /\ st \in CornerType
        /\ st.monitor \in MonitorType
        /\ TimerIsKept(st.monitor)
        /\ st.triggered = FALSE
        /\ st.monitor.inhibits = n
        /\ st.corner # NULL
    BY DEF Agrees, CornerType, HeldBy
  <1>2. /\ m \in MonitorType
        /\ TimerIsKept(m)
        /\ m.inhibits = n + HeldBy(st.corner, TRUE)
        /\ m.locked = st.monitor.locked
    BY <1>1, InhibitKeeps DEF Enter, HeldBy
  <1> HIDE DEF m
  <1>3. Agrees(t, n) /\ t.monitor.locked = st.monitor.locked
    BY <1>1, <1>2 DEF Agrees, CornerType
  <1> QED
    BY <1>3 DEF m

-----------------------------------------------------------------------------
(* The inductive invariant.                                                *)

IInv ==
    /\ inhibitors \subseteq Inhibitor
    /\ desktop_locked \in BOOLEAN
    /\ command_works \in BOOLEAN
    /\ Agrees(State, Cardinality(inhibitors))

\* The inhibitors there are can be counted.
LEMMA Counted ==
    ASSUME IInv
    PROVE  /\ IsFiniteSet(inhibitors)
           /\ Cardinality(inhibitors) \in Nat
           /\ Cardinality(inhibitors) <= Cardinality(Inhibitor)
           /\ Cardinality(Inhibitor) \in Nat
  BY InhibitorAssumption, FS_Subset, FS_CardinalityType DEF IInv

\* The parts of the state a step of the monitor alone has to keep.
LEMMA MonitorStep ==
    ASSUME IInv, UNCHANGED cornerVars, UNCHANGED command_works,
           inhibitors' \subseteq Inhibitor, desktop_locked' \in BOOLEAN,
           monitor' \in MonitorType, TimerIsKept(monitor'),
           monitor'.inhibits = Cardinality(inhibitors')
                                   + HeldBy(current_corner, corner_triggered)
    PROVE  IInv'
  <1>1. TimerIsKept(monitor)' <=> TimerIsKept(monitor')
    BY DEF TimerIsKept, TimerRuns
  <1> QED
    BY <1>1 DEF IInv, Agrees, State, cornerVars, CornerType, TimerIsKept, TimerRuns,
           HeldBy, ActionsOf

\* A step of the corner that goes to the state st.
LEMMA CornerStep ==
    ASSUME IInv, UNCHANGED <<inhibitors, desktop_locked, command_works>>,
           NEW st, Agrees(st, Cardinality(inhibitors)), Becomes(st)
    PROVE  IInv'
  <1>1. st \in CornerType
    BY DEF Agrees
  <1>2. State' = st
    BY <1>1 DEF Becomes, State, CornerType
  <1> QED
    BY <1>2 DEF IInv, Agrees, TimerIsKept, TimerRuns, HeldBy

LEMMA Initially == Init => IInv
  <1> SUFFICES ASSUME Init PROVE IInv
    OBVIOUS
  <1>1. Cardinality({}) = 0
    BY FS_EmptySet
  <1>2. /\ monitor \in MonitorType
        /\ monitor.inhibits = 0
        /\ TimerIsKept(monitor)
    BY DEF Init, IdleInit, MonitorType, TimerIsKept, TimerRuns, Links
  <1>3. HeldBy(current_corner, corner_triggered) = 0
    BY DEF Init, HeldBy
  <1>4. /\ State \in CornerType
        /\ State.monitor = monitor
        /\ State.corner = current_corner /\ State.corner = NULL
        /\ State.triggered = corner_triggered /\ State.triggered = FALSE
        /\ State.armed = FALSE
    BY <1>2 DEF Init, State, CornerType
  <1>5. Agrees(State, 0)
    BY <1>2, <1>3, <1>4 DEF Agrees
  <1> QED
    BY <1>1, <1>5 DEF Init, IdleInit, IInv

\* What holds before every step, spelled out.
LEMMA Before ==
    ASSUME IInv
    PROVE  /\ monitor \in MonitorType
           /\ TimerIsKept(monitor)
           /\ monitor.inhibits = Cardinality(inhibitors)
                                     + HeldBy(current_corner, corner_triggered)
           /\ HeldBy(current_corner, corner_triggered) \in {0, 1}
           /\ inhibitors \subseteq Inhibitor /\ desktop_locked \in BOOLEAN
           /\ Cardinality(inhibitors) \in Nat
  BY Counted DEF IInv, Agrees, State, CornerType, HeldBy

\* Monitors that lock, lock an idle session that nothing inhibits.
LocksIdle(m) == ~monitor.locked /\ m.locked => m.inhibits = 0

LEMMA OtherInputKeeps ==
    ASSUME IInv, OtherInput PROVE IInv' /\ LocksIdle(monitor')
  BY Before, ResetKeeps, MonitorStep
     DEF OtherInput, InputActivity, LocksIdle

LEMMA IdleTimerKeeps ==
    ASSUME IInv, IdleTimer PROVE IInv' /\ LocksIdle(monitor')
  <1> DEFINE m == [monitor EXCEPT !.armed = FALSE, !.timer_expired = TRUE]
  <1>1. /\ m \in MonitorType
        /\ TimerRuns(m)
        /\ m.inhibits = monitor.inhibits
        /\ m.locked = monitor.locked
    BY Before DEF MonitorType, TimerIsKept, TimerRuns
  <1>2. /\ monitor' = ConsiderLocking(m)
        /\ UNCHANGED cornerVars
        /\ UNCHANGED <<inhibitors, desktop_locked, command_works>>
    BY DEF IdleTimer, Timer
  <1> HIDE DEF m
  <1> QED
    BY Before, <1>1, <1>2, ConsiderLockingKeeps, MonitorStep DEF LocksIdle

LEMMA InhibitorAddedKeeps ==
    ASSUME IInv, NEW i \in Inhibitor, InhibitorAdded(i)
    PROVE  IInv' /\ LocksIdle(monitor')
  <1>1. /\ monitor' = Inhibit(monitor)
        /\ inhibitors' = inhibitors \cup {i} /\ i \notin inhibitors
        /\ UNCHANGED cornerVars
        /\ UNCHANGED <<desktop_locked, command_works>>
    BY DEF InhibitorAdded, NewInhibitor
  <1>2. Cardinality(inhibitors') = Cardinality(inhibitors) + 1
    BY <1>1, Counted, FS_AddElement
  <1> QED
    BY Before, <1>1, <1>2, InhibitKeeps, MonitorStep DEF LocksIdle

LEMMA InhibitorDestroyedKeeps ==
    ASSUME IInv, NEW i \in Inhibitor, InhibitorDestroyed(i)
    PROVE  IInv' /\ LocksIdle(monitor')
  <1>1. /\ monitor' = Uninhibit(monitor)
        /\ inhibitors' = inhibitors \ {i} /\ i \in inhibitors
        /\ UNCHANGED cornerVars
        /\ UNCHANGED <<desktop_locked, command_works>>
    BY DEF InhibitorDestroyed, DestroyInhibitor
  <1>2. /\ Cardinality(inhibitors') = Cardinality(inhibitors) - 1
        /\ Cardinality(inhibitors') \in Nat
    BY <1>1, Counted, FS_RemoveElement, FS_CardinalityType
  <1>3. monitor.inhibits \in Nat /\ monitor.inhibits > 0
    BY Before, <1>2
  <1>4. /\ monitor' \in MonitorType
        /\ TimerIsKept(monitor')
        /\ monitor'.inhibits = monitor.inhibits - 1
        /\ ~monitor.locked /\ monitor'.locked => monitor.inhibits = 1
    BY Before, <1>1, <1>3, UninhibitKeeps
  <1>5. IInv'
    BY Before, <1>1, <1>2, <1>4, MonitorStep
  <1> QED
    BY <1>3, <1>4, <1>5 DEF LocksIdle

LEMMA SessionLockedKeeps ==
    ASSUME IInv, SessionLocked PROVE IInv' /\ LocksIdle(monitor')
  BY Before, MonitorStep DEF SessionLocked, DesktopLock, LocksIdle

LEMMA SessionUnlockedKeeps ==
    ASSUME IInv, SessionUnlocked PROVE IInv' /\ LocksIdle(monitor')
  BY Before, HandleUnlockKeeps, MonitorStep
     DEF SessionUnlocked, DesktopUnlock, LocksIdle

\* Motion is activity: after it, the timer of a monitor that is not locked runs.
LEMMA PointerMotionKeeps ==
    ASSUME IInv, NEW c \in Corner \cup {NULL}, PointerMotion(c)
    PROVE  IInv' /\ (~monitor.locked => ~monitor'.locked)
  <1> DEFINE st == [State EXCEPT !.monitor = Reset(@)]
             n == Cardinality(inhibitors)
  <1>1. /\ Agrees(st, n)
        /\ st.monitor.locked = monitor.locked
        /\ ~monitor.locked => ~st.monitor.timer_expired
    <2>1. st = [monitor |-> Reset(monitor), corner |-> current_corner,
                triggered |-> corner_triggered, armed |-> corner_armed]
      BY DEF State
    <2> QED
      BY <2>1, Before, ResetKeeps DEF IInv, Agrees, State, CornerType
  <1>2. n \in Nat
    BY Counted
  <1>3. Becomes(Evaluate(st, c))
        /\ UNCHANGED <<inhibitors, desktop_locked, command_works>>
    BY DEF PointerMotion
  <1> HIDE DEF st
  <1>4. Agrees(Evaluate(st, c), n) /\ NoLockOnActivity(st, Evaluate(st, c))
    BY <1>1, <1>2, EvaluateKeeps
  <1>5. IInv'
    BY <1>3, <1>4, CornerStep
  <1> QED
    BY <1>1, <1>3, <1>4, <1>5 DEF Becomes, NoLockOnActivity

LEMMA OutputLayoutChangedKeeps ==
    ASSUME IInv, NEW c \in Corner \cup {NULL}, OutputLayoutChanged(c)
    PROVE  IInv' /\ LocksIdle(monitor')
  <1>1. Agrees(State, Cardinality(inhibitors)) /\ Cardinality(inhibitors) \in Nat
    BY Counted DEF IInv
  <1>2. /\ Agrees(Evaluate(State, c), Cardinality(inhibitors))
        /\ NoLockOnActivity(State, Evaluate(State, c))
    BY <1>1, EvaluateKeeps
  <1>3. Becomes(Evaluate(State, c))
        /\ UNCHANGED <<inhibitors, desktop_locked, command_works>>
    BY DEF OutputLayoutChanged
  <1>4. IInv'
    BY <1>2, <1>3, CornerStep
  <1>5. LocksIdle(monitor')
    BY <1>2, <1>3 DEF Becomes, NoLockOnActivity, LocksIdle, State
  <1> QED
    BY <1>4, <1>5

LEMMA CornerTimerKeeps ==
    ASSUME IInv, CornerTimer PROVE IInv' /\ LocksIdle(monitor')
  <1> DEFINE t == [State EXCEPT !.monitor = Enter(@, State.corner),
                                !.triggered = TRUE, !.armed = FALSE]
  <1>1. Agrees(State, Cardinality(inhibitors)) /\ Cardinality(inhibitors) \in Nat
    BY Counted DEF IInv
  <1>2. State.armed /\ State.corner = current_corner /\ State.monitor = monitor
    BY DEF State, CornerTimer
  <1>3. /\ Agrees(t, Cardinality(inhibitors))
        /\ t.monitor.locked = monitor.locked
    BY <1>1, <1>2, EnterKeeps
  <1>4. Becomes(t) /\ UNCHANGED <<inhibitors, desktop_locked, command_works>>
    BY <1>2 DEF CornerTimer
  <1> HIDE DEF t
  <1>5. IInv'
    BY <1>3, <1>4, CornerStep
  <1>6. LocksIdle(monitor')
    BY <1>3, <1>4 DEF Becomes, LocksIdle
  <1> QED
    BY <1>5, <1>6

LEMMA StutteringKeeps ==
    ASSUME IInv, UNCHANGED vars PROVE IInv' /\ monitor' = monitor
  BY DEF IInv, vars, idleVars, cornerVars, Agrees, State, TimerIsKept, TimerRuns,
         HeldBy, CornerType

LEMMA Inductive == IInv /\ [Next]_vars => IInv'
  <1> SUFFICES ASSUME IInv, [Next]_vars PROVE IInv'
    OBVIOUS
  <1> QED
    BY OtherInputKeeps, PointerMotionKeeps, IdleTimerKeeps, InhibitorAddedKeeps,
       InhibitorDestroyedKeeps, SessionLockedKeeps, SessionUnlockedKeeps,
       OutputLayoutChangedKeeps, CornerTimerKeeps, StutteringKeeps DEF Next

THEOREM Invariance == Spec => []IInv
  BY Initially, Inductive, PTL DEF Spec

-----------------------------------------------------------------------------
(* The properties of HotCorner.                                            *)

\* Monitor and corner keep their types, whatever steps are taken
\* (wlmaker_idle_monitor_t, wlmaker_corner_t).
THEOREM TypeCorrectness == Spec => []TypeOK
  <1>1. IInv => TypeOK
    <2> SUFFICES ASSUME IInv PROVE TypeOK
      OBVIOUS
    <2>1. monitor \in MonitorState
      BY Before, Counted DEF MonitorType, MonitorState, Failure
    <2> QED
      BY <2>1 DEF IInv, Agrees, State, CornerType, TypeOK
  <1> QED
    BY <1>1, Invariance, PTL

\* Clients' inhibitors and the hot corner are counted right, and the assertion
\* in uninhibit (idle.c:251) holds.
THEOREM InhibitsCounted == Spec => []InhibitsAreCounted
  <1>1. IInv => InhibitsAreCounted
    <2> SUFFICES ASSUME IInv PROVE InhibitsAreCounted
      OBVIOUS
    <2>1. monitor.failed # "uninhibit"
      BY Before, NullIsNoCorner DEF MonitorType, Failure
    <2> QED
      BY <2>1, Before DEF InhibitsAreCounted, HeldBy
  <1> QED
    BY <1>1, Invariance, PTL

\* An idle timer that is neither armed nor expired, or expired and not acted on,
\* cannot come about (timer, uninhibit, reset and handle_unlock of idle.c).
THEOREM TimerIsNeverLost == Spec => []IdleTimerIsNeverLost
  <1>1. IInv => IdleTimerIsNeverLost
    <2> SUFFICES ASSUME IInv PROVE IdleTimerIsNeverLost
      OBVIOUS
    <2> QED
      BY Before DEF IdleTimerIsNeverLost, TimerIsKept, TimerRuns
  <1> QED
    BY <1>1, Invariance, PTL

\* The corner's timer is armed, or its action executed, exactly while the pointer
\* is in a corner (clear and occupy of corner.c).
THEOREM TimerFollowsPointer == Spec => []CornerTimerFollowsPointer
  <1>1. IInv => CornerTimerFollowsPointer
    BY DEF IInv, Agrees, State, CornerTimerFollowsPointer
  <1> QED
    BY <1>1, Invariance, PTL

\* No step locks a session that is inhibited, and no step that is itself
\* activity of the pointer does (consider_locking of idle.c).
THEOREM LocksAreIdle == Spec => LocksOnlyWhenIdle
  <1> DEFINE A == ~monitor.locked /\ monitor'.locked =>
                      /\ monitor'.inhibits = 0
                      /\ ~\E c \in Corner \cup {NULL} : PointerMotion(c)
  <1>1. IInv /\ [Next]_vars => [A]_vars
    <2> SUFFICES ASSUME IInv, Next PROVE A
      OBVIOUS
    <2> SUFFICES ASSUME ~monitor.locked, monitor'.locked
                 PROVE  /\ monitor'.inhibits = 0
                        /\ ~\E c \in Corner \cup {NULL} : PointerMotion(c)
      OBVIOUS
    <2>1. ~\E c \in Corner \cup {NULL} : PointerMotion(c)
      BY PointerMotionKeeps
    <2>2. LocksIdle(monitor')
      BY <2>1, OtherInputKeeps, IdleTimerKeeps, InhibitorAddedKeeps,
         InhibitorDestroyedKeeps, SessionLockedKeeps, SessionUnlockedKeeps,
         OutputLayoutChangedKeeps, CornerTimerKeeps DEF Next
    <2> QED
      BY <2>1, <2>2 DEF LocksIdle
  <1>2. Spec => [][A]_vars
    BY <1>1, Invariance, PTL DEF Spec
  <1> QED
    BY <1>2 DEF LocksOnlyWhenIdle
=============================================================================
