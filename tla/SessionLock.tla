----------------------------- MODULE SessionLock -----------------------------
(***************************************************************************)
(* The session locks of clients (ext-session-lock-v1): lock_mgr.c, the     *)
(* output tracker that tells each lock of the outputs in the layout        *)
(* (toolkit/output_tracker.c), the lock of the desktop that a lock takes   *)
(* when all its surfaces are there (toolkit/desktop.c), and the keyboard   *)
(* focus it gives to one of them (toolkit/surface.c).                      *)
(*                                                                         *)
(* wlroots is modelled by what the handlers rely on: only a lock that was  *)
(* told it is locked may unlock, a commit follows the acknowledgement of   *)
(* the first configure event, and whatever a client leaves behind is       *)
(* destroyed, surfaces first.  One event is handled at a time.             *)
(***************************************************************************)
EXTENDS Naturals, Sequences, Lists

CONSTANTS
    SessionLocks,   \* The locks that clients may request; reused.
    Output,         \* The outputs that may be plugged in.
    InitialLayout,  \* The outputs in the layout at first, in its order.
    NULL

ASSUME NullIsNoLock == NULL \notin SessionLocks \cup Output

ASSUME NullIsNoFailure == NULL # "output_update"

ASSUME LayoutAssumption ==
    InitialLayout \in Seq(Output) /\ Unique(InitialLayout)

VARIABLES
    layout,         \* The outputs of the output layout.
    locks,          \* The locks there are, in the order they were created.
    outputs,        \* wlmaker_lock_t::outputs, of each lock.
    surface,        \* State of the lock surface, of each lock and output.
    activated,      \* The outputs whose surface is flagged activated.
    locked_sent,    \* Whether the lock's client was told it is locked.
    locked,         \* wlmtk_desktop_t::locked.
    lock_element,   \* wlmtk_desktop_t::lock_element_ptr, as its lock.
    focus,          \* The lock surface with keyboard focus, NULL if another.
    failed          \* Site of the failure that ended the program.

lockVars == <<locks, outputs, surface, activated>>
desktopVars == <<locked_sent, locked, lock_element>>
vars == <<layout, lockVars, desktopVars, focus, failed>>

-----------------------------------------------------------------------------
(* A surface is configured when it is created; its client acknowledges     *)
(* and commits it. When the layout changes a committed surface gets        *)
(* another configure event, and is stale until the next commit.            *)

SurfaceState == {"none", "configured", "acked", "committed", "stale"}

\* _wlmaker_lock_output_surface_is_committed: stays true for stale surfaces.
IsCommitted(s, o) == s[o] \in {"committed", "stale"}

Init ==
    /\ layout = InitialLayout
    /\ locks = <<>>
    /\ outputs = [l \in SessionLocks |-> <<>>]
    /\ surface = [l \in SessionLocks |-> [o \in Output |-> "none"]]
    /\ activated = [l \in SessionLocks |-> {}]
    /\ locked_sent = [l \in SessionLocks |-> FALSE]
    /\ locked = FALSE
    /\ lock_element = NULL
    /\ focus = NULL
    /\ failed = NULL

Alive(l) == l \in Members(locks)

\* The first of the outputs os whose surface is committed, NULL if none.
FirstCommitted(os, s) ==
    LET at == {i \in DOMAIN os : IsCommitted(s, os[i])} IN
    IF at = {} THEN NULL
    ELSE os[CHOOSE i \in at : \A j \in at : i <= j]

\* Mutant: one committed surface is enough.
SomeCommitted(os, s) == \E o \in Members(os) : IsCommitted(s, o)

AllCommitted(os, s) == os # <<>> /\ \A o \in Members(os) : IsCommitted(s, o)

-----------------------------------------------------------------------------
(* Requests of the clients.                                                *)

\* The tracker creates an output for each one in the layout.
NewLock(l) ==
    /\ failed = NULL
    /\ ~Alive(l)
    /\ locks' = PushBack(locks, l)
    /\ outputs' = [outputs EXCEPT ![l] = layout]
    /\ UNCHANGED <<layout, surface, activated, desktopVars, focus, failed>>

NewSurface(l, o) ==
    /\ failed = NULL
    /\ o \in Members(outputs[l])
    /\ surface[l][o] = "none"
    /\ surface' = [surface EXCEPT ![l][o] = "configured"]
    /\ UNCHANGED <<layout, locks, outputs, activated, desktopVars, focus, failed>>

Acknowledge(l, o) ==
    /\ failed = NULL
    /\ surface[l][o] = "configured"
    /\ surface' = [surface EXCEPT ![l][o] = "acked"]
    /\ UNCHANGED <<layout, locks, outputs, activated, desktopVars, focus, failed>>

\* _wlmaker_lock_if_ready, with surfaces s: takes the desktop's lock, and gives
\* focus to the first surface unless that is flagged activated already. Locking
\* deactivates the window that had the focus.
Grant(l, s) ==
    LET o == FirstCommitted(outputs[l], s) IN
    /\ locked' = TRUE
    /\ lock_element' = l
    /\ locked_sent' = [locked_sent EXCEPT ![l] = TRUE]
    /\ activated' = [activated EXCEPT ![l] = @ \cup {o}]
    /\ focus' = IF o \in activated[l] THEN focus ELSE <<l, o>>

\* Mutant: does not look whether the desktop is locked.
LockIfAllCommitted(l, s) ==
    IF AllCommitted(outputs[l], s)
    THEN Grant(l, s)
    ELSE UNCHANGED <<activated, desktopVars, focus>>

LockIfReady(l, s) ==
    IF AllCommitted(outputs[l], s) /\ ~locked
    THEN Grant(l, s)
    ELSE UNCHANGED <<activated, desktopVars, focus>>

\* Mutant: looks whether the lock is ready before the surface is committed.
CommitAfterLocking(l, o) ==
    /\ failed = NULL
    /\ surface[l][o] \in {"acked", "committed", "stale"}
    /\ surface' = [surface EXCEPT ![l][o] = "committed"]
    /\ LockIfReady(l, surface[l])
    /\ UNCHANGED <<layout, locks, outputs, failed>>

Commit(l, o) ==
    /\ failed = NULL
    /\ surface[l][o] \in {"acked", "committed", "stale"}
    /\ surface' = [surface EXCEPT ![l][o] = "committed"]
    /\ LockIfReady(l, surface'[l])
    /\ UNCHANGED <<layout, locks, outputs, failed>>

\* The client destroys a lock surface, and nothing else takes its focus.
SurfaceDestroy(l, o) ==
    /\ failed = NULL
    /\ surface[l][o] # "none"
    /\ surface' = [surface EXCEPT ![l][o] = "none"]
    /\ activated' = [activated EXCEPT ![l] = @ \ {o}]
    /\ focus' = IF focus = <<l, o>> THEN NULL ELSE focus
    /\ UNCHANGED <<layout, locks, outputs, desktopVars, failed>>

\* Surfaces and outputs of l are gone, and l is freed.
Discard(l) ==
    /\ locks' = Remove(locks, l)
    /\ outputs' = [outputs EXCEPT ![l] = <<>>]
    /\ surface' = [surface EXCEPT ![l] = [o \in Output |-> "none"]]
    /\ activated' = [activated EXCEPT ![l] = {}]
    /\ locked_sent' = [locked_sent EXCEPT ![l] = FALSE]

\* unlock_and_destroy. A window may take the focus of another lock's surface.
UnlockAndDestroy(l) ==
    /\ failed = NULL
    /\ Alive(l)
    /\ locked_sent[l]
    /\ Discard(l)
    /\ IF locked /\ lock_element = l
       THEN locked' = FALSE /\ lock_element' = NULL
       ELSE UNCHANGED <<locked, lock_element>>
    /\ focus' \in {NULL} \cup ({focus} \ ({l} \X Output))
    /\ UNCHANGED <<layout, failed>>

\* Mutant: a lock that goes away lifts the desktop's lock.
DestroyUnlocks(l) ==
    /\ failed = NULL
    /\ Alive(l)
    /\ Discard(l)
    /\ lock_element' = IF lock_element = l THEN NULL ELSE lock_element
    /\ locked' = FALSE
    /\ focus' = IF focus \in {l} \X Output THEN NULL ELSE focus
    /\ UNCHANGED <<layout, failed>>

\* The client gives up its request, or dies: the desktop stays as it is.
Destroy(l) ==
    /\ failed = NULL
    /\ Alive(l)
    /\ Discard(l)
    /\ lock_element' = IF lock_element = l THEN NULL ELSE lock_element
    /\ focus' = IF focus \in {l} \X Output THEN NULL ELSE focus
    /\ UNCHANGED <<layout, locked, failed>>

\* A window is activated, by pointer or key, and takes the focus.
WindowActivated ==
    /\ failed = NULL
    /\ ~locked
    /\ focus # NULL
    /\ focus' = NULL
    /\ UNCHANGED <<layout, lockVars, desktopVars, failed>>

-----------------------------------------------------------------------------
(* Outputs that are plugged in, unplugged or moved.  The trackers of all   *)
(* locks are told, in the order they were created.                         *)

\* Mutant: outputs that left the layout are kept.
TrackedKeepingRemoved(l, new) ==
    outputs[l] \o Among(new, Members(new) \ Members(outputs[l]))

\* The outputs of l once the tracker is done: those that stay in the layout in
\* their order in the lock, then those that are new to it.
Tracked(l, new) ==
    Among(outputs[l], Members(new))
        \o Among(new, Members(new) \ Members(outputs[l]))

\* Destroys surfaces that left the layout, configures those that stay.
Reconfigured(l, new) ==
    [o \in Output |->
        CASE o \notin Members(new) -> "none"
          [] o \in Members(new) /\ surface[l][o] = "committed" -> "stale"
          [] OTHER -> surface[l][o]]

\* The output whose surface gets activated, in a set, when one was removed.
NewlyActivated(l, new) ==
    IF Members(outputs[l]) \subseteq Members(new) THEN {}
    ELSE {FirstCommitted(Tracked(l, new), Reconfigured(l, new))}
             \ ({NULL} \cup activated[l])

\* The locks that activate a surface; the last one's surface has the focus.
FocusAfter(new) ==
    LET at == {i \in DOMAIN locks : NewlyActivated(locks[i], new) # {}} IN
    IF at # {}
    THEN LET l == locks[CHOOSE i \in at : \A j \in at : j <= i]
         IN  <<l, CHOOSE o \in NewlyActivated(l, new) : TRUE>>
    ELSE IF focus # NULL /\ focus[2] \notin Members(new) THEN NULL ELSE focus

\* Dereferences the surface of an output that has none.
UpdatesMissingSurface(new) ==
    \E l \in Members(locks) : \E o \in Members(outputs[l]) \cap Members(new) :
        surface[l][o] = "none"

LayoutChange(new) ==
    /\ failed = NULL
    /\ layout' = new
    /\ IF UpdatesMissingSurface(new)
       THEN failed' = "output_update" /\ UNCHANGED <<lockVars, focus>>
       ELSE /\ outputs' = [l \in SessionLocks |->
                              IF Alive(l) THEN Tracked(l, new) ELSE <<>>]
            /\ surface' = [l \in SessionLocks |-> Reconfigured(l, new)]
            /\ activated' = [l \in SessionLocks |->
                   (activated[l] \cap Members(new)) \cup NewlyActivated(l, new)]
            /\ focus' = FocusAfter(new)
            /\ UNCHANGED <<locks, failed>>
    /\ UNCHANGED desktopVars

OutputAdded(o) == o \notin Members(layout) /\ LayoutChange(PushBack(layout, o))
OutputRemoved(o) == o \in Members(layout) /\ LayoutChange(Remove(layout, o))
OutputMoved == layout # <<>> /\ LayoutChange(layout)

-----------------------------------------------------------------------------
ClientStep(l) ==
    \/ NewLock(l)
    \/ UnlockAndDestroy(l)
    \/ Destroy(l)
    \/ \E o \in Output :
           \/ NewSurface(l, o)
           \/ Acknowledge(l, o)
           \/ Commit(l, o)
           \/ SurfaceDestroy(l, o)

Next ==
    \/ \E l \in SessionLocks : ClientStep(l)
    \/ \E o \in Output : OutputAdded(o) \/ OutputRemoved(o)
    \/ OutputMoved
    \/ WindowActivated

Spec == Init /\ [][Next]_vars

\* Clients answer configure events: they acknowledge the first one, and commit
\* when it was acknowledged and whenever another one has made them stale. They
\* need not commit a surface again that is committed.
Answers(l, o) == Acknowledge(l, o) \/ (surface[l][o] # "committed" /\ Commit(l, o))

FairSpec ==
    Spec /\ \A l \in SessionLocks : \A o \in Output : WF_vars(Answers(l, o))

-----------------------------------------------------------------------------
\* The types of the variables (wlmaker_lock_t, wlmaker_lock_output_t and the
\* desktop's lock): a surface that is activated is one of a committed output.
TypeOK ==
    /\ layout \in Seq(Output)
    /\ locks \in Seq(SessionLocks)
    /\ outputs \in [SessionLocks -> Seq(Output)]
    /\ surface \in [SessionLocks -> [Output -> SurfaceState]]
    /\ activated \in [SessionLocks -> SUBSET Output]
    /\ locked_sent \in [SessionLocks -> BOOLEAN]
    /\ locked \in BOOLEAN
    /\ lock_element \in SessionLocks \cup {NULL}
    /\ focus \in (SessionLocks \X Output) \cup {NULL}
    /\ failed \in {"output_update", NULL}

\* Whatever happened to the layout before or after the lock was requested, a
\* lock has an output for each output of the layout and no other, once each, and
\* surfaces only there (the tracker's create, update and destroy callbacks).
OutputsFollowLayout ==
    /\ Unique(locks)
    /\ failed = NULL => \A l \in Members(locks) :
           Unique(outputs[l]) /\ Members(outputs[l]) = Members(layout)
    /\ \A l \in SessionLocks : \A o \in Output :
           surface[l][o] # "none" => o \in Members(outputs[l])
    /\ \A l \in SessionLocks : activated[l] \subseteq
           {o \in Output : IsCommitted(surface[l], o)}

\* A client was told that it is locked exactly while its lock holds the
\* desktop's: of several requested locks at most one, never one that is gone,
\* and not one that is waiting for another to go away.
OnlyHolderIsToldLocked ==
    /\ \A l \in SessionLocks :
           locked_sent[l] <=> Alive(l) /\ lock_element = l
    /\ lock_element # NULL => locked /\ Alive(lock_element)

\* The desktop is locked, and the client told so, only by a step before which
\* every output of the layout had a surface of that lock whose first configure
\* event was acknowledged: no output is left unlocked.
LockedOnlyWhenCovered ==
    [][\A l \in SessionLocks : ~locked_sent[l] /\ locked_sent'[l] =>
           /\ ~locked
           /\ layout # <<>>
           /\ \A o \in Members(layout) :
                  surface[l][o] \in {"acked", "committed", "stale"}]_vars

\* The lock of the desktop as the session locks use it: see DesktopLock.
Promise == INSTANCE DesktopLock
               WITH Holder <- SessionLocks, NoHolder <- NULL,
                    locked <- locked, holder <- lock_element

ImplementsDesktopLock == Promise!Spec

\* Every output of l has a surface, and nothing else locks the desktop.
CanLock(l) ==
    /\ failed = NULL
    /\ Alive(l)
    /\ ~locked
    /\ outputs[l] # <<>>
    /\ \A o \in Members(outputs[l]) : surface[l][o] # "none"

\* "Once all surfaces are locked, a 'send_locked' event will be sent"
\* (lock_mgr.c:706): a lock that never has another one beside it, and whose
\* outputs all have surfaces that answer configure events, is granted, also if
\* outputs come and go in between, unless one of these conditions ends.
LoneLockIsGranted ==
    [](Len(locks) <= 1) =>
        \A l \in SessionLocks : CanLock(l) ~> (locked_sent[l] \/ ~CanLock(l))

-----------------------------------------------------------------------------
(* What comments say, and the code does not do.                            *)

\* "Outputs with surface" (lock_mgr.c:100): when the layout changes, the outputs
\* of every lock have surfaces to update.
UpdatedOutputsHaveSurfaces == failed # "output_update"

\* "Whether this surface is activated, ie. has keyboard focus" (surface.c:81),
\* of the surfaces of the lock that holds the desktop's.
ActivatedSurfaceHasFocus ==
    \A l \in SessionLocks : \A o \in Output :
        lock_element = l /\ o \in activated[l] => focus = <<l, o>>
=============================================================================
