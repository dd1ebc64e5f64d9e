---------------------------- MODULE DesktopLock ----------------------------
(***************************************************************************)
(* What the desktop promises about its lock (toolkit/desktop.h, lock,      *)
(* unlock and lock_unreference): it is held by one element at a time, only *)
(* the holder lifts it, and a holder that goes away leaves the desktop     *)
(* locked for good -- "the session should remain locked if the client      *)
(* dies".  Desktop and SessionLock implement this specification.           *)
(***************************************************************************)
CONSTANTS
    Holder,     \* The elements that may lock the desktop.
    NoHolder    \* NULL: no element of Holder.

VARIABLES
    locked,     \* Whether the desktop is locked.
    holder      \* The element the lock belongs to, while it is there.

lockVars == <<locked, holder>>

Init ==
    /\ locked = FALSE
    /\ holder = NoHolder

Lock(e) ==
    /\ ~locked
    /\ locked' = TRUE
    /\ holder' = e

Unlock(e) ==
    /\ locked
    /\ holder = e
    /\ locked' = FALSE
    /\ holder' = NoHolder

\* The holder disappears: nobody is left to unlock.
Orphan(e) ==
    /\ locked
    /\ holder = e
    /\ holder' = NoHolder
    /\ UNCHANGED locked

Next == \E e \in Holder : Lock(e) \/ Unlock(e) \/ Orphan(e)

Spec == Init /\ [][Next]_lockVars
=============================================================================
