-------------------------- MODULE SessionLockProofs --------------------------
(***************************************************************************)
(* Who holds the desktop's lock, for any number of locks and outputs: the  *)
(* inductive invariant ties what clients were told to the lock's element,  *)
(* and lets every step be read as a step of DesktopLock or a stutter.      *)
(***************************************************************************)
EXTENDS SessionLock, ListsProofs

\* The types the argument needs.
HolderType ==
    /\ locks \in Seq(SessionLocks)
    /\ outputs = [l \in SessionLocks |-> outputs[l]]
    /\ locked \in BOOLEAN
    /\ locked_sent \in [SessionLocks -> BOOLEAN]
    /\ lock_element \in SessionLocks \cup {NULL}

\* Only a lock that is there has outputs: a commit cannot grant one that is gone.
GoneHasNoOutputs == \A l \in SessionLocks : outputs[l] # <<>> => Alive(l)

IInv ==
    /\ HolderType
    /\ Unique(locks)
    /\ GoneHasNoOutputs
    /\ OnlyHolderIsToldLocked

LEMMA Initially == Init => IInv
  <1> SUFFICES ASSUME Init PROVE IInv
    OBVIOUS
  <1>1. locks = <<>> /\ Members(<<>>) = {} /\ Unique(<<>>)
    BY DEF Init, Members, Unique
  <1>2. HolderType
    <2>1. outputs = [l \in SessionLocks |-> outputs[l]]
      BY DEF Init
    <2>2. locked_sent \in [SessionLocks -> BOOLEAN]
      BY DEF Init
    <2>3. locked \in BOOLEAN /\ lock_element = NULL
      BY DEF Init
    <2>4. locks \in Seq(SessionLocks)
      BY <1>1
    <2> QED
      BY <2>1, <2>2, <2>3, <2>4 DEF HolderType
  <1>3. GoneHasNoOutputs
    BY DEF Init, GoneHasNoOutputs
  <1>4. OnlyHolderIsToldLocked
    BY NullIsNoLock DEF Init, OnlyHolderIsToldLocked
  <1> QED
    BY <1>1, <1>2, <1>3, <1>4 DEF IInv

\* Steps that leave the locks and the desktop alone.
LEMMA OtherStepKeeps ==
    ASSUME IInv, UNCHANGED <<locks, outputs, desktopVars>>
    PROVE  IInv'
  BY DEF IInv, HolderType, GoneHasNoOutputs, OnlyHolderIsToldLocked, Alive,
         desktopVars

LEMMA NewLockKeeps ==
    ASSUME IInv, NEW l \in SessionLocks, NewLock(l)
    PROVE  IInv'
  <1>1. /\ locks \in Seq(SessionLocks) /\ Unique(locks) /\ l \notin Members(locks)
        /\ locks' = PushBack(locks, l)
        /\ outputs' = [outputs EXCEPT ![l] = layout]
        /\ UNCHANGED <<locked_sent, locked, lock_element>>
    BY DEF IInv, HolderType, NewLock, Alive, desktopVars
  <1>2. /\ locks' \in Seq(SessionLocks)
        /\ Members(locks') = Members(locks) \cup {l}
        /\ Unique(locks')
    BY <1>1, PushBackMembers
  <1>3. ~locked_sent[l] /\ lock_element # l
    BY <1>1, NullIsNoLock DEF IInv, OnlyHolderIsToldLocked, Alive
  <1>4. HolderType'
    BY <1>1, <1>2 DEF IInv, HolderType
  <1>5. GoneHasNoOutputs'
    BY <1>1, <1>2 DEF IInv, HolderType, GoneHasNoOutputs, Alive
  <1>6. OnlyHolderIsToldLocked'
    BY <1>1, <1>2, <1>3 DEF IInv, OnlyHolderIsToldLocked, Alive
  <1> QED
    BY <1>2, <1>4, <1>5, <1>6 DEF IInv

\* The only step that locks: a commit, of a lock that is there.
LEMMA CommitKeeps ==
    ASSUME IInv, NEW l \in SessionLocks, NEW o \in Output, Commit(l, o)
    PROVE  /\ IInv'
           /\ \/ UNCHANGED <<locked, lock_element>>
              \/ ~locked /\ locked' /\ lock_element' = l
  <1> DEFINE ready == AllCommitted(outputs[l], surface'[l]) /\ ~locked
  <1>1. CASE ready
    <2>1. /\ locked' = TRUE
          /\ lock_element' = l
          /\ locked_sent' = [locked_sent EXCEPT ![l] = TRUE]
          /\ UNCHANGED <<locks, outputs>>
      BY <1>1 DEF Commit, LockIfReady, Grant
    <2>2. Alive(l) /\ ~locked
      BY <1>1 DEF AllCommitted, IInv, GoneHasNoOutputs
    <2>3. \A m \in SessionLocks : ~locked_sent[m]
      BY <2>2, NullIsNoLock DEF IInv, OnlyHolderIsToldLocked
    <2>4. HolderType'
      BY <2>1 DEF IInv, HolderType
    <2>5. GoneHasNoOutputs'
      BY <2>1 DEF IInv, GoneHasNoOutputs, Alive
    <2>6. OnlyHolderIsToldLocked'
      BY <2>1, <2>2, <2>3 DEF IInv, HolderType, OnlyHolderIsToldLocked, Alive
    <2> QED
      BY <2>1, <2>2, <2>4, <2>5, <2>6 DEF IInv
  <1>2. CASE ~ready
    <2>1. UNCHANGED <<locks, outputs, desktopVars>>
      BY <1>2 DEF Commit, LockIfReady
    <2> QED
      BY <2>1, OtherStepKeeps DEF desktopVars
  <1> QED
    BY <1>1, <1>2

\* What discarding l leaves, when the desktop's lock is given up if l held it.
LEMMA DiscardKeeps ==
    ASSUME IInv, NEW l \in SessionLocks, Alive(l), Discard(l),
           locked' \in BOOLEAN,
           lock_element' = IF lock_element = l THEN NULL ELSE lock_element,
           lock_element' # NULL => locked'
    PROVE  IInv'
  <1>1. /\ locks' = Remove(locks, l)
        /\ outputs' = [outputs EXCEPT ![l] = <<>>]
        /\ locked_sent' = [locked_sent EXCEPT ![l] = FALSE]
    BY DEF Discard
  <1>2. /\ locks' \in Seq(SessionLocks)
        /\ Unique(locks')
        /\ Members(locks') = Members(locks) \ {l}
    BY <1>1, RemoveType, RemoveMembers DEF IInv, HolderType, Alive
  <1>3. HolderType'
    BY <1>1, <1>2 DEF IInv, HolderType
  <1>4. GoneHasNoOutputs'
    BY <1>1, <1>2 DEF IInv, HolderType, GoneHasNoOutputs, Alive
  <1>5. OnlyHolderIsToldLocked'
    BY <1>1, <1>2, NullIsNoLock
       DEF IInv, HolderType, OnlyHolderIsToldLocked, Alive
  <1> QED
    BY <1>2, <1>3, <1>4, <1>5 DEF IInv

\* Only a client that was told that it holds the lock unlocks, and it does.
LEMMA UnlockAndDestroyKeeps ==
    ASSUME IInv, NEW l \in SessionLocks, UnlockAndDestroy(l)
    PROVE  /\ IInv'
           /\ locked /\ lock_element = l /\ ~locked' /\ lock_element' = NULL
  <1>1. Alive(l) /\ lock_element = l /\ locked /\ Discard(l)
    BY NullIsNoLock DEF UnlockAndDestroy, IInv, OnlyHolderIsToldLocked
  <1>2. locked' = FALSE /\ lock_element' = NULL
    BY <1>1 DEF UnlockAndDestroy
  <1> QED
    BY <1>1, <1>2, DiscardKeeps

\* A client that goes away never unlocks.
LEMMA DestroyKeeps ==
    ASSUME IInv, NEW l \in SessionLocks, Destroy(l)
    PROVE  /\ IInv'
           /\ \/ UNCHANGED <<locked, lock_element>>
              \/ locked /\ lock_element = l /\ lock_element' = NULL /\ locked' = locked
  <1>1. /\ Alive(l)
        /\ Discard(l)
        /\ locked' = locked
        /\ lock_element' = IF lock_element = l THEN NULL ELSE lock_element
    BY DEF Destroy
  <1>2. locked \in BOOLEAN /\ (lock_element # NULL => locked)
    BY DEF IInv, HolderType, OnlyHolderIsToldLocked
  <1>3. IInv'
    BY <1>1, <1>2, DiscardKeeps
  <1> QED
    BY <1>1, <1>2, <1>3, NullIsNoLock

\* Layout changes leave the locks and who holds the desktop's lock alone.
LEMMA LayoutChangeKeeps ==
    ASSUME IInv, NEW new, LayoutChange(new)
    PROVE  IInv' /\ UNCHANGED <<locked, lock_element>>
  <1>1. UNCHANGED <<locks, locked_sent, locked, lock_element>>
    BY DEF LayoutChange, desktopVars, lockVars
  <1>2. \/ outputs' = outputs
        \/ outputs' = [l \in SessionLocks |->
                          IF Alive(l) THEN Tracked(l, new) ELSE <<>>]
    BY DEF LayoutChange, lockVars
  <1>3. HolderType'
    BY <1>1, <1>2 DEF IInv, HolderType
  <1>4. GoneHasNoOutputs'
    BY <1>1, <1>2 DEF IInv, GoneHasNoOutputs, Alive
  <1>5. OnlyHolderIsToldLocked'
    BY <1>1 DEF IInv, OnlyHolderIsToldLocked, Alive
  <1> QED
    BY <1>1, <1>3, <1>4, <1>5 DEF IInv

-----------------------------------------------------------------------------
(* Every step, with what it is for the desktop's lock.                     *)

LockStep ==
    \/ UNCHANGED <<locked, lock_element>>
    \/ \E l \in SessionLocks :
           \/ ~locked /\ locked' = TRUE /\ lock_element' = l
           \/ locked /\ lock_element = l /\ locked' = FALSE /\ lock_element' = NULL
           \/ locked /\ lock_element = l /\ lock_element' = NULL /\ locked' = locked

LEMMA ClientStepKeeps ==
    ASSUME IInv, NEW l \in SessionLocks, ClientStep(l)
    PROVE  IInv' /\ LockStep
  <1>1. CASE NewLock(l)
    BY <1>1, NewLockKeeps DEF NewLock, desktopVars, LockStep
  <1>2. CASE UnlockAndDestroy(l)
    <2>1. locked' = FALSE
      BY <1>2, UnlockAndDestroyKeeps DEF IInv, HolderType
    <2> QED
      BY <1>2, <2>1, UnlockAndDestroyKeeps DEF LockStep
  <1>3. CASE Destroy(l)
    BY <1>3, DestroyKeeps DEF LockStep
  <1>4. ASSUME NEW o \in Output,
               NewSurface(l, o) \/ Acknowledge(l, o) \/ SurfaceDestroy(l, o)
        PROVE  IInv' /\ LockStep
    <2>1. UNCHANGED <<locks, outputs, desktopVars>>
      BY <1>4 DEF NewSurface, Acknowledge, SurfaceDestroy
    <2> QED
      BY <2>1, OtherStepKeeps DEF LockStep, desktopVars
  <1>5. ASSUME NEW o \in Output, Commit(l, o)
        PROVE  IInv' /\ LockStep
    <2>1. IInv' /\ (locked' \in BOOLEAN)
      BY <1>5, CommitKeeps DEF IInv, HolderType
    <2> QED
      BY <1>5, <2>1, CommitKeeps DEF LockStep
  <1> QED
    BY <1>1, <1>2, <1>3, <1>4, <1>5 DEF ClientStep

LEMMA StepKeeps == IInv /\ [Next]_vars => IInv' /\ LockStep
  <1> SUFFICES ASSUME IInv, [Next]_vars PROVE IInv' /\ LockStep
    OBVIOUS
  <1>1. ASSUME NEW l \in SessionLocks, ClientStep(l) PROVE IInv' /\ LockStep
    BY <1>1, ClientStepKeeps
  <1>2. ASSUME NEW o \in Output, OutputAdded(o) \/ OutputRemoved(o)
        PROVE  IInv' /\ LockStep
    BY <1>2, LayoutChangeKeeps DEF OutputAdded, OutputRemoved, LockStep
  <1>3. CASE OutputMoved
    BY <1>3, LayoutChangeKeeps DEF OutputMoved, LockStep
  <1>4. CASE WindowActivated \/ UNCHANGED vars
    <2>1. UNCHANGED <<locks, outputs, desktopVars>>
      BY <1>4 DEF WindowActivated, vars, lockVars
    <2> QED
      BY <2>1, OtherStepKeeps DEF LockStep, desktopVars
  <1> QED
    BY <1>1, <1>2, <1>3, <1>4 DEF Next

\* In every state only the client whose lock the desktop has was told that it is locked,
\* and a lock that is gone has no outputs (_wlmaker_lock_mgr_handle_new_lock, wlmtk_desktop_lock).
THEOREM Invariance == Spec => []IInv
  BY Initially, StepKeeps, PTL DEF Spec

\* A client was told that it is locked exactly while its lock holds the
\* desktop's, in every reachable state (lock_if_ready, unlock, destroy).
THEOREM OnlyHolderTold == Spec => []OnlyHolderIsToldLocked
  <1>1. IInv => OnlyHolderIsToldLocked
    BY DEF IInv
  <1> QED
    BY <1>1, Invariance, PTL

\* Locking by clients implements the desktop's promise: one holder at a time,
\* which alone unlocks, and the desktop stays locked when the holder dies.
THEOREM LockRefinement == Spec => ImplementsDesktopLock
  <1>1. Init => Promise!Init
    BY DEF Init, Promise!Init
  <1>2. LockStep => [Promise!Next]_Promise!lockVars
    BY DEF LockStep, Promise!Next, Promise!Lock, Promise!Unlock, Promise!Orphan,
           Promise!lockVars
  <1> QED
    BY <1>1, <1>2, StepKeeps, Invariance, PTL
       DEF Spec, ImplementsDesktopLock, Promise!Spec

-----------------------------------------------------------------------------
(* Which outputs a lock has.  The trackers keep the outputs of every lock  *)
(* those of the layout, so a lock whose outputs are all covered by         *)
(* committed surfaces covers the layout.                                   *)

CoverInv ==
    /\ TypeOK
    /\ Unique(layout)
    /\ GoneHasNoOutputs
    /\ OutputsFollowLayout

LEMMA CoverInitially == Init => CoverInv
  <1> SUFFICES ASSUME Init PROVE CoverInv
    OBVIOUS
  <1>1. locks = <<>> /\ Members(<<>>) = {} /\ Unique(<<>>) /\ <<>> \in Seq(Output)
    BY DEF Init, Members, Unique
  <1>2. layout \in Seq(Output) /\ Unique(layout)
    BY LayoutAssumption DEF Init
  <1>3. TypeOK
    <2>1. outputs \in [SessionLocks -> Seq(Output)]
      BY <1>1 DEF Init
    <2>2. surface \in [SessionLocks -> [Output -> SurfaceState]]
      BY DEF Init, SurfaceState
    <2>3. /\ activated \in [SessionLocks -> SUBSET Output]
          /\ locked_sent \in [SessionLocks -> BOOLEAN]
      BY DEF Init
    <2>4. locks \in Seq(SessionLocks)
      BY <1>1
    <2>5. locked \in BOOLEAN /\ lock_element = NULL /\ focus = NULL /\ failed = NULL
      BY DEF Init
    <2> QED BY <1>2, <2>1, <2>2, <2>3, <2>4, <2>5 DEF TypeOK
  <1>4. OutputsFollowLayout
    BY <1>1, <1>2 DEF Init, OutputsFollowLayout
  <1>5. GoneHasNoOutputs
    BY DEF Init, GoneHasNoOutputs
  <1> QED
    BY <1>2, <1>3, <1>4, <1>5 DEF CoverInv

\* A new lock has the outputs of the layout, and no surfaces yet.
LEMMA NewLockCovers ==
    ASSUME CoverInv, NEW l \in SessionLocks, NewLock(l)
    PROVE  CoverInv'
  <1>1. /\ locks \in Seq(SessionLocks) /\ Unique(locks) /\ l \notin Members(locks)
        /\ locks' = PushBack(locks, l)
        /\ outputs' = [outputs EXCEPT ![l] = layout]
        /\ failed = NULL
        /\ UNCHANGED <<layout, surface, activated, locked_sent, locked,
                       lock_element, focus, failed>>
    BY DEF CoverInv, TypeOK, OutputsFollowLayout, NewLock, Alive, desktopVars
  <1>2. /\ locks' \in Seq(SessionLocks)
        /\ Members(locks') = Members(locks) \cup {l}
        /\ Unique(locks')
    BY <1>1, PushBackMembers
  <1>3. outputs[l] = <<>> /\ Members(<<>>) = {}
    BY <1>1 DEF CoverInv, GoneHasNoOutputs, Alive, Members
  <1>4. TypeOK'
    BY <1>1, <1>2 DEF CoverInv, TypeOK
  <1>5. /\ outputs \in [SessionLocks -> Seq(Output)]
        /\ outputs'[l] = layout
        /\ \A m \in SessionLocks \ {l} : outputs'[m] = outputs[m]
    BY <1>1 DEF CoverInv, TypeOK
  <1>6. GoneHasNoOutputs'
    BY <1>2, <1>5 DEF CoverInv, GoneHasNoOutputs, Alive
  <1>7. OutputsFollowLayout'
    BY <1>1, <1>2, <1>3, <1>5 DEF CoverInv, OutputsFollowLayout
  <1>8. Unique(layout')
    BY <1>1 DEF CoverInv
  <1> QED
    BY <1>4, <1>6, <1>7, <1>8 DEF CoverInv

\* A step of one surface, from the client or the desktop, leaves the outputs
\* alone; the surfaces flagged activated are committed ones.
LEMMA SurfaceStepCovers ==
    ASSUME CoverInv, NEW l \in SessionLocks, NEW o \in Output,
           NEW s \in SurfaceState, TypeOK',
           UNCHANGED <<layout, locks, outputs, failed>>,
           surface' = [surface EXCEPT ![l][o] = s],
           s # "none" => o \in Members(outputs[l]),
           \A m \in SessionLocks : activated'[m] \subseteq
               {p \in Output : IsCommitted(surface'[m], p)}
    PROVE  CoverInv'
  <1>1. surface \in [SessionLocks -> [Output -> SurfaceState]]
    BY DEF CoverInv, TypeOK
  <1>2. \A m \in SessionLocks : \A p \in Output :
            surface'[m][p] # "none" => p \in Members(outputs'[m])
    BY <1>1 DEF CoverInv, OutputsFollowLayout
  <1>3. OutputsFollowLayout'
    BY <1>2 DEF CoverInv, OutputsFollowLayout
  <1> QED
    BY <1>3 DEF CoverInv, GoneHasNoOutputs, Alive

\* The first committed surface is one of a committed output.
LEMMA FirstIsCommitted ==
    ASSUME NEW os \in Seq(Output), NEW s
    PROVE  \/ FirstCommitted(os, s) = NULL /\ \A o \in Members(os) : ~IsCommitted(s, o)
           \/ FirstCommitted(os, s) \in Members(os) /\ IsCommitted(s, FirstCommitted(os, s))
  <1> DEFINE at == {i \in DOMAIN os : IsCommitted(s, os[i])}
  <1>1. CASE at = {}
    BY <1>1 DEF FirstCommitted, Members
  <1>2. CASE at # {}
    <2>1. at \subseteq Nat
      OBVIOUS
    <2>2. \E i \in at : \A j \in at : i <= j
      <3> HIDE DEF at
      <3> QED BY <1>2, <2>1, LeastElement
    <2> DEFINE first == CHOOSE i \in at : \A j \in at : i <= j
    <2>3. first \in at
      <3> HIDE DEF at
      <3> QED BY <2>2
    <2>4. FirstCommitted(os, s) = os[first]
      BY <1>2 DEF FirstCommitted
    <2> HIDE DEF first
    <2> QED BY <2>3, <2>4 DEF Members
  <1> QED BY <1>1, <1>2

LEMMA NewSurfaceCovers ==
    ASSUME CoverInv, NEW l \in SessionLocks, NEW o \in Output,
           NewSurface(l, o) \/ Acknowledge(l, o)
    PROVE  CoverInv'
  <1>1. PICK s \in {"configured", "acked"} :
            /\ surface' = [surface EXCEPT ![l][o] = s]
            /\ surface[l][o] \in {"none", "configured"}
            /\ surface[l][o] = "none" => o \in Members(outputs[l])
    BY DEF NewSurface, Acknowledge
  <1>2. UNCHANGED <<layout, locks, outputs, activated, locked_sent, locked,
                    lock_element, focus, failed>>
    BY DEF NewSurface, Acknowledge, desktopVars
  <1>3. surface \in [SessionLocks -> [Output -> SurfaceState]] /\ s \in SurfaceState
    BY DEF CoverInv, TypeOK, SurfaceState
  <1>4. surface' \in [SessionLocks -> [Output -> SurfaceState]]
    BY <1>1, <1>3
  <1>5. TypeOK'
    BY <1>2, <1>4 DEF CoverInv, TypeOK
  <1>6. o \in Members(outputs[l])
    BY <1>1 DEF CoverInv, OutputsFollowLayout
  <1>7. \A m \in SessionLocks : activated[m] \subseteq
            {p \in Output : IsCommitted(surface[m], p)}
    BY DEF CoverInv, OutputsFollowLayout
  <1>8. \A m \in SessionLocks : \A p \in Output :
            IsCommitted(surface[m], p) => IsCommitted(surface'[m], p)
    BY <1>1, <1>3 DEF IsCommitted
  <1> QED
    BY <1>1, <1>2, <1>3, <1>5, <1>6, <1>7, <1>8, SurfaceStepCovers

\* A commit that locks finds the layout covered by surfaces of l, of which only
\* the one that commits now was not committed before.
LEMMA CommitCovers ==
    ASSUME CoverInv, NEW l \in SessionLocks, NEW o \in Output, Commit(l, o)
    PROVE  /\ CoverInv'
           /\ \/ UNCHANGED locked_sent
              \/ /\ ~locked
                 /\ locked_sent' = [locked_sent EXCEPT ![l] = TRUE]
                 /\ layout # <<>>
                 /\ \A p \in Members(layout) :
                        surface[l][p] \in {"acked", "committed", "stale"}
  <1> DEFINE ready == AllCommitted(outputs[l], surface'[l]) /\ ~locked
             first == FirstCommitted(outputs[l], surface'[l])
  <1>1. /\ TypeOK
        /\ failed = NULL
        /\ surface[l][o] \in {"acked", "committed", "stale"}
        /\ surface' = [surface EXCEPT ![l][o] = "committed"]
        /\ UNCHANGED <<layout, locks, outputs, failed>>
    BY DEF CoverInv, Commit
  <1>2. /\ surface \in [SessionLocks -> [Output -> SurfaceState]]
        /\ surface' \in [SessionLocks -> [Output -> SurfaceState]]
        /\ outputs[l] \in Seq(Output)
    BY <1>1 DEF TypeOK, SurfaceState
  <1>3. o \in Members(outputs[l])
    BY <1>1 DEF CoverInv, OutputsFollowLayout
  <1>4. \A m \in SessionLocks : \A p \in Output :
            IsCommitted(surface[m], p) => IsCommitted(surface'[m], p)
    BY <1>1, <1>2 DEF IsCommitted
  <1>5. \A m \in SessionLocks : activated[m] \subseteq
            {p \in Output : IsCommitted(surface'[m], p)}
    BY <1>4 DEF CoverInv, OutputsFollowLayout
  <1>6. CASE ready
    <2>1. /\ locked' = TRUE
          /\ lock_element' = l
          /\ locked_sent' = [locked_sent EXCEPT ![l] = TRUE]
          /\ activated' = [activated EXCEPT ![l] = @ \cup {first}]
          /\ focus' = IF first \in activated[l] THEN focus ELSE <<l, first>>
      BY <1>6 DEF Commit, LockIfReady, Grant
    <2>2. outputs[l] # <<>> /\ \A p \in Members(outputs[l]) : IsCommitted(surface'[l], p)
      BY <1>6 DEF AllCommitted
    <2>3. first \in Output /\ IsCommitted(surface'[l], first)
      BY <1>2, <1>3, <2>2, FirstIsCommitted, MembersType
    <2> HIDE DEF first
    <2>4. TypeOK'
      BY <1>1, <1>2, <2>1, <2>3 DEF TypeOK
    <2>5. \A m \in SessionLocks : activated'[m] \subseteq
              {p \in Output : IsCommitted(surface'[m], p)}
      BY <1>1, <1>5, <2>1, <2>3 DEF TypeOK
    <2>6. CoverInv'
      BY <1>1, <1>3, <2>4, <2>5, SurfaceStepCovers DEF SurfaceState
    <2>7. Members(outputs[l]) = Members(layout)
      BY <1>1, <2>2 DEF CoverInv, GoneHasNoOutputs, OutputsFollowLayout, Alive
    <2>8. layout # <<>>
      <3>1. Members(layout) # {}
        BY <1>3, <2>7, Zenon
      <3> QED BY ONLY <3>1 DEF Members
    <2>9. ASSUME NEW p \in Members(layout)
          PROVE  surface[l][p] \in {"acked", "committed", "stale"}
      <3>1. p \in Output /\ surface'[l][p] \in {"committed", "stale"}
        BY <1>1, <2>2, <2>7, MembersType DEF IsCommitted, TypeOK
      <3>2. p # o => surface'[l][p] = surface[l][p]
        BY <1>1, <1>2, <3>1
      <3> QED BY <1>1, <3>1, <3>2
    <2> QED BY <1>6, <2>1, <2>6, <2>8, <2>9
  <1>7. CASE ~ready
    <2>1. UNCHANGED <<activated, locked_sent, locked, lock_element, focus>>
      BY <1>7 DEF Commit, LockIfReady, desktopVars
    <2>2. TypeOK'
      BY <1>1, <1>2, <2>1 DEF TypeOK
    <2>3. CoverInv'
      BY <1>1, <1>3, <1>5, <2>1, <2>2, SurfaceStepCovers DEF SurfaceState
    <2> QED BY <2>1, <2>3
  <1> QED BY <1>6, <1>7

LEMMA SurfaceDestroyCovers ==
    ASSUME CoverInv, NEW l \in SessionLocks, NEW o \in Output, SurfaceDestroy(l, o)
    PROVE  CoverInv'
  <1>1. /\ TypeOK
        /\ surface' = [surface EXCEPT ![l][o] = "none"]
        /\ activated' = [activated EXCEPT ![l] = @ \ {o}]
        /\ focus' = IF focus = <<l, o>> THEN NULL ELSE focus
        /\ UNCHANGED <<layout, locks, outputs, locked_sent, locked,
                       lock_element, failed>>
    BY DEF CoverInv, SurfaceDestroy, desktopVars
  <1>2. TypeOK'
    BY <1>1 DEF TypeOK, SurfaceState
  <1>3. \A m \in SessionLocks : activated'[m] \subseteq
            {p \in Output : IsCommitted(surface'[m], p)}
    BY <1>1 DEF CoverInv, OutputsFollowLayout, TypeOK, IsCommitted
  <1> QED
    BY <1>1, <1>2, <1>3, SurfaceStepCovers DEF SurfaceState

\* Of a lock that goes nothing is left, and the others keep what they have.
LEMMA DiscardCovers ==
    ASSUME CoverInv, NEW l \in SessionLocks, UnlockAndDestroy(l) \/ Destroy(l)
    PROVE  CoverInv'
  <1>1. /\ TypeOK
        /\ Alive(l)
        /\ Discard(l)
        /\ UNCHANGED <<layout, failed>>
    BY DEF CoverInv, UnlockAndDestroy, Destroy
  <1>2. /\ locks' = Remove(locks, l)
        /\ outputs' = [outputs EXCEPT ![l] = <<>>]
        /\ surface' = [surface EXCEPT ![l] = [o \in Output |-> "none"]]
        /\ activated' = [activated EXCEPT ![l] = {}]
        /\ locked_sent' = [locked_sent EXCEPT ![l] = FALSE]
    BY <1>1 DEF Discard
  <1>3. /\ locks' \in Seq(SessionLocks)
        /\ Unique(locks')
        /\ Members(locks') = Members(locks) \ {l}
    BY <1>1, <1>2, RemoveType, RemoveMembers
       DEF CoverInv, OutputsFollowLayout, TypeOK, Alive
  <1>4. locked' \in BOOLEAN /\ lock_element' \in SessionLocks \cup {NULL}
    BY <1>1 DEF UnlockAndDestroy, Destroy, TypeOK
  <1>5. focus' \in (SessionLocks \X Output) \cup {NULL}
    BY <1>1 DEF UnlockAndDestroy, Destroy, TypeOK
  <1>6. TypeOK'
    <2>1. /\ outputs' \in [SessionLocks -> Seq(Output)]
          /\ surface' \in [SessionLocks -> [Output -> SurfaceState]]
          /\ activated' \in [SessionLocks -> SUBSET Output]
          /\ locked_sent' \in [SessionLocks -> BOOLEAN]
      BY <1>1, <1>2 DEF TypeOK, SurfaceState
    <2> QED BY <1>1, <1>3, <1>4, <1>5, <2>1 DEF TypeOK
  <1>7. /\ outputs'[l] = <<>>
        /\ \A o \in Output : surface'[l][o] = "none"
        /\ activated'[l] = {}
        /\ \A m \in SessionLocks \ {l} : /\ outputs'[m] = outputs[m]
                                         /\ surface'[m] = surface[m]
                                         /\ activated'[m] = activated[m]
    BY <1>1, <1>2 DEF TypeOK
  <1>8. GoneHasNoOutputs'
    BY <1>3, <1>7 DEF CoverInv, GoneHasNoOutputs, Alive
  <1>9. OutputsFollowLayout'
    <2>1. \A m \in Members(locks') : m \in SessionLocks \ {l} /\ m \in Members(locks)
      BY <1>1, <1>3, MembersType DEF TypeOK
    <2>2. failed' = NULL => \A m \in Members(locks') :
              Unique(outputs'[m]) /\ Members(outputs'[m]) = Members(layout')
      BY <1>1, <1>7, <2>1 DEF CoverInv, OutputsFollowLayout
    <2>3. \A m \in SessionLocks : \A o \in Output :
              surface'[m][o] # "none" => o \in Members(outputs'[m])
      BY <1>7 DEF CoverInv, OutputsFollowLayout
    <2>4. \A m \in SessionLocks : activated'[m] \subseteq
              {o \in Output : IsCommitted(surface'[m], o)}
      BY <1>7 DEF CoverInv, OutputsFollowLayout, IsCommitted
    <2> QED BY <1>3, <2>2, <2>3, <2>4 DEF OutputsFollowLayout
  <1> QED
    BY <1>1, <1>6, <1>8, <1>9 DEF CoverInv

\* The tracker leaves every lock the outputs of the new layout, once each.
LEMMA TrackedOutputs ==
    ASSUME NEW l \in SessionLocks, NEW new \in Seq(Output), Unique(new),
           outputs[l] \in Seq(Output), Unique(outputs[l])
    PROVE  /\ Tracked(l, new) \in Seq(Output)
           /\ Members(Tracked(l, new)) = Members(new)
           /\ Unique(Tracked(l, new))
  <1> DEFINE stay == Among(outputs[l], Members(new))
             come == Among(new, Members(new) \ Members(outputs[l]))
  <1>1. stay \in Seq(Output) /\ IsAmong(stay, outputs[l], Members(new))
    BY AmongMembers
  <1>2. come \in Seq(Output) /\ IsAmong(come, new, Members(new) \ Members(outputs[l]))
    BY AmongMembers
  <1>3. /\ Unique(stay) /\ Members(stay) = Members(outputs[l]) \cap Members(new)
        /\ Unique(come) /\ Members(come) = Members(new) \ Members(outputs[l])
    BY <1>1, <1>2 DEF IsAmong
  <1>4. Tracked(l, new) = stay \o come
    BY DEF Tracked
  <1> HIDE DEF stay, come
  <1>5. Members(stay) \cap Members(come) = {}
    BY <1>3
  <1>6. /\ stay \o come \in Seq(Output)
        /\ Members(stay \o come) = Members(stay) \cup Members(come)
        /\ Unique(stay \o come)
    BY <1>1, <1>2, <1>3, <1>5, ConcatMembers
  <1> QED BY <1>3, <1>4, <1>6

\* Only surfaces that stay are activated, and only one of each lock newly.
LEMMA NewlyActivatedIsCommitted ==
    ASSUME NEW l \in SessionLocks, NEW new \in Seq(Output),
           Tracked(l, new) \in Seq(Output)
    PROVE  NewlyActivated(l, new) \subseteq
               {o \in Output : IsCommitted(Reconfigured(l, new), o)}
  <1> DEFINE first == FirstCommitted(Tracked(l, new), Reconfigured(l, new))
  <1>1. NewlyActivated(l, new) \subseteq {first} \ {NULL}
    BY DEF NewlyActivated
  <1>2. \/ first = NULL
        \/ first \in Output /\ IsCommitted(Reconfigured(l, new), first)
    BY FirstIsCommitted, MembersType
  <1> HIDE DEF first
  <1>3. ASSUME NEW o \in NewlyActivated(l, new)
        PROVE  o \in Output /\ IsCommitted(Reconfigured(l, new), o)
    <2>1. o = first /\ first # NULL
      BY <1>1
    <2> QED BY <1>2, <2>1
  <1> QED BY <1>3

LEMMA FocusAfterType ==
    ASSUME TypeOK, NEW new,
           \A l \in SessionLocks : NewlyActivated(l, new) \subseteq Output
    PROVE  FocusAfter(new) \in (SessionLocks \X Output) \cup {NULL}
  <1> DEFINE at == {i \in DOMAIN locks : NewlyActivated(locks[i], new) # {}}
  <1>1. CASE at = {}
    BY <1>1 DEF FocusAfter, TypeOK
  <1>2. CASE at # {}
    <2> DEFINE last == CHOOSE i \in at : \A j \in at : j <= i
               l == locks[last]
               o == CHOOSE o \in NewlyActivated(l, new) : TRUE
    <2>1. at \subseteq 0..Len(locks) /\ Len(locks) \in Nat
      BY DEF TypeOK
    <2>2. \E i \in at : \A j \in at : j <= i
      <3> HIDE DEF at
      <3> QED BY <1>2, <2>1, GreatestElement
    <2>3. last \in at
      <3> HIDE DEF at
      <3> QED BY <2>2
    <2>4. FocusAfter(new) = <<l, o>>
      BY <1>2 DEF FocusAfter
    <2>5. l \in SessionLocks /\ NewlyActivated(l, new) # {}
      <3> HIDE DEF last
      <3> QED BY <2>3 DEF TypeOK
    <2> HIDE DEF l
    <2>6. o \in NewlyActivated(l, new)
      BY <2>5
    <2>7. o \in Output
      BY <2>5, <2>6
    <2> HIDE DEF o
    <2> QED BY <2>4, <2>5, <2>7
  <1> QED BY <1>1, <1>2

\* Surfaces stay only on outputs of the new layout, and with their commits.
LEMMA ReconfiguredSurfaces ==
    ASSUME CoverInv, NEW l \in SessionLocks, NEW new
    PROVE  /\ Reconfigured(l, new) \in [Output -> SurfaceState]
           /\ \A o \in Output : Reconfigured(l, new)[o] # "none" =>
                  surface[l][o] # "none" /\ o \in Members(new)
           /\ \A o \in Output : IsCommitted(surface[l], o) /\ o \in Members(new) =>
                  IsCommitted(Reconfigured(l, new), o)
  <1>1. surface[l] \in [Output -> SurfaceState]
    BY DEF CoverInv, TypeOK
  <1>2. ASSUME NEW o \in Output
        PROVE  Reconfigured(l, new)[o] =
                   CASE o \notin Members(new) -> "none"
                     [] o \in Members(new) /\ surface[l][o] = "committed" -> "stale"
                     [] OTHER -> surface[l][o]
    BY DEF Reconfigured
  <1>3. ASSUME NEW o \in Output
        PROVE  Reconfigured(l, new)[o] =
                   IF o \notin Members(new) THEN "none"
                   ELSE IF surface[l][o] = "committed" THEN "stale" ELSE surface[l][o]
    BY <1>2
  <1>4. Reconfigured(l, new) = [o \in Output |-> Reconfigured(l, new)[o]]
    BY DEF Reconfigured
  <1>5. Reconfigured(l, new) \in [Output -> SurfaceState]
    <2>1. \A o \in Output : Reconfigured(l, new)[o] \in SurfaceState
      BY <1>1, <1>3 DEF SurfaceState
    <2> QED BY <1>4, <2>1
  <1> QED BY <1>3, <1>5 DEF IsCommitted

LEMMA LayoutChangeCovers ==
    ASSUME CoverInv, NEW new \in Seq(Output), Unique(new), LayoutChange(new)
    PROVE  CoverInv'
  <1>1. /\ TypeOK
        /\ failed = NULL
        /\ layout' = new
        /\ UNCHANGED <<locked_sent, locked, lock_element>>
    BY DEF CoverInv, LayoutChange, desktopVars
  <1>2. CASE UpdatesMissingSurface(new)
    <2>1. /\ failed' = "output_update"
          /\ UNCHANGED <<locks, outputs, surface, activated, focus>>
      BY <1>2 DEF LayoutChange, lockVars
    <2>2. TypeOK'
      BY <1>1, <2>1 DEF TypeOK
    <2>3. GoneHasNoOutputs'
      BY <2>1 DEF CoverInv, GoneHasNoOutputs, Alive
    <2>4. failed' # NULL
      BY <2>1, NullIsNoFailure
    <2>5. OutputsFollowLayout'
      BY <2>1, <2>4 DEF CoverInv, OutputsFollowLayout
    <2> QED BY <1>1, <2>2, <2>3, <2>5 DEF CoverInv
  <1>3. CASE ~UpdatesMissingSurface(new)
    <2>1. /\ outputs' = [l \in SessionLocks |->
                            IF Alive(l) THEN Tracked(l, new) ELSE <<>>]
          /\ surface' = [l \in SessionLocks |-> Reconfigured(l, new)]
          /\ activated' = [l \in SessionLocks |->
                 (activated[l] \cap Members(new)) \cup NewlyActivated(l, new)]
          /\ focus' = FocusAfter(new)
          /\ UNCHANGED <<locks, failed>>
      BY <1>3 DEF LayoutChange
    <2>2. ASSUME NEW l \in SessionLocks, Alive(l)
          PROVE  /\ Tracked(l, new) \in Seq(Output)
                 /\ Members(Tracked(l, new)) = Members(new)
                 /\ Unique(Tracked(l, new))
      <3>1. outputs[l] \in Seq(Output) /\ Unique(outputs[l])
        BY <1>1, <2>2 DEF CoverInv, TypeOK, OutputsFollowLayout, Alive
      <3> QED BY <3>1, TrackedOutputs
    <2>3. ASSUME NEW l \in SessionLocks, ~Alive(l)
          PROVE  /\ NewlyActivated(l, new) = {}
                 /\ \A o \in Output : surface[l][o] = "none"
      <3>1. outputs[l] = <<>> /\ Members(<<>>) = {}
        BY <2>3 DEF CoverInv, GoneHasNoOutputs, Members
      <3> QED BY <3>1 DEF NewlyActivated, CoverInv, OutputsFollowLayout
    <2>4. \A l \in SessionLocks : NewlyActivated(l, new) \subseteq
              {o \in Output : IsCommitted(Reconfigured(l, new), o)}
      BY <2>2, <2>3, NewlyActivatedIsCommitted
    <2>5. \A l \in SessionLocks : activated[l] \cap Members(new) \subseteq
              {o \in Output : IsCommitted(Reconfigured(l, new), o)}
      BY ReconfiguredSurfaces DEF CoverInv, OutputsFollowLayout
    <2>6. \A l \in SessionLocks :
              Reconfigured(l, new) \in [Output -> SurfaceState]
      BY ReconfiguredSurfaces
    <2>7. TypeOK'
      <3>1. focus' \in (SessionLocks \X Output) \cup {NULL}
        BY <1>1, <2>1, <2>4, FocusAfterType
      <3>2. outputs' \in [SessionLocks -> Seq(Output)]
        BY <2>1, <2>2
      <3>3. surface' \in [SessionLocks -> [Output -> SurfaceState]]
        BY <2>1, <2>6
      <3>4. activated' \in [SessionLocks -> SUBSET Output]
        BY <1>1, <2>1, <2>4 DEF TypeOK
      <3> QED BY <1>1, <2>1, <3>1, <3>2, <3>3, <3>4 DEF TypeOK
    <2>8. GoneHasNoOutputs'
      BY <2>1 DEF GoneHasNoOutputs, Alive
    <2>9. OutputsFollowLayout'
      <3>1. \A l \in Members(locks') : l \in SessionLocks /\ Alive(l)
        BY <1>1, <2>1, MembersType DEF TypeOK, Alive
      <3>2. \A l \in Members(locks') :
                Unique(outputs'[l]) /\ Members(outputs'[l]) = Members(layout')
        BY <1>1, <2>1, <2>2, <3>1
      <3>3. ASSUME NEW l \in SessionLocks, NEW o \in Output, surface'[l][o] # "none"
            PROVE  o \in Members(outputs'[l])
        <4>1. surface[l][o] # "none" /\ o \in Members(new)
          BY <2>1, <3>3, ReconfiguredSurfaces
        <4> QED BY <2>1, <2>2, <2>3, <4>1
      <3>4. \A l \in SessionLocks : activated'[l] \subseteq
                {o \in Output : IsCommitted(surface'[l], o)}
        BY <2>1, <2>4, <2>5
      <3>5. Unique(locks')
        BY <2>1 DEF CoverInv, OutputsFollowLayout
      <3> QED BY <3>2, <3>3, <3>4, <3>5 DEF OutputsFollowLayout
    <2> QED BY <1>1, <2>7, <2>8, <2>9 DEF CoverInv
  <1> QED BY <1>2, <1>3

LEMMA OutputStepCovers ==
    ASSUME CoverInv,
           OutputMoved \/ \E o \in Output : OutputAdded(o) \/ OutputRemoved(o)
    PROVE  CoverInv'
  <1>1. layout \in Seq(Output) /\ Unique(layout)
    BY DEF CoverInv, TypeOK
  <1>2. ASSUME NEW o \in Output, OutputAdded(o) PROVE CoverInv'
    <2>1. /\ o \notin Members(layout)
          /\ LayoutChange(PushBack(layout, o))
      BY <1>2 DEF OutputAdded
    <2>2. PushBack(layout, o) \in Seq(Output) /\ Unique(PushBack(layout, o))
      BY <1>1, <2>1, PushBackMembers
    <2> QED BY <2>1, <2>2, LayoutChangeCovers
  <1>3. ASSUME NEW o \in Output, OutputRemoved(o) PROVE CoverInv'
    <2>1. o \in Members(layout) /\ LayoutChange(Remove(layout, o))
      BY <1>3 DEF OutputRemoved
    <2>2. Remove(layout, o) \in Seq(Output) /\ Unique(Remove(layout, o))
      BY <1>1, <2>1, RemoveType, RemoveMembers
    <2> QED BY <2>1, <2>2, LayoutChangeCovers
  <1>4. CASE OutputMoved
    BY <1>1, <1>4, LayoutChangeCovers DEF OutputMoved
  <1> QED BY <1>2, <1>3, <1>4

-----------------------------------------------------------------------------
(* Every step, with what it tells the clients.                             *)

\* What a step may tell the client of l.
ToldOnlyWhenCovered(l) ==
    ~locked_sent[l] /\ locked_sent'[l] =>
        /\ ~locked
        /\ layout # <<>>
        /\ \A o \in Members(layout) :
               surface[l][o] \in {"acked", "committed", "stale"}

LEMMA CoverStep ==
    ASSUME CoverInv, [Next]_vars
    PROVE  CoverInv' /\ \A l \in SessionLocks : ToldOnlyWhenCovered(l)
  <1>1. locked_sent \in [SessionLocks -> BOOLEAN]
    BY DEF CoverInv, TypeOK
  <1>2. ASSUME UNCHANGED locked_sent
        PROVE  \A l \in SessionLocks : ToldOnlyWhenCovered(l)
    BY <1>2 DEF ToldOnlyWhenCovered
  <1>3. ASSUME NEW l \in SessionLocks, NewLock(l)
        PROVE  CoverInv' /\ UNCHANGED locked_sent
    BY <1>3, NewLockCovers DEF NewLock, desktopVars
  <1>4. ASSUME NEW l \in SessionLocks, UnlockAndDestroy(l) \/ Destroy(l)
        PROVE  CoverInv' /\ \A m \in SessionLocks : ToldOnlyWhenCovered(m)
    <2>1. locked_sent' = [locked_sent EXCEPT ![l] = FALSE]
      BY <1>4 DEF UnlockAndDestroy, Destroy, Discard
    <2>2. \A m \in SessionLocks : ToldOnlyWhenCovered(m)
      BY <1>1, <2>1 DEF ToldOnlyWhenCovered
    <2> QED BY <1>4, <2>2, DiscardCovers
  <1>5. ASSUME NEW l \in SessionLocks, NEW o \in Output,
               NewSurface(l, o) \/ Acknowledge(l, o) \/ SurfaceDestroy(l, o)
        PROVE  CoverInv' /\ UNCHANGED locked_sent
    BY <1>5, NewSurfaceCovers, SurfaceDestroyCovers
       DEF NewSurface, Acknowledge, SurfaceDestroy, desktopVars
  <1>6. ASSUME NEW l \in SessionLocks, NEW o \in Output, Commit(l, o)
        PROVE  CoverInv' /\ \A m \in SessionLocks : ToldOnlyWhenCovered(m)
    <2>1. CASE UNCHANGED locked_sent
      BY <1>2, <1>6, <2>1, CommitCovers
    <2>2. CASE /\ ~locked
               /\ locked_sent' = [locked_sent EXCEPT ![l] = TRUE]
               /\ layout # <<>>
               /\ \A p \in Members(layout) :
                      surface[l][p] \in {"acked", "committed", "stale"}
      BY <1>1, <1>6, <2>2, CommitCovers DEF ToldOnlyWhenCovered
    <2> QED BY <1>6, <2>1, <2>2, CommitCovers
  <1>7. ASSUME OutputMoved \/ \E o \in Output : OutputAdded(o) \/ OutputRemoved(o)
        PROVE  CoverInv' /\ UNCHANGED locked_sent
    BY <1>7, OutputStepCovers
       DEF OutputMoved, OutputAdded, OutputRemoved, LayoutChange, desktopVars
  <1>8. CASE WindowActivated \/ UNCHANGED vars
    <2>1. UNCHANGED <<layout, locks, outputs, surface, activated, locked_sent,
                      locked, lock_element, failed>>
      BY <1>8 DEF WindowActivated, vars, lockVars, desktopVars
    <2>2. focus' \in {focus, NULL}
      BY <1>8 DEF WindowActivated, vars
    <2>3. TypeOK'
      BY <2>1, <2>2 DEF CoverInv, TypeOK
    <2>4. CoverInv'
      BY <2>1, <2>3 DEF CoverInv, GoneHasNoOutputs, OutputsFollowLayout, Alive
    <2> QED BY <1>2, <2>1, <2>4
  <1> QED
    BY <1>2, <1>3, <1>4, <1>5, <1>6, <1>7, <1>8 DEF Next, ClientStep

\* In every state the variables have their types, and the outputs of each lock that is
\* there are those of the layout (wlmtk_output_tracker).
THEOREM CoverInvariance == Spec => []CoverInv
  BY CoverInitially, CoverStep, PTL DEF Spec

\* Every lock has the outputs of the layout and surfaces only there, whatever
\* happened to the layout (the tracker's create, update and destroy callbacks).
THEOREM LocksFollowLayout == Spec => []OutputsFollowLayout
  <1>1. CoverInv => OutputsFollowLayout
    BY DEF CoverInv
  <1> QED
    BY <1>1, CoverInvariance, PTL

\* A client is told that it is locked only when its surfaces cover every output
\* of the layout (_wlmaker_lock_if_ready, the commit handler).
THEOREM ToldWhenCovered == Spec => LockedOnlyWhenCovered
  <1>1. (\A l \in SessionLocks : ToldOnlyWhenCovered(l)) =>
            [\A l \in SessionLocks : ~locked_sent[l] /\ locked_sent'[l] =>
                /\ ~locked
                /\ layout # <<>>
                /\ \A o \in Members(layout) :
                       surface[l][o] \in {"acked", "committed", "stale"}]_vars
    BY DEF ToldOnlyWhenCovered
  <1> QED
    BY <1>1, CoverInvariance, CoverStep, PTL DEF Spec, LockedOnlyWhenCovered
=============================================================================
