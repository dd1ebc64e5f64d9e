-------------------------- MODULE SubprocessProofs --------------------------
(***************************************************************************)
(* No process is forgotten and no callback goes astray, for any number of  *)
(* handles, launchers and generators.  The walk is the heart of it: what   *)
(* it reads as the next handle is the one right behind, so a handle that   *)
(* was not walked yet stays in front of it, while handles are freed and    *)
(* linked.                                                                 *)
(***************************************************************************)
EXTENDS SubprocessMonitor, ListsProofs

IInv == TypeOK /\ OwnersAndHandlesAgree /\ NoneForgotten

LEMMA Initially == Init => IInv
  <1> SUFFICES ASSUME Init PROVE IInv
    OBVIOUS
  <1>1. subprocesses \in Seq(Handle) /\ Unique(subprocesses) /\ Members(subprocesses) = {}
    BY DEF Init, Members, Unique
  <1>2. TypeOK
    BY <1>1 DEF Init, TypeOK, Owner
  <1>3. OwnersAndHandlesAgree
    BY <1>1, OwnersAssumption DEF Init, OwnersAndHandlesAgree, Owner
  <1>4. NoneForgotten
    BY DEF Init, NoneForgotten
  <1> QED
    BY <1>2, <1>3, <1>4 DEF IInv

\* A process that has ended is still on the list.
LEMMA EndedIsListed ==
    ASSUME IInv, NEW h \in Handle, child[h] # "none"
    PROVE  h \in Members(subprocesses)
  BY DEF IInv, OwnersAndHandlesAgree

\* What wlm_util_subprocess_monitor_entrust does to list and types.
LEMMA EntrustKeepsList ==
    ASSUME IInv, NEW h \in Handle, NEW o \in Owner \cup {NULL}, Entrust(h, o)
    PROVE  /\ subprocesses' \in Seq(Handle) /\ Unique(subprocesses')
           /\ Members(subprocesses') = Members(subprocesses) \cup {h}
           /\ child' \in [Handle -> {"none", "running", "terminated"}]
           /\ callback' \in [Handle -> Owner \cup {NULL}]
           /\ \A x \in Handle :
                  /\ child'[x] = IF x = h THEN "running" ELSE child[x]
                  /\ callback'[x] = IF x = h THEN o ELSE callback[x]
           /\ h \notin Members(subprocesses) /\ child[h] = "none" /\ callback[h] = NULL
  <1>1. /\ subprocesses \in Seq(Handle) /\ Unique(subprocesses)
        /\ child \in [Handle -> {"none", "running", "terminated"}]
        /\ callback \in [Handle -> Owner \cup {NULL}]
        /\ child[h] = "none" /\ h \notin Members(subprocesses) /\ callback[h] = NULL
    BY DEF IInv, TypeOK, OwnersAndHandlesAgree, Entrust
  <1>2. /\ subprocesses' \in Seq(Handle) /\ Unique(subprocesses')
        /\ Members(subprocesses') = Members(subprocesses) \cup {h}
    BY <1>1, PushBackMembers DEF Entrust
  <1> QED
    BY <1>1, <1>2 DEF Entrust

\* Outside of a walk, only what happens to ended processes and SIGCHLD matters.
LEMMA NoneForgottenIdle ==
    ASSUME IInv, Idle, UNCHANGED <<sigchld, cursor>>,
           \A h \in Handle : child'[h] = "terminated" => child[h] = "terminated"
    PROVE  NoneForgotten'
  BY DEF IInv, NoneForgotten, Idle

LEMMA StartKeeps ==
    ASSUME IInv, NEW l \in Launcher, NEW h \in Handle, Start(l, h)
    PROVE  IInv'
  <1>1. /\ subprocesses' \in Seq(Handle) /\ Unique(subprocesses')
        /\ Members(subprocesses') = Members(subprocesses) \cup {h}
        /\ child' \in [Handle -> {"none", "running", "terminated"}]
        /\ callback' \in [Handle -> Owner \cup {NULL}]
        /\ \A x \in Handle :
               /\ child'[x] = IF x = h THEN "running" ELSE child[x]
               /\ callback'[x] = IF x = h THEN l ELSE callback[x]
        /\ h \notin Members(subprocesses) /\ child[h] = "none" /\ callback[h] = NULL
    BY EntrustKeepsList DEF Start, Owner
  <1>2. TypeOK'
    BY <1>1 DEF IInv, TypeOK, Start
  <1>3. OwnersAndHandlesAgree'
    <2>1. \A x \in Handle : callback'[x] # NULL => callback'[x] \in alive'
      BY <1>1 DEF IInv, OwnersAndHandlesAgree, Start
    <2>2. \A m \in Launcher, x \in Handle : x \in launched'[m] <=> callback'[x] = m
      <3> SUFFICES ASSUME NEW m \in Launcher, NEW x \in Handle
                   PROVE  x \in launched'[m] <=> callback'[x] = m
        OBVIOUS
      <3>1. x \in launched[m] <=> callback[x] = m
        BY DEF IInv, OwnersAndHandlesAgree
      <3>2. launched'[m] = IF m = l THEN launched[l] \cup {h} ELSE launched[m]
        BY DEF IInv, TypeOK, Start
      <3>3. NULL \notin Launcher
        BY OwnersAssumption DEF Owner
      <3> QED BY <1>1, <3>1, <3>2, <3>3
    <2>3. \A g \in Generator, x \in Handle : x = generator'[g] <=> callback'[x] = g
      BY <1>1, OwnersAssumption DEF IInv, OwnersAndHandlesAgree, Start, Owner
    <2>4. \A x \in Handle : /\ x \in Members(subprocesses') <=> child'[x] # "none"
                            /\ child'[x] = "none" => callback'[x] = NULL
      BY <1>1 DEF IInv, OwnersAndHandlesAgree
    <2>5. cursor' = NULL
      BY DEF Start, Idle
    <2> QED
      BY <2>1, <2>2, <2>3, <2>4, <2>5 DEF OwnersAndHandlesAgree
  <1>4. NoneForgotten'
    BY <1>1, NoneForgottenIdle DEF Start
  <1> QED
    BY <1>2, <1>3, <1>4 DEF IInv

LEMMA RunKeeps ==
    ASSUME IInv, NEW h \in Handle, Run(h)
    PROVE  IInv'
  <1>1. /\ subprocesses' \in Seq(Handle) /\ Unique(subprocesses')
        /\ Members(subprocesses') = Members(subprocesses) \cup {h}
        /\ child' \in [Handle -> {"none", "running", "terminated"}]
        /\ callback' \in [Handle -> Owner \cup {NULL}]
        /\ \A x \in Handle :
               /\ child'[x] = IF x = h THEN "running" ELSE child[x]
               /\ callback'[x] = IF x = h THEN NULL ELSE callback[x]
        /\ h \notin Members(subprocesses) /\ child[h] = "none" /\ callback[h] = NULL
    BY EntrustKeepsList DEF Run
  <1>2. UNCHANGED <<sigchld, cursor, launched, generator, alive>> /\ cursor' = NULL
    BY DEF Run, ownerVars, Idle
  <1>3. TypeOK'
    BY <1>1, <1>2 DEF IInv, TypeOK
  <1>4. OwnersAndHandlesAgree'
    <2>1. \A x \in Handle : callback'[x] = callback[x]
      BY <1>1
    <2> QED
      BY <1>1, <1>2, <2>1 DEF IInv, OwnersAndHandlesAgree
  <1>5. NoneForgotten'
    BY <1>1, <1>2, NoneForgottenIdle DEF Run
  <1> QED
    BY <1>3, <1>4, <1>5 DEF IInv

LEMMA GenerateKeeps ==
    ASSUME IInv, NEW g \in Generator, NEW h \in Handle, Generate(g, h)
    PROVE  IInv'
  <1>1. /\ subprocesses' \in Seq(Handle) /\ Unique(subprocesses')
        /\ Members(subprocesses') = Members(subprocesses) \cup {h}
        /\ child' \in [Handle -> {"none", "running", "terminated"}]
        /\ callback' \in [Handle -> Owner \cup {NULL}]
        /\ \A x \in Handle :
               /\ child'[x] = IF x = h THEN "running" ELSE child[x]
               /\ callback'[x] = IF x = h THEN g ELSE callback[x]
        /\ h \notin Members(subprocesses) /\ child[h] = "none" /\ callback[h] = NULL
    BY EntrustKeepsList DEF Generate, Owner
  <1>2. TypeOK'
    BY <1>1 DEF IInv, TypeOK, Generate, Owner
  <1>3. OwnersAndHandlesAgree'
    <2>1. \A x \in Handle : callback'[x] # NULL => callback'[x] \in alive'
      BY <1>1 DEF IInv, OwnersAndHandlesAgree, Generate
    <2>2. \A m \in Launcher, x \in Handle : x \in launched'[m] <=> callback'[x] = m
      BY <1>1, OwnersAssumption DEF IInv, OwnersAndHandlesAgree, Generate, Owner
    <2>3. \A k \in Generator, x \in Handle : x = generator'[k] <=> callback'[x] = k
      <3> SUFFICES ASSUME NEW k \in Generator, NEW x \in Handle
                   PROVE  x = generator'[k] <=> callback'[x] = k
        OBVIOUS
      <3>1. x = generator[k] <=> callback[x] = k
        BY DEF IInv, OwnersAndHandlesAgree
      <3>2. generator'[k] = IF k = g THEN h ELSE generator[k]
        BY DEF IInv, TypeOK, Generate
      <3>3. NULL \notin Generator /\ callback[x] # g
        BY OwnersAssumption DEF IInv, OwnersAndHandlesAgree, Generate, Owner
      <3> QED BY <1>1, <3>1, <3>2, <3>3
    <2>4. \A x \in Handle : /\ x \in Members(subprocesses') <=> child'[x] # "none"
                            /\ child'[x] = "none" => callback'[x] = NULL
      BY <1>1 DEF IInv, OwnersAndHandlesAgree
    <2>5. cursor' = NULL
      BY DEF Generate, Idle
    <2> QED
      BY <2>1, <2>2, <2>3, <2>4, <2>5 DEF OwnersAndHandlesAgree
  <1>4. NoneForgotten'
    BY <1>1, NoneForgottenIdle DEF Generate
  <1> QED
    BY <1>2, <1>3, <1>4 DEF IInv

LEMMA DestroyLauncherKeeps ==
    ASSUME IInv, NEW l \in Launcher, DestroyLauncher(l)
    PROVE  IInv'
  <1>1. \A x \in Handle : callback'[x] = IF callback[x] = l THEN NULL ELSE callback[x]
    BY DEF IInv, OwnersAndHandlesAgree, DestroyLauncher, Cede
  <1>2. callback' \in [Handle -> Owner \cup {NULL}]
    BY DEF IInv, TypeOK, DestroyLauncher, Cede
  <1>3. /\ UNCHANGED <<subprocesses, child, sigchld, cursor, generator>>
        /\ alive' = alive \ {l} /\ cursor' = NULL /\ Idle
        /\ \A m \in Launcher : launched'[m] = IF m = l THEN {} ELSE launched[m]
    BY DEF IInv, TypeOK, DestroyLauncher, Idle
  <1>4. TypeOK'
    BY <1>2 DEF IInv, TypeOK, DestroyLauncher
  <1>5. NULL \notin Launcher /\ NULL \notin Generator /\ l \notin Generator
    BY OwnersAssumption DEF Owner
  <1>6. OwnersAndHandlesAgree'
    <2>1. \A x \in Handle : callback'[x] # NULL => callback'[x] \in alive'
      BY <1>1, <1>3 DEF IInv, OwnersAndHandlesAgree
    <2>2. \A m \in Launcher, x \in Handle : x \in launched'[m] <=> callback'[x] = m
      BY <1>1, <1>3, <1>5 DEF IInv, OwnersAndHandlesAgree
    <2>3. \A g \in Generator, x \in Handle : x = generator'[g] <=> callback'[x] = g
      BY <1>1, <1>3, <1>5 DEF IInv, OwnersAndHandlesAgree
    <2> QED
      BY <1>1, <1>3, <2>1, <2>2, <2>3 DEF IInv, OwnersAndHandlesAgree
  <1>7. NoneForgotten'
    BY <1>3, NoneForgottenIdle
  <1> QED
    BY <1>4, <1>6, <1>7 DEF IInv

LEMMA DestroyGeneratorKeeps ==
    ASSUME IInv, NEW g \in Generator, DestroyGenerator(g)
    PROVE  IInv'
  <1>1. \A x \in Handle : callback'[x] = IF callback[x] = g THEN NULL ELSE callback[x]
    BY DEF IInv, OwnersAndHandlesAgree, DestroyGenerator, Cede
  <1>2. callback' \in [Handle -> Owner \cup {NULL}]
    BY DEF IInv, TypeOK, DestroyGenerator, Cede
  <1>3. /\ UNCHANGED <<subprocesses, child, sigchld, cursor, launched>>
        /\ alive' = alive \ {g} /\ cursor' = NULL /\ Idle
        /\ \A k \in Generator : generator'[k] = IF k = g THEN NULL ELSE generator[k]
    BY DEF IInv, TypeOK, DestroyGenerator, Idle
  <1>4. TypeOK'
    BY <1>2 DEF IInv, TypeOK, DestroyGenerator
  <1>5. NULL \notin Launcher \cup Generator /\ g \notin Launcher /\ NULL \notin Handle
    BY OwnersAssumption DEF Owner
  <1>6. OwnersAndHandlesAgree'
    <2>1. \A x \in Handle : callback'[x] # NULL => callback'[x] \in alive'
      BY <1>1, <1>3 DEF IInv, OwnersAndHandlesAgree
    <2>2. \A m \in Launcher, x \in Handle : x \in launched'[m] <=> callback'[x] = m
      BY <1>1, <1>3, <1>5 DEF IInv, OwnersAndHandlesAgree
    <2>3. \A k \in Generator, x \in Handle : x = generator'[k] <=> callback'[x] = k
      BY <1>1, <1>3, <1>5 DEF IInv, OwnersAndHandlesAgree
    <2> QED
      BY <1>1, <1>3, <2>1, <2>2, <2>3 DEF IInv, OwnersAndHandlesAgree
  <1>7. NoneForgotten'
    BY <1>3, NoneForgottenIdle
  <1> QED
    BY <1>4, <1>6, <1>7 DEF IInv

LEMMA TerminateKeeps ==
    ASSUME IInv, NEW h \in Handle, Terminate(h)
    PROVE  IInv'
  <1>1. /\ \A x \in Handle : child'[x] = IF x = h THEN "terminated" ELSE child[x]
        /\ child[h] = "running" /\ sigchld' = TRUE
        /\ UNCHANGED <<subprocesses, callback, cursor, launched, generator, alive>>
    BY DEF IInv, TypeOK, Terminate, ownerVars
  <1>2. TypeOK'
    BY <1>1 DEF IInv, TypeOK, Terminate
  <1>3. OwnersAndHandlesAgree'
    BY <1>1 DEF IInv, OwnersAndHandlesAgree
  <1>4. NoneForgotten'
    BY <1>1 DEF NoneForgotten
  <1> QED
    BY <1>2, <1>3, <1>4 DEF IInv

\* The handler starts its walk at the head, in front of all processes.
LEMMA HandleSigchldKeeps ==
    ASSUME IInv, HandleSigchld
    PROVE  IInv'
  <1>1. UNCHANGED <<subprocesses, child, callback, launched, generator, alive>>
    BY DEF HandleSigchld, ownerVars
  <1>2. subprocesses \in Seq(Handle) /\ Unique(subprocesses)
    BY DEF IInv, TypeOK
  <1>3. CASE subprocesses = <<>>
    <2>1. cursor' = NULL /\ sigchld' = FALSE
      BY <1>3 DEF HandleSigchld
    <2>2. Members(subprocesses) = {}
      BY <1>3 DEF Members
    <2>3. \A h \in Handle : child[h] # "terminated"
      BY <2>2, EndedIsListed
    <2>4. TypeOK' /\ OwnersAndHandlesAgree'
      BY <1>1, <2>1 DEF IInv, TypeOK, OwnersAndHandlesAgree
    <2>5. NoneForgotten'
      BY <1>1, <2>3 DEF NoneForgotten
    <2> QED
      BY <2>4, <2>5 DEF IInv
  <1>4. CASE subprocesses # <<>>
    <2>1. cursor' = subprocesses[1] /\ sigchld' = FALSE /\ 1 \in DOMAIN subprocesses
      BY <1>2, <1>4 DEF HandleSigchld
    <2>2. cursor' \in Members(subprocesses) /\ cursor' \in Handle
      BY <1>2, <2>1 DEF Members
    <2>3. Position(subprocesses, cursor') = 1
      BY <1>2, <2>1, PositionIsUnique
    <2>4. TypeOK' /\ OwnersAndHandlesAgree'
      BY <1>1, <2>1, <2>2 DEF IInv, TypeOK, OwnersAndHandlesAgree
    <2>5. ASSUME NEW h \in Handle, child[h] = "terminated"
          PROVE  cursor' # NULL /\ Position(subprocesses, cursor') <= Position(subprocesses, h)
      <3>1. h \in Members(subprocesses)
        BY <2>5, EndedIsListed
      <3>2. Position(subprocesses, h) \in 1..Len(subprocesses)
        BY <1>2, <3>1, PositionIsThere
      <3> QED
        BY <2>2, <2>3, <3>2, OwnersAssumption
    <2>6. NoneForgotten'
      BY <1>1, <2>5 DEF NoneForgotten
    <2> QED
      BY <2>4, <2>6 DEF IInv
  <1> QED
    BY <1>3, <1>4

\* The next handle is right behind, or there is none behind.
LEMMA NextIsBehind ==
    ASSUME IInv, NEW h \in Members(subprocesses)
    PROVE  /\ NextOf(h) \in Handle \cup {NULL}
           /\ NextOf(h) = NULL =>
                  \A x \in Members(subprocesses) :
                      Position(subprocesses, x) <= Position(subprocesses, h)
           /\ NextOf(h) # NULL =>
                  /\ NextOf(h) \in Members(subprocesses)
                  /\ Position(subprocesses, NextOf(h)) = Position(subprocesses, h) + 1
  <1> DEFINE n == Position(subprocesses, h)
  <1>1. subprocesses \in Seq(Handle) /\ Unique(subprocesses)
    BY DEF IInv, TypeOK
  <1>2. n \in 1..Len(subprocesses) /\ DOMAIN subprocesses = 1..Len(subprocesses)
    BY <1>1, PositionIsThere
  <1>3. \A x \in Members(subprocesses) : Position(subprocesses, x) \in 1..Len(subprocesses)
    BY <1>1, PositionIsThere
  <1>4. NextOf(h) = IF n = Len(subprocesses) THEN NULL ELSE subprocesses[n + 1]
    BY DEF NextOf
  <1> HIDE DEF n
  <1>5. CASE n = Len(subprocesses)
    BY <1>2, <1>3, <1>4, <1>5 DEF n
  <1>6. CASE n # Len(subprocesses)
    <2>1. n + 1 \in DOMAIN subprocesses
      <3>1. Len(subprocesses) \in Nat
        BY <1>1
      <3>2. n \in 1..Len(subprocesses)
        BY <1>2
      <3>3. n \in Nat /\ 1 <= n /\ n <= Len(subprocesses) /\ n # Len(subprocesses)
        BY <1>6, <3>1, <3>2
      <3>4. n + 1 \in 1..Len(subprocesses)
        BY <3>1, <3>3
      <3> QED
        BY <1>2, <3>4
    <2>2. subprocesses[n + 1] \in Handle /\ subprocesses[n + 1] \in Members(subprocesses)
      BY <1>1, <2>1 DEF Members
    <2>3. Position(subprocesses, subprocesses[n + 1]) = n + 1
      BY <1>1, <2>1, PositionIsUnique
    <2>4. NextOf(h) = subprocesses[n + 1] /\ NextOf(h) # NULL
      BY <1>4, <1>6, <2>2, OwnersAssumption
    <2> QED
      BY <2>2, <2>3, <2>4 DEF n
  <1> QED
    BY <1>5, <1>6

\* One step of the walk leaves none of the processes behind that have ended,
\* apart from that of handle h.
LEMMA NoneSkipped ==
    ASSUME IInv, NEW h \in Handle, cursor = h, ~sigchld,
           NEW x \in Handle, x # h, child[x] = "terminated"
    PROVE  /\ x \in Members(subprocesses) /\ h \in Members(subprocesses)
           /\ NextOf(h) # NULL /\ NextOf(h) \in Members(subprocesses)
           /\ Position(subprocesses, NextOf(h)) = Position(subprocesses, h) + 1
           /\ Position(subprocesses, NextOf(h)) <= Position(subprocesses, x)
           /\ Position(subprocesses, h) < Position(subprocesses, x)
           /\ Position(subprocesses, h) \in Nat /\ Position(subprocesses, x) \in Nat
  <1>1. subprocesses \in Seq(Handle) /\ Unique(subprocesses)
    BY DEF IInv, TypeOK
  <1>2. x \in Members(subprocesses)
    BY EndedIsListed
  <1>3. h \in Members(subprocesses)
    BY OwnersAssumption DEF IInv, OwnersAndHandlesAgree
  <1>4. Position(subprocesses, h) <= Position(subprocesses, x)
    BY DEF IInv, NoneForgotten
  <1>5. /\ Position(subprocesses, h) \in 1..Len(subprocesses)
        /\ subprocesses[Position(subprocesses, h)] = h
        /\ Position(subprocesses, x) \in 1..Len(subprocesses)
        /\ subprocesses[Position(subprocesses, x)] = x
    BY <1>1, <1>2, <1>3, PositionIsThere
  <1>6. Position(subprocesses, h) # Position(subprocesses, x)
    BY <1>5
  <1>7. Position(subprocesses, h) < Position(subprocesses, x)
    BY <1>4, <1>5, <1>6
  <1>8. NextOf(h) # NULL => /\ NextOf(h) \in Members(subprocesses)
                            /\ Position(subprocesses, NextOf(h)) = Position(subprocesses, h) + 1
    BY <1>3, NextIsBehind
  <1>9. NextOf(h) # NULL
    <2>1. NextOf(h) = NULL => Position(subprocesses, x) <= Position(subprocesses, h)
      BY <1>2, <1>3, NextIsBehind
    <2> QED
      BY <2>1, <1>5, <1>7
  <1> QED
    BY <1>2, <1>3, <1>5, <1>7, <1>8, <1>9

LEMMA SkipKeeps ==
    ASSUME IInv, NEW h \in Handle, Skip(h)
    PROVE  IInv'
  <1>1. /\ cursor = h /\ child[h] = "running" /\ cursor' = NextOf(h)
        /\ UNCHANGED <<subprocesses, child, callback, sigchld, launched, generator, alive>>
    BY DEF Skip, ownerVars
  <1>2. h \in Members(subprocesses)
    BY <1>1, OwnersAssumption DEF IInv, OwnersAndHandlesAgree
  <1>3. /\ NextOf(h) \in Handle \cup {NULL}
        /\ NextOf(h) # NULL => NextOf(h) \in Members(subprocesses)
    BY <1>2, NextIsBehind
  <1>4. TypeOK' /\ OwnersAndHandlesAgree'
    BY <1>1, <1>3 DEF IInv, TypeOK, OwnersAndHandlesAgree
  <1>5. ASSUME NEW x \in Handle, child[x] = "terminated", ~sigchld
        PROVE  NextOf(h) # NULL /\ Position(subprocesses, NextOf(h)) <= Position(subprocesses, x)
    BY <1>1, <1>5, NoneSkipped
  <1>6. NoneForgotten'
    BY <1>1, <1>5 DEF NoneForgotten
  <1> QED
    BY <1>4, <1>6 DEF IInv

\* Freeing handle h moves the next handle and all behind it by one.
LEMMA NoneSkippedByRemoval ==
    ASSUME IInv, NEW h \in Handle, cursor = h, ~sigchld,
           NEW x \in Handle, x # h, child[x] = "terminated"
    PROVE  /\ NextOf(h) # NULL
           /\ {x, NextOf(h)} \subseteq Members(Remove(subprocesses, h))
           /\ Position(Remove(subprocesses, h), NextOf(h))
                  <= Position(Remove(subprocesses, h), x)
  <1> DEFINE p == Position(subprocesses, h)
             q == Position(subprocesses, x)
             n == NextOf(h)
  <1>1. subprocesses \in Seq(Handle) /\ Unique(subprocesses)
    BY DEF IInv, TypeOK
  <1>2. /\ x \in Members(subprocesses) /\ h \in Members(subprocesses)
        /\ n # NULL /\ n \in Members(subprocesses)
        /\ Position(subprocesses, n) = p + 1 /\ p + 1 <= q
        /\ p < q /\ p \in Nat /\ q \in Nat
    BY NoneSkipped
  <1> HIDE DEF n, p, q
  <1>3. n # h
    BY <1>2 DEF p
  <1>4. Position(Remove(subprocesses, h), n) = p
    <2>1. Position(Remove(subprocesses, h), n) =
              IF p + 1 < p THEN p + 1 ELSE (p + 1) - 1
      BY <1>1, <1>2, <1>3, RemovePosition DEF p
    <2> QED
      BY <2>1, <1>2
  <1>5. Position(Remove(subprocesses, h), x) = q - 1
    <2>1. Position(Remove(subprocesses, h), x) = IF q < p THEN q ELSE q - 1
      BY <1>1, <1>2, RemovePosition DEF p, q
    <2> QED
      BY <2>1, <1>2
  <1>6. Members(Remove(subprocesses, h)) = Members(subprocesses) \ {h}
    BY <1>1, <1>2, RemoveMembers
  <1> QED
    BY <1>2, <1>3, <1>4, <1>5, <1>6 DEF n

\* What wlm_util_subprocess_handle_destroy does to the list.
LEMMA RemovalKeepsList ==
    ASSUME IInv, NEW h \in Handle, cursor = h
    PROVE  /\ Remove(subprocesses, h) \in Seq(Handle) /\ Unique(Remove(subprocesses, h))
           /\ Members(Remove(subprocesses, h)) = Members(subprocesses) \ {h}
           /\ NextOf(h) \in Handle \cup {NULL}
           /\ NextOf(h) # NULL => NextOf(h) \in Members(subprocesses) \ {h}
  <1>1. subprocesses \in Seq(Handle) /\ Unique(subprocesses)
    BY DEF IInv, TypeOK
  <1>2. h \in Members(subprocesses)
    BY OwnersAssumption DEF IInv, OwnersAndHandlesAgree
  <1>3. /\ NextOf(h) \in Handle \cup {NULL}
        /\ NextOf(h) # NULL =>
               /\ NextOf(h) \in Members(subprocesses)
               /\ Position(subprocesses, NextOf(h)) = Position(subprocesses, h) + 1
    BY <1>2, NextIsBehind
  <1>4. Position(subprocesses, h) \in Nat
    BY <1>1, <1>2, PositionIsThere
  <1>5. NextOf(h) # NULL => NextOf(h) # h
    BY <1>3, <1>4
  <1> QED
    BY <1>1, <1>2, <1>3, <1>5, RemoveType, RemoveMembers

LEMMA ReapKeeps ==
    ASSUME IInv, NEW h \in Handle, Reap(h)
    PROVE  IInv'
  <1>1. /\ cursor = h /\ child[h] = "terminated" /\ cursor' = NextOf(h)
        /\ subprocesses' = Remove(subprocesses, h)
        /\ UNCHANGED <<sigchld, alive>>
    BY DEF Reap, Free
  <1>2. /\ \A x \in Handle : /\ child'[x] = IF x = h THEN "none" ELSE child[x]
                             /\ callback'[x] = IF x = h THEN NULL ELSE callback[x]
        /\ \A l \in Launcher : launched'[l] = launched[l] \ {h}
        /\ \A g \in Generator : generator'[g] = IF generator[g] = h THEN NULL ELSE generator[g]
    BY DEF IInv, TypeOK, Reap, Free
  <1>3. /\ subprocesses' \in Seq(Handle) /\ Unique(subprocesses')
        /\ Members(subprocesses') = Members(subprocesses) \ {h}
        /\ cursor' \in Handle \cup {NULL}
        /\ cursor' # NULL => cursor' \in Members(subprocesses')
    BY <1>1, RemovalKeepsList
  <1>4. TypeOK'
    <2>1. /\ child' \in [Handle -> {"none", "running", "terminated"}]
          /\ callback' \in [Handle -> Owner \cup {NULL}]
          /\ launched' \in [Launcher -> SUBSET Handle]
      BY DEF IInv, TypeOK, Reap, Free
    <2>2. generator' \in [Generator -> Handle \cup {NULL}]
      BY DEF IInv, TypeOK, Reap, Free
    <2> QED
      BY <1>1, <1>3, <2>1, <2>2 DEF IInv, TypeOK
  <1>5. OwnersAndHandlesAgree'
    <2>1. NULL \notin Launcher \cup Generator \cup Handle
      BY OwnersAssumption DEF Owner
    <2>2. \A x \in Handle : callback'[x] # NULL => callback'[x] \in alive'
      BY <1>1, <1>2 DEF IInv, OwnersAndHandlesAgree
    <2>3. \A l \in Launcher, x \in Handle : x \in launched'[l] <=> callback'[x] = l
      BY <1>2, <2>1 DEF IInv, OwnersAndHandlesAgree
    <2>4. \A g \in Generator, x \in Handle : x = generator'[g] <=> callback'[x] = g
      BY <1>2, <2>1 DEF IInv, OwnersAndHandlesAgree
    <2>5. \A x \in Handle : /\ x \in Members(subprocesses') <=> child'[x] # "none"
                            /\ child'[x] = "none" => callback'[x] = NULL
      BY <1>2, <1>3 DEF IInv, OwnersAndHandlesAgree
    <2> QED
      BY <1>3, <2>2, <2>3, <2>4, <2>5 DEF OwnersAndHandlesAgree
  <1>6. NoneForgotten'
    <2> SUFFICES ASSUME NEW x \in Handle, child'[x] = "terminated", ~sigchld
                 PROVE  cursor' # NULL /\ Position(subprocesses', cursor')
                                              <= Position(subprocesses', x)
      BY <1>1 DEF NoneForgotten
    <2>1. x # h /\ child[x] = "terminated"
      BY <1>2
    <2> QED
      BY <1>1, <2>1, NoneSkippedByRemoval
  <1> QED
    BY <1>4, <1>5, <1>6 DEF IInv

LEMMA ReapNestedKeeps ==
    ASSUME IInv, NEW h \in Handle, NEW g \in Generator, NEW g2 \in Generator,
           NEW h2 \in Handle, ReapNested(h, g, g2, h2)
    PROVE  IInv'
  <1> DEFINE rest == Remove(subprocesses, h)
  <1>1. /\ cursor = h /\ child[h] = "terminated" /\ cursor' = NextOf(h)
        /\ callback[h] = g /\ g2 \notin alive /\ child[h2] = "none" /\ h # h2
        /\ subprocesses' = PushBack(rest, h2)
        /\ alive' = alive \cup {g2}
        /\ UNCHANGED <<sigchld, launched>>
    BY DEF ReapNested
  <1>2. g # g2 /\ h2 \notin Members(subprocesses) /\ callback[h2] = NULL
    BY <1>1, OwnersAssumption DEF IInv, OwnersAndHandlesAgree, Owner
  <1>3. \A x \in Handle :
            /\ child'[x] = IF x = h THEN "none" ELSE IF x = h2 THEN "running" ELSE child[x]
            /\ callback'[x] = IF x = h THEN NULL ELSE IF x = h2 THEN g2 ELSE callback[x]
    BY <1>1 DEF IInv, TypeOK, ReapNested
  <1>4. \A k \in Generator :
            generator'[k] = IF k = g THEN NULL ELSE IF k = g2 THEN h2 ELSE generator[k]
    BY <1>2 DEF IInv, TypeOK, ReapNested
  <1>5. /\ rest \in Seq(Handle) /\ Unique(rest)
        /\ Members(rest) = Members(subprocesses) \ {h}
        /\ cursor' \in Handle \cup {NULL}
        /\ cursor' # NULL => cursor' \in Members(rest)
    BY <1>1, RemovalKeepsList
  <1> HIDE DEF rest
  <1>6. /\ subprocesses' \in Seq(Handle) /\ Unique(subprocesses')
        /\ Members(subprocesses') = Members(rest) \cup {h2}
    <2>1. h2 \notin Members(rest)
      BY <1>2, <1>5, Zenon
    <2>2. subprocesses' = PushBack(rest, h2)
      BY <1>1, Zenon
    <2>3. rest \in Seq(Handle) =>
              /\ PushBack(rest, h2) \in Seq(Handle)
              /\ Members(PushBack(rest, h2)) = Members(rest) \cup {h2}
              /\ Unique(rest) /\ h2 \notin Members(rest) => Unique(PushBack(rest, h2))
      BY ONLY PushBackMembers, Zenon
    <2> QED BY ONLY <1>5, <2>1, <2>2, <2>3, Zenon
  <1>7. TypeOK'
    <2>1. /\ child' \in [Handle -> {"none", "running", "terminated"}]
          /\ callback' \in [Handle -> Owner \cup {NULL}]
          /\ generator' \in [Generator -> Handle \cup {NULL}]
      BY DEF IInv, TypeOK, ReapNested, Owner
    <2> QED
      BY <1>1, <1>5, <1>6, <2>1 DEF IInv, TypeOK, Owner
  <1>8. OwnersAndHandlesAgree'
    <2>1. NULL \notin Launcher \cup Generator \cup Handle /\ Launcher \cap Generator = {}
      BY OwnersAssumption DEF Owner
    <2>2. \A x \in Handle : callback'[x] # NULL => callback'[x] \in alive'
      BY <1>1, <1>3 DEF IInv, OwnersAndHandlesAgree
    <2>3. \A l \in Launcher, x \in Handle : x \in launched'[l] <=> callback'[x] = l
      <3> SUFFICES ASSUME NEW l \in Launcher, NEW x \in Handle
                   PROVE  x \in launched'[l] <=> callback'[x] = l
        OBVIOUS
      <3>1. x \in launched[l] <=> callback[x] = l
        BY DEF IInv, OwnersAndHandlesAgree
      <3>2. l # g /\ l # g2 /\ l # NULL
        BY <2>1
      <3> QED
        BY <1>1, <1>2, <1>3, <3>1, <3>2
    <2>4. \A k \in Generator, x \in Handle : x = generator'[k] <=> callback'[x] = k
      <3> SUFFICES ASSUME NEW k \in Generator, NEW x \in Handle
                   PROVE  x = generator'[k] <=> callback'[x] = k
        OBVIOUS
      <3>1. x = generator[k] <=> callback[x] = k
        BY DEF IInv, OwnersAndHandlesAgree
      <3>2. callback[x] # g2 /\ (callback[x] = g => x = h)
        <4>1. h = generator[g] /\ (callback[x] = g => x = generator[g])
          BY <1>1 DEF IInv, OwnersAndHandlesAgree
        <4>2. callback[x] # g2
          BY <1>1, <2>1 DEF IInv, OwnersAndHandlesAgree
        <4> QED
          BY <4>1, <4>2
      <3>3. k # NULL /\ x # NULL
        BY <2>1
      <3> QED
        BY <1>1, <1>2, <1>3, <1>4, <3>1, <3>2, <3>3
    <2>5. \A x \in Handle : /\ x \in Members(subprocesses') <=> child'[x] # "none"
                            /\ child'[x] = "none" => callback'[x] = NULL
      BY <1>1, <1>3, <1>5, <1>6 DEF IInv, OwnersAndHandlesAgree
    <2> QED
      BY <1>5, <1>6, <2>2, <2>3, <2>4, <2>5 DEF OwnersAndHandlesAgree
  <1>9. NoneForgotten'
    <2> SUFFICES ASSUME NEW x \in Handle, child'[x] = "terminated", ~sigchld
                 PROVE  cursor' # NULL /\ Position(subprocesses', cursor')
                                              <= Position(subprocesses', x)
      BY <1>1 DEF NoneForgotten
    <2>1. x # h /\ x # h2 /\ child[x] = "terminated"
      BY <1>3
    <2>2. /\ cursor' # NULL /\ x \in Members(rest) /\ cursor' \in Members(rest)
          /\ Position(rest, cursor') <= Position(rest, x)
      BY <1>1, <2>1, NoneSkippedByRemoval DEF rest
    <2>3. h2 \notin Members(rest)
      BY <1>2, <1>5
    <2>4. Position(subprocesses', x) = Position(rest, x)
      BY <1>1, <1>5, <2>2, <2>3, PushBackPosition
    <2>5. Position(subprocesses', cursor') = Position(rest, cursor')
      BY <1>1, <1>5, <2>2, <2>3, PushBackPosition
    <2> QED
      BY <2>2, <2>4, <2>5
  <1> QED
    BY <1>7, <1>8, <1>9 DEF IInv

LEMMA Inductive == IInv /\ [Next]_vars => IInv'
  <1> SUFFICES ASSUME IInv, [Next]_vars PROVE IInv'
    OBVIOUS
  <1>1. ASSUME NEW h \in Handle, NEW l \in Launcher, Start(l, h) PROVE IInv'
    BY <1>1, StartKeeps
  <1>2. ASSUME NEW h \in Handle, NEW g \in Generator, Generate(g, h) PROVE IInv'
    BY <1>2, GenerateKeeps
  <1>3. ASSUME NEW h \in Handle, Run(h) PROVE IInv'
    BY <1>3, RunKeeps
  <1>4. ASSUME NEW h \in Handle, Terminate(h) PROVE IInv'
    BY <1>4, TerminateKeeps
  <1>5. ASSUME NEW l \in Launcher, DestroyLauncher(l) PROVE IInv'
    BY <1>5, DestroyLauncherKeeps
  <1>6. ASSUME NEW g \in Generator, DestroyGenerator(g) PROVE IInv'
    BY <1>6, DestroyGeneratorKeeps
  <1>7. CASE HandleSigchld
    BY <1>7, HandleSigchldKeeps
  <1>8. CASE Walk
    <2>1. ASSUME NEW h \in Handle, Skip(h) PROVE IInv'
      BY <2>1, SkipKeeps
    <2>2. ASSUME NEW h \in Handle, Reap(h) PROVE IInv'
      BY <2>2, ReapKeeps
    <2>3. ASSUME NEW h \in Handle, NEW g \in Generator, NEW g2 \in Generator,
                 NEW h2 \in Handle, ReapNested(h, g, g2, h2)
          PROVE  IInv'
      BY <2>3, ReapNestedKeeps
    <2> QED
      BY <1>8, <2>1, <2>2, <2>3 DEF Walk
  <1>9. CASE UNCHANGED vars
    BY <1>9 DEF IInv, TypeOK, OwnersAndHandlesAgree, NoneForgotten, vars, ownerVars
  <1> QED
    BY <1>1, <1>2, <1>3, <1>4, <1>5, <1>6, <1>7, <1>8, <1>9 DEF Next

\* The types of the code's structures, agreement and the walk are kept together:
\* none of the three is inductive alone.
THEOREM Invariance == Spec => []IInv
  BY Initially, Inductive, PTL DEF Spec

\* Nothing that has ended is forgotten (subprocess_monitor.c:436).
THEOREM NoneIsForgotten == Spec => []NoneForgotten
  <1>1. IInv => NoneForgotten
    BY DEF IInv
  <1> QED
    BY <1>1, Invariance, PTL

\* Callbacks go to owners that exist and know of the handle
\* (subprocess_monitor.c:151).
THEOREM OwnersAgree == Spec => []OwnersAndHandlesAgree
  <1>1. IInv => OwnersAndHandlesAgree
    BY DEF IInv
  <1> QED
    BY <1>1, Invariance, PTL

-----------------------------------------------------------------------------
(* The steps of the monitor are steps of Supervision.                      *)

\* Entrusting is spawning, with or without an owner.
LEMMA EntrustSpawns ==
    ASSUME NEW h \in Handle, NEW o \in Owner \cup {NULL}, IInv, Entrust(h, o)
    PROVE  Abstract!Spawn(h)
  <1> DEFINE to == [x \in {h} |-> o]
  <1>1. to \in [{h} -> Owner \cup {NULL}]
    OBVIOUS
  <1>2. child[h] = "none"
    BY DEF Entrust
  <1>3. child' = [x \in Handle |-> IF x \in {h} THEN "running" ELSE child[x]]
    BY DEF IInv, TypeOK, Entrust
  <1>4. callback' = [x \in Handle |-> IF x \in {h} THEN to[x] ELSE callback[x]]
    BY DEF IInv, TypeOK, Entrust
  <1> QED
    BY <1>1, <1>2, <1>3, <1>4 DEF Abstract!Spawn, Abstract!Spawned

\* Ceding all of an owner's handles is giving up.
LEMMA DestroyGivesUp ==
    ASSUME IInv,
           \/ \E l \in Launcher : DestroyLauncher(l)
           \/ \E g \in Generator : DestroyGenerator(g)
    PROVE  \E x \in Owner : Abstract!GiveUp(x)
  <1>1. ASSUME NEW l \in Launcher, DestroyLauncher(l) PROVE Abstract!GiveUp(l)
    <2>1. callback' = [h \in Handle |-> IF callback[h] = l THEN NULL ELSE callback[h]]
      BY <1>1 DEF DestroyLauncher, Cede, IInv, OwnersAndHandlesAgree
    <2> QED
      BY <1>1, <2>1 DEF DestroyLauncher, Abstract!GiveUp
  <1>2. ASSUME NEW g \in Generator, DestroyGenerator(g) PROVE Abstract!GiveUp(g)
    <2>1. callback' = [h \in Handle |-> IF callback[h] = g THEN NULL ELSE callback[h]]
      BY <1>2 DEF DestroyGenerator, Cede, IInv, OwnersAndHandlesAgree
    <2> QED
      BY <1>2, <2>1 DEF DestroyGenerator, Abstract!GiveUp
  <1> QED
    BY <1>1, <1>2 DEF Owner

\* Reaping reports; the generator of a nested submenu spawns at the same time.
LEMMA ReapReports ==
    ASSUME IInv, NEW h \in Handle, Reap(h)
    PROVE  Abstract!Report(h)
  <1>1. child[h] = "terminated" /\ {} \in SUBSET (Handle \ {h})
    BY DEF Reap
  <1>2. [x \in {} |-> NULL] \in [{} -> Owner \cup {NULL}]
    OBVIOUS
  <1>3. child' = [x \in Handle |-> IF x \in {} THEN "running" ELSE [child EXCEPT ![h] = "none"][x]]
    BY DEF IInv, TypeOK, Reap, Free
  <1>4. callback' = [x \in Handle |-> IF x \in {} THEN [y \in {} |-> NULL][x]
                                                  ELSE [callback EXCEPT ![h] = NULL][x]]
    BY DEF IInv, TypeOK, Reap, Free
  <1>5. Abstract!Spawned([child EXCEPT ![h] = "none"], [callback EXCEPT ![h] = NULL], {})
    BY <1>2, <1>3, <1>4 DEF Abstract!Spawned
  <1> QED
    BY <1>1, <1>5 DEF Abstract!Report

LEMMA ReapNestedReports ==
    ASSUME IInv, NEW h \in Handle, NEW g \in Generator, NEW g2 \in Generator,
           NEW h2 \in Handle, ReapNested(h, g, g2, h2)
    PROVE  Abstract!Report(h)
  <1> DEFINE to == [x \in {h2} |-> g2]
             freed == [child EXCEPT ![h] = "none"]
             ceded == [callback EXCEPT ![h] = NULL]
  <1>1. child[h] = "terminated" /\ child[h2] = "none" /\ h2 # h
    BY DEF ReapNested
  <1>2. to \in [{h2} -> Owner \cup {NULL}] /\ {h2} \in SUBSET (Handle \ {h})
    BY <1>1 DEF Owner
  <1>3. freed[h2] = "none"
    BY <1>1 DEF IInv, TypeOK
  <1>4. child' = [x \in Handle |-> IF x \in {h2} THEN "running" ELSE freed[x]]
    BY <1>1 DEF IInv, TypeOK, ReapNested
  <1>5. callback' = [x \in Handle |-> IF x \in {h2} THEN to[x] ELSE ceded[x]]
    BY <1>1 DEF IInv, TypeOK, ReapNested
  <1>6. Abstract!Spawned(freed, ceded, {h2})
    <2> HIDE DEF freed, ceded, to
    <2> QED
      BY <1>2, <1>3, <1>4, <1>5 DEF Abstract!Spawned
  <1> QED
    BY <1>1, <1>2, <1>6 DEF Abstract!Report

LEMMA StepSimulation ==
    IInv /\ [Next]_vars => [Abstract!Next]_(Abstract!supervisionVars)
  <1> SUFFICES ASSUME IInv, [Next]_vars
               PROVE  Abstract!Next \/ UNCHANGED <<child, callback>>
    BY DEF Abstract!supervisionVars
  <1>1. ASSUME NEW h \in Handle, \/ \E l \in Launcher : Start(l, h)
                                 \/ \E g \in Generator : Generate(g, h)
                                 \/ Run(h)
        PROVE  Abstract!Spawn(h)
    BY <1>1, EntrustSpawns DEF Start, Generate, Run, Owner
  <1>2. ASSUME NEW h \in Handle, Terminate(h) PROVE Abstract!End(h)
    BY <1>2 DEF Terminate, Abstract!End
  <1>3. ASSUME \/ \E l \in Launcher : DestroyLauncher(l)
               \/ \E g \in Generator : DestroyGenerator(g)
        PROVE  \E x \in Owner : Abstract!GiveUp(x)
    BY <1>3, DestroyGivesUp
  <1>4. ASSUME HandleSigchld \/ \E h \in Handle : Skip(h)
        PROVE  UNCHANGED <<child, callback>>
    BY <1>4 DEF HandleSigchld, Skip
  <1>5. ASSUME NEW h \in Handle,
               Reap(h) \/ \E g, g2 \in Generator, h2 \in Handle : ReapNested(h, g, g2, h2)
        PROVE  Abstract!Report(h)
    BY <1>5, ReapReports, ReapNestedReports
  <1>6. ASSUME UNCHANGED vars PROVE UNCHANGED <<child, callback>>
    BY <1>6 DEF vars
  <1> QED
    BY <1>1, <1>2, <1>3, <1>4, <1>5, <1>6 DEF Next, Walk, Abstract!Next

\* The safety half of Supervises: processes are entrusted, end, lose their owner
\* and are reported as Supervision has it, whatever their number.  That each one
\* is reported in the end is left to the run.
THEOREM ImplementsSupervision ==
    Spec => Abstract!Init /\ [][Abstract!Next]_(Abstract!supervisionVars)
  <1>1. Init => Abstract!Init
    BY DEF Init, Abstract!Init
  <1> QED
    BY <1>1, Invariance, StepSimulation, PTL DEF Spec
=============================================================================
