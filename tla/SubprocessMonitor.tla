-------------------------- MODULE SubprocessMonitor --------------------------
(***************************************************************************)
(* The subprocess monitor (util/subprocess_monitor.c) and those that       *)
(* entrust processes to it: launchers of the dock (launcher.c), generators *)
(* of submenus (root_menu.c), and actions and the lock program, which cede *)
(* theirs at once (action.c, idle.c).                                      *)
(*                                                                         *)
(* Processes end at any time, also while the handler of SIGCHLD walks the  *)
(* list: the walk is one step per handle.  All other handlers run between  *)
(* two walks.  The signal's file descriptor is readable as long as there   *)
(* is a SIGCHLD, of one or of many processes.  Allocations and starts of   *)
(* processes do not fail, and the output of processes is left out.         *)
(***************************************************************************)
EXTENDS Naturals, Sequences, Lists

CONSTANTS
    Handle,         \* Memory for wlm_util_subprocess: freed handles are reused.
    Launcher,
    Generator,
    NULL

Owner == Launcher \cup Generator

ASSUME OwnersAssumption ==
    /\ Launcher \cap Generator = {}
    /\ NULL \notin Handle \cup Owner

VARIABLES
    subprocesses,   \* wlm_util_subprocess_monitor_t::subprocesses.
    child,          \* The process behind each handle that is not freed.
    callback,       \* terminated_callback and its userdata_ptr, NULL if ceded.
    sigchld,        \* SIGCHLD was raised and not yet read.
    cursor,         \* dlnode_ptr of the walk, NULL outside of it.
    launched,       \* wlmaker_launcher_t::subprocesses_ptr.
    generator,      \* wlmaker_root_menu_generator_t::subprocess_handle_ptr.
    alive           \* The launchers and generators there are.

ownerVars == <<launched, generator, alive>>
vars == <<subprocesses, child, callback, sigchld, cursor, ownerVars>>

TypeOK ==
    /\ subprocesses \in Seq(Handle) /\ Unique(subprocesses)
    /\ child \in [Handle -> {"none", "running", "terminated"}]
    /\ callback \in [Handle -> Owner \cup {NULL}]
    /\ sigchld \in BOOLEAN
    /\ cursor \in Handle \cup {NULL}
    /\ launched \in [Launcher -> SUBSET Handle]
    /\ generator \in [Generator -> Handle \cup {NULL}]
    /\ alive \in SUBSET Owner

Init ==
    /\ subprocesses = <<>>
    /\ child = [h \in Handle |-> "none"]
    /\ callback = [h \in Handle |-> NULL]
    /\ sigchld = FALSE
    /\ cursor = NULL
    /\ launched = [l \in Launcher |-> {}]
    /\ generator = [g \in Generator |-> NULL]
    /\ alive = Launcher

Idle == cursor = NULL

-----------------------------------------------------------------------------
(* Handlers, between two walks.                                            *)

\* wlm_util_subprocess_monitor_entrust of a process that was started.
Entrust(h, owner) ==
    /\ child[h] = "none"
    /\ subprocesses' = PushBack(subprocesses, h)
    /\ child' = [child EXCEPT ![h] = "running"]
    /\ callback' = [callback EXCEPT ![h] = owner]

\* wlm_util_subprocess_monitor_cede: the handle stays on the list.
Cede(H) == callback' = [h \in Handle |-> IF h \in H THEN NULL ELSE callback[h]]

\* _wlmaker_launcher_start, on a click.
Start(l, h) ==
    /\ Idle /\ l \in alive
    /\ Entrust(h, l)
    /\ launched' = [launched EXCEPT ![l] = @ \cup {h}]
    /\ UNCHANGED <<sigchld, cursor, generator, alive>>

\* wlm_util_subprocess_monitor_run, and the lock program.
Run(h) == Idle /\ Entrust(h, NULL) /\ UNCHANGED <<sigchld, cursor, ownerVars>>

\* The root menu is created: with it, the generators of its submenus.
Generate(g, h) ==
    /\ Idle /\ g \in Generator \ alive
    /\ Entrust(h, g)
    /\ generator' = [generator EXCEPT ![g] = h]
    /\ alive' = alive \cup {g}
    /\ UNCHANGED <<sigchld, cursor, launched>>

\* Mutant: the processes keep the launcher for their callback.
DestroyWithoutCede(l) ==
    /\ Idle /\ l \in alive
    /\ launched' = [launched EXCEPT ![l] = {}]
    /\ alive' = alive \ {l}
    /\ UNCHANGED <<subprocesses, child, callback, sigchld, cursor, generator>>

DestroyLauncher(l) ==
    /\ Idle /\ l \in alive
    /\ Cede(launched[l])
    /\ launched' = [launched EXCEPT ![l] = {}]
    /\ alive' = alive \ {l}
    /\ UNCHANGED <<subprocesses, child, sigchld, cursor, generator>>

\* The submenu is destroyed, and its generator with it.
DestroyGenerator(g) ==
    /\ Idle /\ g \in alive
    /\ Cede({generator[g]})
    /\ generator' = [generator EXCEPT ![g] = NULL]
    /\ alive' = alive \ {g}
    /\ UNCHANGED <<subprocesses, child, sigchld, cursor, launched>>

-----------------------------------------------------------------------------
(* Processes end.                                                          *)

Terminate(h) ==
    /\ child[h] = "running"
    /\ child' = [child EXCEPT ![h] = "terminated"]
    /\ sigchld' = TRUE
    /\ UNCHANGED <<subprocesses, callback, cursor, ownerVars>>

\* The event loop reads the signal and calls the handler.
HandleSigchld ==
    /\ Idle /\ sigchld
    /\ sigchld' = FALSE
    /\ cursor' = IF subprocesses = <<>> THEN NULL ELSE Head(subprocesses)
    /\ UNCHANGED <<subprocesses, child, callback, ownerVars>>

\* The next of h, as the handler reads it before anything else.
NextOf(h) ==
    LET n == Position(subprocesses, h) IN
    IF n = Len(subprocesses) THEN NULL ELSE subprocesses[n + 1]

\* The process of handle h has not ended.
Skip(h) ==
    /\ cursor = h /\ child[h] = "running"
    /\ cursor' = NextOf(h)
    /\ UNCHANGED <<subprocesses, child, callback, sigchld, ownerVars>>

\* The handle is freed. Its owner forgets it, if there is one.
Free(h) ==
    /\ subprocesses' = Remove(subprocesses, h)
    /\ child' = [child EXCEPT ![h] = "none"]
    /\ callback' = [callback EXCEPT ![h] = NULL]
    /\ launched' = [l \in Launcher |-> launched[l] \ {h}]
    /\ generator' = [g \in Generator |-> IF generator[g] = h THEN NULL ELSE generator[g]]
    /\ UNCHANGED <<sigchld, alive>>

\* Mutant: one process per signal.
ReapOne(h) == cursor = h /\ child[h] = "terminated" /\ Free(h) /\ cursor' = NULL

Reap(h) == cursor = h /\ child[h] = "terminated" /\ Free(h) /\ cursor' = NextOf(h)

\* What the process of generator g wrote has a submenu with a generator g2 of
\* its own: its process is entrusted before the handle h of g is freed.
ReapNested(h, g, g2, h2) ==
    /\ cursor = h /\ child[h] = "terminated" /\ callback[h] = g
    /\ g2 \notin alive /\ child[h2] = "none"
    /\ subprocesses' = PushBack(Remove(subprocesses, h), h2)
    /\ child' = [child EXCEPT ![h] = "none", ![h2] = "running"]
    /\ callback' = [callback EXCEPT ![h] = NULL, ![h2] = g2]
    /\ generator' = [generator EXCEPT ![g] = NULL, ![g2] = h2]
    /\ alive' = alive \cup {g2}
    /\ cursor' = NextOf(h)
    /\ UNCHANGED <<sigchld, launched>>

Walk ==
    \E h \in Handle :
        \/ Skip(h) \/ Reap(h)
        \/ \E g, g2 \in Generator, h2 \in Handle : ReapNested(h, g, g2, h2)

Next ==
    \/ \E h \in Handle :
           \/ \E l \in Launcher : Start(l, h)
           \/ \E g \in Generator : Generate(g, h)
           \/ Run(h) \/ Terminate(h)
    \/ \E l \in Launcher : DestroyLauncher(l)
    \/ \E g \in Generator : DestroyGenerator(g)
    \/ HandleSigchld \/ Walk

\* A handler that was called returns, and the event loop calls the handler of
\* a signal that is there. That processes end is up to them.
Spec == Init /\ [][Next]_vars /\ WF_vars(Walk) /\ WF_vars(HandleSigchld)

-----------------------------------------------------------------------------
(* Properties.                                                             *)

\* A process that has ended is not forgotten: either a SIGCHLD is still to be
\* read, or the walk is yet to come to it, also when many processes end before
\* one signal is read and when lists change below the walk
\* (subprocess_monitor.c:436).
NoneForgotten ==
    \A h \in Handle : child[h] = "terminated" =>
        \/ sigchld
        \/ cursor # NULL /\ Position(subprocesses, cursor) <= Position(subprocesses, h)

\* A callback goes to a launcher or generator that still exists, and that knows
\* of the handle; and nobody knows of a handle that was freed: not they, not the
\* list, and not the walk, which has read its next handle before the callback
\* (subprocess_monitor.c:151, 441, launcher.c:229, root_menu.c:640).
OwnersAndHandlesAgree ==
    /\ \A h \in Handle : callback[h] # NULL => callback[h] \in alive
    /\ \A l \in Launcher, h \in Handle : h \in launched[l] <=> callback[h] = l
    /\ \A g \in Generator, h \in Handle : h = generator[g] <=> callback[h] = g
    /\ \A h \in Handle : h \in Members(subprocesses) <=> child[h] # "none"
    /\ \A h \in Handle : child[h] = "none" => callback[h] = NULL
    /\ cursor # NULL => cursor \in Members(subprocesses)

Abstract == INSTANCE Supervision WITH process <- child, owner <- callback

\* The monitor supervises the processes: it reports each one that ends.
Supervises == Abstract!Spec
=============================================================================
