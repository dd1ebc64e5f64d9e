----------------------------- MODULE Supervision -----------------------------
(***************************************************************************)
(* What the subprocess monitor promises of the processes it is entrusted   *)
(* with: each one that ends is reported, and its handle freed, whichever   *)
(* of them end together and whoever loses interest in them meanwhile.      *)
(***************************************************************************)
CONSTANTS
    Handle,
    Owner,
    NULL

VARIABLES
    process,        \* State of the process behind each handle.
    owner           \* Who is to be told when the process ends, if anyone.

supervisionVars == <<process, owner>>

Init ==
    /\ process = [h \in Handle |-> "none"]
    /\ owner = [h \in Handle |-> NULL]

\* Processes H are entrusted, with an owner each or with none.
Spawned(p, o, H) ==
    \E to \in [H -> Owner \cup {NULL}] :
        /\ \A h \in H : p[h] = "none"
        /\ process' = [h \in Handle |-> IF h \in H THEN "running" ELSE p[h]]
        /\ owner' = [h \in Handle |-> IF h \in H THEN to[h] ELSE o[h]]

Spawn(h) == Spawned(process, owner, {h})

End(h) ==
    /\ process[h] = "running"
    /\ process' = [process EXCEPT ![h] = "terminated"]
    /\ UNCHANGED owner

\* The owner goes away.
GiveUp(x) ==
    /\ owner' = [h \in Handle |-> IF owner[h] = x THEN NULL ELSE owner[h]]
    /\ UNCHANGED process

\* The owner, if there still is one, learns that the process has ended: it may
\* spawn others at once. The handle is free.
Report(h) ==
    /\ process[h] = "terminated"
    /\ \E H \in SUBSET (Handle \ {h}) :
           Spawned([process EXCEPT ![h] = "none"], [owner EXCEPT ![h] = NULL], H)

Next ==
    \/ \E h \in Handle : Spawn(h) \/ End(h) \/ Report(h)
    \/ \E x \in Owner : GiveUp(x)

Spec ==
    /\ Init /\ [][Next]_supervisionVars
    /\ \A h \in Handle : WF_supervisionVars(Report(h))
=============================================================================
