---------------------------- MODULE MCSessionLock ----------------------------
\* Instances of the session locks for TLC.
EXTENDS SessionLock

CONSTANTS o1

\* One output is plugged in at start.
OneOutput == <<o1>>
=============================================================================
