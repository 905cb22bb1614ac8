------------------------------ MODULE MCServers ------------------------------
(* One run for the open server and for the semaphore library: the first step  *)
(* chooses one of them, and the other never starts.                           *)
EXTENDS Opend, Semaph

VARIABLE prog   \* the program that runs

vars == <<prog, opendVars, semVars>>

Init == /\ prog = "none"
        /\ OpendInit
        /\ SemInit

\* Program p takes a step: it is the one that runs, and the others are not there.
Run(p) == prog \in {"none", p} /\ prog' = p
Others(p) ==
    /\ IF p = "opend" THEN TRUE ELSE UNCHANGED opendVars
    /\ IF p = "semaph" THEN TRUE ELSE UNCHANGED semVars

Next ==
    \/ Run("opend") /\ OpendNext /\ Others("opend")
    \/ Run("semaph") /\ SemNext /\ Others("semaph")

Spec == /\ Init /\ [][Next]_vars
        /\ OpendFairness
        /\ SemFairness
============================================================================
