------------------------------ MODULE MCPrograms ------------------------------
(* One run for the programs that are small: the first step chooses one of     *)
(* them, and the others never start.                                          *)
EXTENDS ObjectTable, JobQueue, Condvars, Timeout, SortThreads, Rot13,
         MemStream, TellWait, Popen, Terminal, PrinterStatus

VARIABLE prog   \* the program that runs

vars == <<prog, fooVars, jobVars, condVars, timeoutVars, sortVars, rotVars,
          streamVars, tellVars, popenVars, ttyVars, statusVars>>

\* "aN0zAm!", in four blocks of two bytes.
MCInput == <<97, 78, 48, 122, 65, 109, 33>>

\* Every mode that opens a stream, and some that do not.
MCTypes == {<<"r">>, <<"r", "+">>, <<"w">>, <<"w", "+">>, <<"a">>,
            <<"a", "b", "+">>, <<"b">>, <<"r", "w">>, <<>>}

\* Small responses of a printer: status line, header, body.
MCLayouts ==
    {[status |-> s, clen |-> s + a, clenEnd |-> s + a + 2, end |-> s + a + 2 + b,
      total |-> s + a + 5 + b + n] : s \in 1..2, a \in 0..1, b \in 0..2, n \in 2..3}

Init == /\ prog = "none"
        /\ FooInit
        /\ JobInit
        /\ CondInit
        /\ TimeoutInit
        /\ SortInit
        /\ RotInit
        /\ MemInit
        /\ TellInit
        /\ PopenInit
        /\ TtyInit
        /\ StatusInit

\* Program p takes a step: it is the one that runs, and the others are not there.
Run(p) == prog \in {"none", p} /\ prog' = p
Others(p) ==
    /\ IF p = "object" THEN TRUE ELSE UNCHANGED fooVars
    /\ IF p = "jobs" THEN TRUE ELSE UNCHANGED jobVars
    /\ IF p = "cond" THEN TRUE ELSE UNCHANGED condVars
    /\ IF p = "timeout" THEN TRUE ELSE UNCHANGED timeoutVars
    /\ IF p = "sort" THEN TRUE ELSE UNCHANGED sortVars
    /\ IF p = "rot13" THEN TRUE ELSE UNCHANGED rotVars
    /\ IF p = "stream" THEN TRUE ELSE UNCHANGED streamVars
    /\ IF p = "tellwait" THEN TRUE ELSE UNCHANGED tellVars
    /\ IF p = "popen" THEN TRUE ELSE UNCHANGED popenVars
    /\ IF p = "terminal" THEN TRUE ELSE UNCHANGED ttyVars
    /\ IF p = "status" THEN TRUE ELSE UNCHANGED statusVars

Next ==
    \/ Run("object") /\ FooNext /\ Others("object")
    \/ Run("jobs") /\ JobNext /\ Others("jobs")
    \/ Run("cond") /\ CondNext /\ Others("cond")
    \/ Run("timeout") /\ TimeoutNext /\ Others("timeout")
    \/ Run("sort") /\ SortNext /\ Others("sort")
    \/ Run("rot13") /\ RotNext /\ Others("rot13")
    \/ Run("stream") /\ MemNext /\ Others("stream")
    \/ Run("tellwait") /\ TellNext /\ Others("tellwait")
    \/ Run("popen") /\ PopenNext /\ Others("popen")
    \/ Run("terminal") /\ TtyNext /\ Others("terminal")
    \/ Run("status") /\ StatusNext /\ Others("status")

Spec == /\ Init /\ [][Next]_vars
        /\ FooFairness
        /\ CondFairness
        /\ TimeoutFairness
        /\ RotFairness
        /\ TellFairness
        /\ PopenFairness
        /\ TtyFairness
        /\ StatusFairness

----------------------------------------------------------------------------
\* Threads do not wait for ever: not for the two locks of foo_rele and foo_find,
\* not for a signal on a condition that was sent after the unlock, and not for
\* the mutex that main holds when timeout calls retry itself.
ThreadsGoOn == FooCallsReturn /\ WaitersAreWoken /\ RetryHappens

\* Programs end: rot13 when its last request is complete, parent and child that
\* take turns, pclose when its command has ended, pty when the program on the
\* pseudo terminal has, and printer_status when the printer has answered.
ProgramsEnd == RotEnds /\ TurnsEnd /\ PcloseReturns /\ PtyEnds /\ StatusReturns
============================================================================
