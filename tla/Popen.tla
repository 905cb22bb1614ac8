------------------------------- MODULE Popen -------------------------------
(* lib/popen.c: popen and pclose.  A program opens several streams and closes *)
(* them in any order; fork, fdopen, execl and fclose fail.  A command with a  *)
(* "w" stream reads it to its end and a command with an "r" stream writes     *)
(* more than a pipe holds, so each ends for certain only once the other end   *)
(* of its pipe is closed by everyone.  The program starts with descriptors 0, *)
(* 1 and 2 open.                                                              *)
EXTENDS Naturals, FiniteSets, FiniteSetsExt

CONSTANTS MaxPopens,        \* calls of popen
          MaxPopenFaults    \* of them, calls in which something fails

ASSUME PopenAssumption == MaxPopens \in Nat /\ MaxPopenFaults \in Nat

VARIABLES fdtab,      \* fdtab[fd]: what the program has open
          childpid,   \* childpid[fd]: the command of the stream fd, 0 if there is none
          cmds,       \* cmds[k]: the command of the k-th call
          npopen,     \* calls so far
          pcloses,    \* the command pclose waits for, 0 if it does not
          lost,       \* pipes of calls that failed
          pfaults     \* failures so far

popenVars == <<fdtab, childpid, cmds, npopen, pcloses, lost, pfaults>>

maxfd == 3 + 2 * MaxPopens
Fds == 0..(maxfd - 1)
Calls == 1..MaxPopens
Closed == [pipe |-> 0, end |-> "closed"]
Std == [pipe |-> 0, end |-> "std"]
End(k, end) == [pipe |-> k, end |-> end]

PopenInit ==
    /\ fdtab = [fd \in Fds |-> IF fd < 3 THEN Std ELSE Closed]
    /\ childpid = [fd \in Fds |-> 0]
    /\ cmds = [k \in Calls |-> [pc |-> "none", type |-> "none", fds |-> [fd \in Fds |-> Closed]]]
    /\ npopen = 0
    /\ pcloses = 0
    /\ lost = {}
    /\ pfaults = 0

PopenFault == pfaults < MaxPopenFaults /\ pfaults' = pfaults + 1

Close(tab, fd) == [tab EXCEPT ![fd] = Closed]
Dup2(tab, from, to) == [tab EXCEPT ![to] = tab[from]]
\* Mutant: the child keeps the streams of earlier calls.
MutInherit(tab, type, pfd0, pfd1) ==
    IF type = "r" THEN Close(Dup2(Close(tab, pfd0), pfd1, 1), pfd1)
                  ELSE Close(Dup2(Close(tab, pfd1), pfd0, 0), pfd0)

\* The child between fork and execl: its end of the pipe becomes standard input
\* or output, and the streams of earlier calls are closed.
ChildFds(tab, type, pfd0, pfd1) ==
    LET mine == IF type = "r" THEN Close(Dup2(Close(tab, pfd0), pfd1, 1), pfd1)
                              ELSE Close(Dup2(Close(tab, pfd1), pfd0, 0), pfd0)
    IN  [fd \in Fds |-> IF childpid[fd] > 0 THEN Closed ELSE mine[fd]]

\* popen(cmdstring, type).
popen(type) ==
    /\ pcloses = 0 /\ npopen < MaxPopens
    /\ LET k == npopen + 1
           free == {fd \in Fds : fdtab[fd] = Closed}
           pfd0 == Min(free)
           pfd1 == Min(free \ {pfd0})
           both == [fdtab EXCEPT ![pfd0] = End(k, "r"), ![pfd1] = End(k, "w")]
           fp == IF type = "r" THEN pfd0 ELSE pfd1
           parent == Close(both, IF type = "r" THEN pfd1 ELSE pfd0)
           cmd(pc) == [cmds EXCEPT ![k] = [pc |-> pc, type |-> type, fds |-> ChildFds(both, type, pfd0, pfd1)]]
       IN  /\ npopen' = k
           /\ \/ \E pc \in {"run", "exit"} :            \* execl, or _exit(127)
                    /\ pc = "exit" => PopenFault
                    /\ pc = "run" => UNCHANGED pfaults
                    /\ fdtab' = parent
                    /\ cmds' = cmd(pc)
                    /\ childpid' = [childpid EXCEPT ![fp] = k]
                    /\ UNCHANGED lost
              \/ /\ PopenFault                          \* fork fails: the pipe stays open
                 /\ fdtab' = both
                 /\ lost' = lost \cup {k}
                 /\ UNCHANGED <<cmds, childpid>>
              \/ /\ PopenFault                          \* fdopen fails: so does our end
                 /\ fdtab' = parent
                 /\ cmds' = cmd("run")
                 /\ lost' = lost \cup {k}
                 /\ UNCHANGED childpid
    /\ UNCHANGED pcloses

\* pclose(fp) up to waitpid; if fclose fails nobody waits for the command.
pclose(fd) ==
    /\ pcloses = 0 /\ childpid[fd] # 0
    /\ childpid' = [childpid EXCEPT ![fd] = 0]
    /\ fdtab' = Close(fdtab, fd)
    /\ \/ pcloses' = childpid[fd] /\ UNCHANGED pfaults
       \/ PopenFault /\ UNCHANGED pcloses
    /\ UNCHANGED <<cmds, npopen, lost>>

\* waitpid returns the status of the command.
WaitpidReturns ==
    /\ pcloses # 0 /\ cmds[pcloses].pc = "exit"
    /\ cmds' = [cmds EXCEPT ![pcloses].pc = "waited"]
    /\ pcloses' = 0
    /\ UNCHANGED <<fdtab, childpid, npopen, lost, pfaults>>

\* Somebody has this end of the pipe of call k open.
HeldOpen(k, end) == \/ \E fd \in Fds : fdtab[fd] = End(k, end)
                    \/ \E j \in Calls : cmds[j].pc = "run" /\ \E fd \in Fds : cmds[j].fds[fd] = End(k, end)

CommandExits(k) ==
    /\ cmds[k].pc = "run"
    /\ cmds' = [cmds EXCEPT ![k] = [@ EXCEPT !.pc = "exit", !.fds = [fd \in Fds |-> Closed]]]
    /\ UNCHANGED <<fdtab, childpid, npopen, pcloses, lost, pfaults>>

\* The end of its input, or SIGPIPE.
OtherEndIsClosed(k) == ~HeldOpen(k, IF cmds[k].type = "w" THEN "w" ELSE "r")

PopenNext == \/ \E type \in {"r", "w"} : popen(type)
             \/ \E fd \in Fds : pclose(fd)
             \/ WaitpidReturns
             \/ \E k \in Calls : CommandExits(k)

\* A command whose stream has ended exits, and waitpid then returns.
PopenFairness == /\ WF_popenVars(WaitpidReturns)
                 /\ \A k \in Calls : WF_popenVars(OtherEndIsClosed(k) /\ CommandExits(k))

PopenSpec == PopenInit /\ [][PopenNext]_popenVars /\ PopenFairness

----------------------------------------------------------------------------
\* A command has its end of its own pipe, as standard input or output, and no
\* end of the pipe of another stream the program has or had: popen closes them
\* in the child (childpid[]).  Only the descriptors that a failed fork or
\* fdopen left open are inherited.
CommandsHaveTheirOwnPipe ==
    \A k \in Calls : cmds[k].pc = "run" =>
       /\ cmds[k].fds[IF cmds[k].type = "w" THEN 0 ELSE 1] = End(k, IF cmds[k].type = "w" THEN "r" ELSE "w")
       /\ \A fd \in Fds : cmds[k].fds[fd].pipe \in {0, k} \cup (lost \ {k})
       /\ Cardinality({fd \in Fds : cmds[k].fds[fd].pipe = k}) = 1

\* pclose returns, in whatever order the streams are closed: it closes the last
\* descriptor of its pipe, so the command it waits for comes to its end.
PcloseReturns == (pcloses # 0) ~> (pcloses = 0)

============================================================================
