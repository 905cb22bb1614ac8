------------------------------ MODULE Terminal ------------------------------
(* lib/ttymodes.c and the programs that use it: termios/t_raw.c, which puts   *)
(* the terminal into raw and then into cbreak mode and restores it from a     *)
(* signal handler too, and pty (pty/main.c, pty/loop.c), which runs a program *)
(* on a pseudo terminal with two processes that copy between it and the       *)
(* user's terminal.  Terminal calls fail, succeed in part, or are undone      *)
(* without success.  The signals that t_raw catches, and SIGTERM from outside *)
(* at either process of pty, come at any step; signals that neither program   *)
(* catches (SIGKILL, SIGHUP) and the driver of pty are left out.              *)
EXTENDS Naturals

CONSTANTS MaxInput,      \* characters on pty's standard input
          MaxTtyFaults   \* terminal and library calls that fail

ASSUME TerminalAssumption == MaxInput \in Nat /\ MaxTtyFaults \in Nat

VARIABLES use,        \* the program that runs, and the options of pty
          term,       \* the modes of the user's terminal
          main,       \* where the program (in pty: the parent) is
          copier,     \* where pty's child, which copies the input, is
          tty,        \* tty[who]: [ttystate, save_termios] of process who
          sigterm,    \* SIGTERM at pty's parent: pending, caught; who got one
                      \* from outside: at most one for each process
          slave,      \* the program on the pseudo terminal and its data
          ttyFaults,  \* failures so far
          spoiled     \* the terminal cannot be restored any more

ttyVars == <<use, term, main, copier, tty, sigterm, slave, ttyFaults, spoiled>>

TtyProcs == {"main", "copier"}
Fresh0 == [ttystate |-> "RESET", save_termios |-> "orig"]
Ended == {"idle", "exit", "failed", "killed"}

TtyInit ==
    /\ use = [name |-> "none", raw |-> FALSE, ignoreeof |-> FALSE]
    /\ term = "orig"
    /\ main = "idle"
    /\ copier = "idle"
    /\ tty = [who \in TtyProcs |-> Fresh0]
    /\ sigterm = [pending |-> FALSE, caught |-> FALSE, outside |-> {}]
    /\ slave = [runs |-> FALSE, input |-> 0, toSlave |-> 0, output |-> 0]
    /\ ttyFaults = 0
    /\ spoiled = FALSE

TtyFault == ttyFaults < MaxTtyFaults /\ ttyFaults' = ttyFaults + 1

\* main of t_raw, or of pty: pty makes the terminal raw if its input is one
\* and no driver was asked for.
StartTty ==
    /\ use.name = "none"
    /\ \/ /\ use' = [name |-> "t_raw", raw |-> TRUE, ignoreeof |-> FALSE]
          /\ main' = "tty_raw"
          /\ UNCHANGED slave
       \/ \E raw, ignoreeof \in BOOLEAN :
             /\ use' = [name |-> "pty", raw |-> raw, ignoreeof |-> ignoreeof]
             /\ main' = IF raw THEN "tty_raw" ELSE "fork"
             /\ slave' = [slave EXCEPT !.runs = TRUE]
    /\ UNCHANGED <<term, copier, tty, sigterm, ttyFaults, spoiled>>

----------------------------------------------------------------------------
(* ttymodes.c *)

\* tty_raw, tty_cbreak up to the first tcsetattr: it fails, or it makes all or
\* only some of the changes and returns 0.
TtySet(mode, from, to) ==
    /\ main = from /\ tty["main"].ttystate = "RESET"
    /\ \/ /\ tty' = [tty EXCEPT !["main"].save_termios = term]
          /\ \/ term' = mode /\ UNCHANGED ttyFaults
             \/ term' = "partial" /\ TtyFault
          /\ main' = to
       \/ /\ TtyFault
          /\ main' = "exit"
          /\ UNCHANGED <<term, tty>>
    /\ UNCHANGED <<use, copier, sigterm, slave, spoiled>>
\* Mutant: changes that were made in part are not undone.
MutNoUndo(mode, from, to) ==
    /\ main = from
    /\ \/ /\ term = mode
          /\ tty' = [tty EXCEPT !["main"].ttystate = mode]
          /\ main' = to
       \/ /\ term # mode
          /\ main' = "exit"
          /\ UNCHANGED tty
    /\ UNCHANGED <<use, term, copier, sigterm, slave, ttyFaults, spoiled>>

\* The changes are verified: undone if they are not all there, recorded in
\* ttystate if they are.
TtyVerify(mode, from, to) ==
    /\ main = from
    /\ \/ /\ term = mode
          /\ tty' = [tty EXCEPT !["main"].ttystate = mode]
          /\ main' = to
          /\ UNCHANGED <<term, ttyFaults, spoiled>>
       \/ /\ IF term = mode THEN TtyFault ELSE UNCHANGED ttyFaults
          /\ term' = tty["main"].save_termios
          /\ main' = "exit"
          /\ UNCHANGED <<tty, spoiled>>
       \/ /\ term # mode /\ TtyFault     \* the undoing fails too
          /\ spoiled' = TRUE
          /\ main' = "exit"
          /\ UNCHANGED <<term, tty>>
    /\ UNCHANGED <<use, copier, sigterm, slave>>

\* tty_reset in process who.  ttystate is set after the terminal.
tty_reset(who) ==
    \/ /\ tty[who].ttystate = "RESET"
       /\ UNCHANGED <<term, tty, ttyFaults, spoiled>>
    \/ /\ tty[who].ttystate # "RESET"
       /\ term' = tty[who].save_termios
       /\ tty' = [tty EXCEPT ![who].ttystate = "RESET"]
       /\ UNCHANGED <<ttyFaults, spoiled>>
    \/ /\ tty[who].ttystate # "RESET" /\ TtyFault
       /\ spoiled' = TRUE
       /\ UNCHANGED <<term, tty>>

\* exit: tty_atexit resets the terminal if tty_raw succeeded before.
tty_atexit(who) == tty_reset(who)

----------------------------------------------------------------------------
(* t_raw.c *)

\* A reading loop ends, by DELETE or by an error, and the terminal is reset; a
\* failing tty_reset ends the program.
ReadEnds(from, to) ==
    /\ use.name = "t_raw" /\ main = from
    /\ tty_reset("main")
    /\ main' \in IF spoiled' THEN {"exit"} ELSE {to, "exit"}
    /\ UNCHANGED <<use, copier, sigterm, slave>>

\* The handler of SIGINT, SIGQUIT and SIGTERM.  In the middle of tty_raw or
\* tty_cbreak it finds ttystate still RESET and leaves the terminal as it is.
sig_catch ==
    /\ use.name = "t_raw" /\ main \notin Ended
    /\ IF main \in {"verify raw", "verify cbreak"}
         THEN spoiled' = TRUE /\ UNCHANGED <<term, tty, ttyFaults>>
         ELSE tty_reset("main")
    /\ main' = "exit"
    /\ UNCHANGED <<use, copier, sigterm, slave>>

tty_raw == \/ TtySet("raw", "tty_raw", "verify raw")
           \/ TtyVerify("raw", "verify raw", IF use.name = "pty" THEN "atexit" ELSE "read raw")
tty_cbreak == \/ TtySet("cbreak", "tty_cbreak", "verify cbreak")
              \/ TtyVerify("cbreak", "verify cbreak", "read cbreak")

RawProgram == tty_raw \/ ReadEnds("read raw", "tty_cbreak") \/ tty_cbreak \/ ReadEnds("read cbreak", "exit")

----------------------------------------------------------------------------
(* pty *)

AtexitCall ==
    /\ main = "atexit"
    /\ \/ main' = "fork" /\ UNCHANGED <<ttyFaults, spoiled>>
       \/ TtyFault /\ spoiled' = TRUE /\ main' = "exit"
    /\ UNCHANGED <<use, term, copier, tty, sigterm, slave>>

\* loop: the child copies standard input to the pseudo terminal.  It has its
\* own copy of ttystate, and the parent's exit handler.
ForkCopier ==
    /\ main = "fork"
    /\ main' = "handler"
    /\ copier' = "read"
    /\ tty' = [tty EXCEPT !["copier"] = tty["main"]]
    /\ UNCHANGED <<use, term, sigterm, slave, ttyFaults, spoiled>>

\* signal_intr(SIGTERM, sig_term).
Handler ==
    /\ main = "handler"
    /\ main' = "read"
    /\ UNCHANGED <<use, term, copier, tty, sigterm, slave, ttyFaults, spoiled>>

\* A process that SIGTERM kills restores nothing: that is left to the other one,
\* unless that was never started or was killed before.
Killed(other) == spoiled' = (spoiled \/ (term # "orig" /\ other \in {"idle", "killed"}))

\* SIGTERM from outside: the parent has it pending, and the child, which does
\* not catch it, is killed.
OutsideSigterm ==
    \/ /\ use.name = "pty" /\ main \notin Ended /\ "main" \notin sigterm.outside
       /\ sigterm' = [sigterm EXCEPT !.pending = TRUE, !.outside = @ \cup {"main"}]
       /\ UNCHANGED <<use, term, main, copier, tty, slave, ttyFaults, spoiled>>
    \/ /\ copier \notin Ended
       /\ sigterm' = [sigterm EXCEPT !.outside = @ \cup {"copier"}]
       /\ copier' = "killed"
       /\ Killed(main)
       /\ UNCHANGED <<use, term, main, tty, slave, ttyFaults>>

\* Until its handler is there, SIGTERM kills the parent too: in tty_raw and
\* before the fork with the terminal as it is.
ParentKilled ==
    /\ use.name = "pty" /\ sigterm.pending
    /\ main \in {"tty_raw", "verify raw", "atexit", "fork", "handler"}
    /\ main' = "killed"
    /\ Killed(copier)
    /\ UNCHANGED <<use, term, copier, tty, sigterm, slave, ttyFaults>>

\* The parent reads the pseudo terminal: data, or its end when the program on
\* it is gone.
ReadMaster ==
    /\ main = "read"
    /\ \/ /\ slave.output > 0
          /\ slave' = [slave EXCEPT !.output = @ - 1]
          /\ main' = "write"
       \/ /\ slave.output = 0 /\ ~slave.runs
          /\ main' = "done"
          /\ UNCHANGED slave
    /\ UNCHANGED <<use, term, copier, tty, sigterm, ttyFaults, spoiled>>

\* writen to standard output; an error exits, through the exit handler, and
\* leaves the child behind.
WriteStdout ==
    /\ main = "write"
    /\ \/ main' = "read" /\ UNCHANGED <<term, tty, ttyFaults, spoiled>>
       \/ TtyFault /\ main' = "err_sys" /\ UNCHANGED <<term, tty, spoiled>>
    /\ UNCHANGED <<use, copier, sigterm, slave>>

\* sig_term only sets a flag: it ends the read it interrupts, and is not
\* noticed anywhere else.
sig_term ==
    /\ sigterm.pending /\ main \in {"read", "write", "done"}
    /\ sigterm' = [sigterm EXCEPT !.pending = FALSE, !.caught = TRUE]
    /\ main' = IF main = "read" /\ slave.output = 0 /\ slave.runs THEN "done" ELSE main
    /\ UNCHANGED <<use, term, copier, tty, slave, ttyFaults, spoiled>>

\* The end of loop and of main: the child is told unless it told us, or someone
\* else sent the signal that was caught.
LoopEnds ==
    /\ main \in {"done", "err_sys"} /\ use.name = "pty"
    /\ copier' = IF main = "done" /\ ~sigterm.caught /\ copier \notin Ended THEN "killed" ELSE copier
    /\ IF use.raw THEN tty_atexit("main") ELSE UNCHANGED <<term, tty, ttyFaults, spoiled>>
    /\ main' = IF main = "done" THEN "exit" ELSE "failed"
    /\ UNCHANGED <<use, sigterm, slave>>

\* The child reads a character or the end of standard input.  At the end it
\* exits, after telling the parent unless ignoreeof is set; it exits and tells
\* nobody when the read fails, or a write because the program is gone.
CopierStep ==
    /\ \/ /\ copier = "read" /\ slave.input < MaxInput
          /\ \/ /\ slave.runs
                /\ slave' = [slave EXCEPT !.input = @ + 1, !.toSlave = @ + 1]
                /\ UNCHANGED copier
             \/ /\ ~slave.runs
                /\ copier' = "exiting"
                /\ UNCHANGED slave
          /\ UNCHANGED <<sigterm, term, tty, ttyFaults, spoiled>>
       \/ /\ copier = "read"
          /\ copier' = "exiting"
          /\ \/ /\ sigterm' = [sigterm EXCEPT !.pending = @ \/ (~use.ignoreeof /\ main \notin Ended)]
                /\ UNCHANGED ttyFaults
             \/ TtyFault /\ UNCHANGED sigterm
          /\ UNCHANGED <<slave, term, tty, spoiled>>
       \/ /\ copier = "exiting"
          /\ copier' = "exit"
          /\ IF use.raw THEN tty_atexit("copier") ELSE UNCHANGED <<term, tty, ttyFaults, spoiled>>
          /\ UNCHANGED <<slave, sigterm>>
    /\ UNCHANGED <<use, main>>

\* The program on the pseudo terminal: input echoed as output, or its end.
SlaveStep ==
    /\ slave.runs
    /\ \/ slave.toSlave > 0 /\ slave' = [slave EXCEPT !.toSlave = @ - 1, !.output = @ + 1]
       \/ slave' = [slave EXCEPT !.runs = FALSE, !.toSlave = 0]
    /\ UNCHANGED <<use, term, main, copier, tty, sigterm, ttyFaults, spoiled>>

PtyParent == AtexitCall \/ ForkCopier \/ Handler \/ ReadMaster \/ WriteStdout \/ LoopEnds

TtyNext == \/ StartTty \/ RawProgram \/ sig_catch
           \/ PtyParent \/ OutsideSigterm \/ ParentKilled \/ sig_term \/ CopierStep \/ SlaveStep

\* The processes run and signals are delivered.  Nothing is assumed of the
\* user's input or of the program on the pseudo terminal.
TtyFairness == /\ WF_ttyVars(use.name = "pty" /\ RawProgram)
               /\ WF_ttyVars(PtyParent)
               /\ WF_ttyVars(sig_term)
               /\ WF_ttyVars(copier = "exiting" /\ CopierStep)

TtySpec == TtyInit /\ [][TtyNext]_ttyVars /\ TtyFairness

----------------------------------------------------------------------------
\* The user gets the terminal back: once the program and its child have ended,
\* the modes are the original ones, whichever of them ended first, by itself or
\* by a signal of the header.  Not so, and left out: a call that restores the
\* terminal or registers the exit handler fails; a signal finds t_raw between
\* tcsetattr and the assignment of ttystate; SIGTERM kills pty's parent between
\* its tcsetattr and its fork, or both processes of pty before the handler.
TerminalIsRestored ==
    (main \in Ended /\ copier \in Ended /\ ~spoiled) => term = "orig"

\* When the program on the pseudo terminal has ended, pty ends, parent and
\* child.  Two parents leave the child behind, and are left out: one that could
\* not write to standard output, and one that SIGTERM from outside killed, or
\* whose handler takes it for the child's.
PtyEnds ==
    (use.name = "pty" /\ ~slave.runs)
        ~> (main \in Ended /\ (copier \in Ended \/ main = "failed" \/ "main" \in sigterm.outside))

============================================================================
