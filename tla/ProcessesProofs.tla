-------------------------- MODULE ProcessesProofs --------------------------
(***************************************************************************)
(* Proofs about the programs that are processes: the terminal modes and    *)
(* their users (Terminal), the response of the printer (PrinterStatus),    *)
(* asynchronous I/O (Rot13), the semaphore library (Semaph), popen (Popen) *)
(* and parent and child (TellWait); and about the memory stream            *)
(* (MemStream).                                                            *)
(***************************************************************************)
EXTENDS Terminal, PrinterStatus, Rot13, Semaph, Popen, TellWait, MemStream,
        FiniteSetTheorems, SequenceTheorems, WellFoundedInduction, TLAPS

-----------------------------------------------------------------------------
(* Terminal: ttymodes.c, t_raw.c and pty. *)

Modes == {"orig", "raw", "cbreak", "partial"}
Verifying == {"verify raw", "verify cbreak"}
InTtymodes == {"tty_raw", "tty_cbreak"} \cup Verifying
InLoop == {"handler", "read", "write", "done", "err_sys"}

TtyTypes ==
    /\ use \in [name : {"none", "t_raw", "pty"}, raw : BOOLEAN, ignoreeof : BOOLEAN]
    /\ term \in Modes
    /\ main \in {"idle", "read raw", "read cbreak", "atexit", "fork", "exit", "failed", "killed"} \cup InTtymodes \cup InLoop
    /\ copier \in {"idle", "read", "exiting", "exit", "killed"}
    /\ tty \in [TtyProcs -> [ttystate : {"RESET", "raw", "cbreak"}, save_termios : Modes]]
    /\ sigterm \in [pending : BOOLEAN, caught : BOOLEAN, outside : SUBSET TtyProcs]
    /\ spoiled \in BOOLEAN

\* Which program is where: the child is there only after the fork of pty.
TtyPoints ==
    /\ use.name = "none" <=> main = "idle"
    /\ main \in {"read raw", "read cbreak", "tty_cbreak", "verify cbreak"} => use.name = "t_raw"
    /\ main \in {"atexit", "fork", "failed", "killed"} \cup InLoop => use.name = "pty"
    /\ main \in InTtymodes \cup {"atexit"} \/ use.name = "t_raw" => use.raw
    /\ copier # "idle" => use.name = "pty" /\ main \in InLoop \cup {"exit", "failed", "killed"}

\* Until something spoiled it, the terminal can be restored: the modes that were
\* saved are the original ones, whoever has ttystate set will restore them, a
\* process that has not changed the terminal has it in its original modes, and a
\* parent that was killed leaves it so or leaves a child that will restore it.
Restorable ==
    /\ \A who \in TtyProcs : tty[who].ttystate # "RESET" => tty[who].save_termios = "orig"
    /\ main \in Verifying => tty["main"].save_termios = "orig"
    /\ main \in InTtymodes \cup {"idle", "exit", "failed"} => tty["main"].ttystate = "RESET"
    /\ tty["main"].ttystate = "RESET" /\ main \notin Verifying => term = "orig"
    /\ main = "killed" /\ copier \in {"idle", "killed"} => term = "orig"
    /\ use.name = "pty" /\ ~use.raw => term = "orig"
    /\ main \in {"atexit", "fork"} \cup InLoop => (use.raw <=> tty["main"].ttystate # "RESET")
    /\ copier \in {"read", "exiting"} => (use.raw <=> tty["copier"].ttystate # "RESET")
    /\ copier = "exit" => term = "orig"

TtyInv == TtyTypes /\ TtyPoints /\ (~spoiled => Restorable)

\* ttymodes.c keeps the invariant: tty_raw and tty_cbreak, from the first
\* tcsetattr to the assignment of ttystate.
LEMMA TtySetKeeps ==
    ASSUME TtyInv, NEW mode \in {"raw", "cbreak"},
           NEW from \in {"tty_raw", "tty_cbreak"}, NEW to \in Verifying,
           from = "tty_raw" <=> to = "verify raw", TtySet(mode, from, to)
    PROVE  TtyInv'
<1> USE DEF TtyInv, TtyTypes, InTtymodes, InLoop, Verifying, Modes, TtyProcs
<1>1. /\ main = from /\ tty["main"].ttystate = "RESET" /\ UNCHANGED <<use, copier, sigterm, spoiled>>
    BY DEF TtySet
<1>2. CASE main' = to
  <2>1. /\ tty' = [tty EXCEPT !["main"].save_termios = term] /\ term' \in Modes
    BY <1>2, <1>1 DEF TtySet
  <2>2. /\ tty' \in [TtyProcs -> [ttystate : {"RESET", "raw", "cbreak"}, save_termios : Modes]]
        /\ tty'["main"].save_termios = term /\ tty'["main"].ttystate = "RESET"
        /\ tty'["copier"] = tty["copier"]
    BY <2>1, <1>1
  <2>3. TtyTypes' /\ TtyPoints'
    BY <1>1, <1>2, <2>1, <2>2 DEF TtyPoints
  <2>4. ASSUME ~spoiled PROVE Restorable'
    BY <1>1, <1>2, <2>2, <2>4 DEF Restorable, TtyPoints
  <2> QED
    BY <1>1, <2>3, <2>4
<1>3. CASE main' = "exit"
  <2>1. UNCHANGED <<term, tty>>
    BY <1>3, <1>1 DEF TtySet
  <2>2. TtyTypes' /\ TtyPoints'
    BY <1>1, <1>3, <2>1 DEF TtyPoints
  <2>3. ASSUME ~spoiled PROVE Restorable'
    BY <1>1, <1>3, <2>1, <2>3 DEF Restorable, TtyPoints
  <2> QED
    BY <1>1, <2>2, <2>3
<1> QED
    BY <1>2, <1>3 DEF TtySet

\* ... and its end: the changes are recorded, undone, or neither.
LEMMA TtyVerifyKeeps ==
    ASSUME TtyInv, NEW mode \in {"raw", "cbreak"}, NEW from \in Verifying,
           NEW to \in {"atexit", "read raw", "read cbreak"},
           from = "verify cbreak" => to = "read cbreak",
           from = "verify raw" => to = IF use.name = "pty" THEN "atexit" ELSE "read raw",
           TtyVerify(mode, from, to)
    PROVE  TtyInv'
<1> USE DEF TtyInv, TtyTypes, InTtymodes, InLoop, Verifying, Modes, TtyProcs
<1>1. /\ main = from /\ UNCHANGED <<use, copier, sigterm>>
    BY DEF TtyVerify
<1>2. CASE main' = to
  <2>1. tty' = [tty EXCEPT !["main"].ttystate = mode] /\ UNCHANGED <<term, spoiled>>
    BY <1>2 DEF TtyVerify
  <2>2. /\ tty' \in [TtyProcs -> [ttystate : {"RESET", "raw", "cbreak"}, save_termios : Modes]]
        /\ tty'["main"].save_termios = tty["main"].save_termios /\ tty'["main"].ttystate = mode
        /\ tty'["copier"] = tty["copier"]
    BY <2>1, <1>1
  <2>3. TtyTypes' /\ TtyPoints'
    BY <1>1, <1>2, <2>1, <2>2 DEF TtyPoints
  <2>4. ASSUME ~spoiled PROVE Restorable'
    BY <1>1, <1>2, <2>1, <2>2, <2>4 DEF Restorable, TtyPoints
  <2> QED
    BY <1>1, <2>1, <2>3, <2>4
<1>3. CASE main' = "exit"
  <2>1. UNCHANGED tty /\ spoiled' \in BOOLEAN /\ (~spoiled' => ~spoiled /\ term' = tty["main"].save_termios)
    BY <1>3 DEF TtyVerify
  <2>2. term' \in Modes
    BY <1>3 DEF TtyVerify
  <2>3. TtyTypes' /\ TtyPoints'
    BY <1>1, <1>3, <2>1, <2>2 DEF TtyPoints
  <2>4. ASSUME ~spoiled' PROVE Restorable'
    BY <1>1, <1>3, <2>1, <2>4 DEF Restorable, TtyPoints
  <2> QED
    BY <2>3, <2>4
<1> QED
    BY <1>2, <1>3 DEF TtyVerify

\* What tty_reset does: it restores what was saved, or spoils the terminal, or
\* there was nothing to restore.
LEMMA TtyResets ==
    ASSUME TtyInv, NEW who \in TtyProcs, tty_reset(who)
    PROVE  /\ tty' \in [TtyProcs -> [ttystate : {"RESET", "raw", "cbreak"}, save_termios : Modes]]
           /\ term' \in Modes /\ spoiled' \in BOOLEAN
           /\ \A u \in TtyProcs : u # who => tty'[u] = tty[u]
           /\ ~spoiled' => ~spoiled /\ tty'[who].ttystate = "RESET"
           /\ ~spoiled' /\ tty[who].ttystate # "RESET" => term' = "orig"
           /\ ~spoiled' /\ tty[who].ttystate = "RESET" => term' = term
<1> USE DEF TtyInv, TtyTypes, Modes
<1>1. CASE tty[who].ttystate = "RESET"
    BY <1>1 DEF tty_reset
<1>2. CASE tty[who].ttystate # "RESET" /\ tty' = [tty EXCEPT ![who].ttystate = "RESET"]
  <2>1. UNCHANGED <<ttyFaults, spoiled>> /\ term' = tty[who].save_termios
    BY <1>2, ZenonT(30) DEF tty_reset
  <2>2. ~spoiled => tty[who].save_termios = "orig"
    BY <1>2 DEF Restorable
  <2> QED
    BY <1>2, <2>1, <2>2
<1>3. CASE tty[who].ttystate # "RESET" /\ UNCHANGED <<term, tty>> /\ spoiled' = TRUE
    BY <1>3
<1> QED
    BY <1>1, <1>2, <1>3 DEF tty_reset

\* Every step keeps the invariant.
LEMMA TtyInvStep == TtyInv /\ [TtyNext]_ttyVars => TtyInv'
<1> SUFFICES ASSUME TtyInv, [TtyNext]_ttyVars PROVE TtyInv'
    OBVIOUS
<1> USE DEF TtyInv, TtyTypes, InTtymodes, InLoop, Verifying, Modes, TtyProcs
<1>1. CASE StartTty
  <2>1. /\ use.name = "none" /\ main = "idle" /\ copier = "idle" /\ UNCHANGED <<term, copier, tty, sigterm, spoiled>>
        /\ use'.name \in {"t_raw", "pty"} /\ use'.name # "none" /\ main' \in {"tty_raw", "fork"}
    BY <1>1 DEF StartTty, TtyPoints
  <2>2. PICK raw \in BOOLEAN, eof \in BOOLEAN, name \in {"t_raw", "pty"} :
               /\ use' = [name |-> name, raw |-> raw, ignoreeof |-> eof]
               /\ main' = (IF raw THEN "tty_raw" ELSE "fork") /\ (name = "t_raw" => raw)
    <3>1. CASE use' = [name |-> "t_raw", raw |-> TRUE, ignoreeof |-> FALSE] /\ main' = "tty_raw"
      BY <3>1
    <3>2. CASE \E raw, ignoreeof \in BOOLEAN :
                  /\ use' = [name |-> "pty", raw |-> raw, ignoreeof |-> ignoreeof]
                  /\ main' = IF raw THEN "tty_raw" ELSE "fork"
      BY <3>2, Zenon
    <3> QED
      BY <1>1, <3>1, <3>2 DEF StartTty
  <2>3. /\ use' \in [name : {"none", "t_raw", "pty"}, raw : BOOLEAN, ignoreeof : BOOLEAN]
        /\ use'.name = name /\ use'.raw = raw
    BY <2>2
  <2>4. TtyTypes' /\ TtyPoints'
    <3>1. CASE raw
      BY <2>1, <2>2, <2>3, <3>1 DEF TtyPoints
    <3>2. CASE ~raw
      BY <2>1, <2>2, <2>3, <3>2 DEF TtyPoints
    <3> QED
      BY <3>1, <3>2
  <2>5. ASSUME ~spoiled PROVE Restorable'
    BY <2>1, <2>2, <2>3, <2>5 DEF Restorable
  <2> QED
    BY <2>1, <2>4, <2>5
<1>2. CASE tty_raw
    BY <1>2, TtySetKeeps, TtyVerifyKeeps DEF tty_raw
<1>3. CASE tty_cbreak
    BY <1>3, TtySetKeeps, TtyVerifyKeeps DEF tty_cbreak
<1>4. ASSUME NEW from \in {"read raw", "read cbreak"}, NEW to \in {"tty_cbreak", "exit"}, ReadEnds(from, to)
      PROVE  TtyInv'
  <2>1. /\ use.name = "t_raw" /\ main = from /\ tty_reset("main") /\ UNCHANGED <<use, copier, sigterm>>
        /\ main' \in {to, "exit"} /\ copier = "idle"
    BY <1>4 DEF ReadEnds, TtyPoints
  <2>2. /\ tty' \in [TtyProcs -> [ttystate : {"RESET", "raw", "cbreak"}, save_termios : Modes]]
        /\ term' \in Modes /\ spoiled' \in BOOLEAN
        /\ tty'["copier"] = tty["copier"]
        /\ ~spoiled' => ~spoiled /\ tty'["main"].ttystate = "RESET"
        /\ ~spoiled' => term' = "orig"
    BY <2>1, TtyResets DEF Restorable
  <2>3. TtyTypes' /\ TtyPoints'
    BY <2>1, <2>2, <1>4 DEF TtyPoints
  <2>4. ASSUME ~spoiled' PROVE Restorable'
    BY <2>1, <2>2, <2>4, <1>4 DEF Restorable
  <2> QED
    BY <2>3, <2>4
<1>5. CASE sig_catch
  <2>1. /\ use.name = "t_raw" /\ UNCHANGED <<use, copier, sigterm>> /\ main' = "exit" /\ main \notin Ended /\ copier = "idle"
    BY <1>5 DEF sig_catch, TtyPoints
  <2>2. CASE main \in Verifying
    BY <1>5, <2>1, <2>2 DEF sig_catch, TtyPoints
  <2>3. CASE main \notin Verifying
    <3>1. tty_reset("main")
      BY <1>5, <2>3 DEF sig_catch
    <3> QED
      BY <3>1, <2>1, <2>3, TtyResets DEF TtyPoints, Restorable
  <2> QED
    BY <2>2, <2>3
<1>6. CASE AtexitCall
    BY <1>6 DEF AtexitCall, TtyFault, TtyPoints, Restorable
<1>7. CASE ForkCopier
  <2>1. /\ main = "fork" /\ main' = "handler" /\ copier' = "read" /\ UNCHANGED <<use, term, sigterm, spoiled>>
        /\ tty' = [tty EXCEPT !["copier"] = tty["main"]]
    BY <1>7 DEF ForkCopier
  <2>2. /\ tty' \in [TtyProcs -> [ttystate : {"RESET", "raw", "cbreak"}, save_termios : Modes]]
        /\ tty'["main"] = tty["main"] /\ tty'["copier"] = tty["main"]
    BY <2>1
  <2>3. TtyTypes' /\ TtyPoints'
    BY <2>1, <2>2 DEF TtyPoints
  <2>4. ASSUME ~spoiled PROVE Restorable'
    BY <2>1, <2>2, <2>4 DEF Restorable
  <2> QED
    BY <2>1, <2>3, <2>4
<1>8. CASE Handler
    BY <1>8 DEF Handler, TtyPoints, Restorable
<1>9. CASE ReadMaster
    BY <1>9, ZenonT(30) DEF ReadMaster, TtyPoints, Restorable
<1>10. CASE WriteStdout
    BY <1>10, ZenonT(30) DEF WriteStdout, TtyFault, TtyPoints, Restorable
<1>11. CASE LoopEnds
  <2>1. /\ main \in {"done", "err_sys"} /\ use.name = "pty" /\ main' \in {"exit", "failed"} /\ UNCHANGED <<use, sigterm>>
        /\ copier' \in {copier, "killed"}
        /\ copier = "exit" => copier' = "exit"
    BY <1>11, ZenonT(30) DEF LoopEnds, Ended
  <2>2. CASE use.raw
    <3>1. tty_reset("main")
      BY <1>11, <2>2 DEF LoopEnds, tty_atexit
    <3> QED
      BY <3>1, <2>1, <2>2, TtyResets, ZenonT(30) DEF TtyPoints, Restorable
  <2>3. CASE ~use.raw
    <3>1. UNCHANGED <<term, tty, spoiled>>
      BY <1>11, <2>3 DEF LoopEnds
    <3> QED
      BY <3>1, <2>1, <2>3 DEF TtyPoints, Restorable
  <2> QED
    BY <2>2, <2>3
<1>12. CASE sig_term
    BY <1>12 DEF sig_term, TtyPoints, Restorable
<1>13. CASE CopierStep /\ copier = "read"
  <2>1. /\ copier' \in {"read", "exiting"} /\ UNCHANGED <<use, main, term, tty, spoiled>>
        /\ copier' = "read" => UNCHANGED sigterm
    BY <1>13 DEF CopierStep
  <2>2. sigterm' \in [pending : BOOLEAN, caught : BOOLEAN, outside : SUBSET TtyProcs]
    BY <1>13 DEF CopierStep
  <2>3. TtyTypes' /\ TtyPoints'
    BY <1>13, <2>1, <2>2 DEF TtyPoints
  <2>4. ASSUME ~spoiled PROVE Restorable'
    BY <1>13, <2>1, <2>4 DEF Restorable
  <2> QED
    BY <2>1, <2>3, <2>4
<1>14. CASE CopierStep /\ copier = "exiting"
  <2>1. copier' = "exit" /\ UNCHANGED <<slave, sigterm, use, main>>
    BY <1>14 DEF CopierStep
  <2>2. CASE use.raw
    <3>1. tty_reset("copier")
      BY <1>14, <2>2 DEF CopierStep, tty_atexit
    <3> QED
      BY <3>1, <2>1, <2>2, <1>14, TtyResets, ZenonT(30) DEF TtyPoints, Restorable
  <2>3. CASE ~use.raw
    <3>1. UNCHANGED <<term, tty, spoiled>>
      BY <1>14, <2>3 DEF CopierStep
    <3> QED
      BY <3>1, <2>1, <2>3, <1>14 DEF TtyPoints, Restorable
  <2> QED
    BY <2>2, <2>3
<1>15. CASE SlaveStep \/ UNCHANGED ttyVars
  <2>1. UNCHANGED <<use, term, main, copier, tty, sigterm, spoiled>>
    BY <1>15 DEF SlaveStep, ttyVars
  <2>2. TtyTypes'
    <3> HIDE DEF InTtymodes, InLoop, Verifying, Modes, TtyProcs
    <3> QED
      BY <2>1
  <2>3. TtyPoints' <=> TtyPoints
    BY <2>1 DEF TtyPoints
  <2>4. Restorable' <=> Restorable
    BY <2>1 DEF Restorable
  <2> QED
    BY <2>1, <2>2, <2>3, <2>4
<1>16. CASE OutsideSigterm
  <2>1. CASE /\ use.name = "pty" /\ UNCHANGED <<use, term, main, copier, tty, slave, ttyFaults, spoiled>>
             /\ sigterm' = [sigterm EXCEPT !.pending = TRUE, !.outside = @ \cup {"main"}]
    <3>1. sigterm.outside \cup {"main"} \in SUBSET TtyProcs
      OBVIOUS
    <3>2. sigterm' \in [pending : BOOLEAN, caught : BOOLEAN, outside : SUBSET TtyProcs]
      BY <2>1, <3>1
    <3>3. TtyTypes' /\ TtyPoints'
      BY <2>1, <3>2 DEF TtyPoints
    <3>4. Restorable' <=> Restorable
      BY <2>1 DEF Restorable
    <3> QED
      BY <2>1, <3>3, <3>4
  <2>2. CASE /\ copier \notin Ended /\ copier' = "killed" /\ Killed(main) /\ UNCHANGED <<use, term, main, tty, slave, ttyFaults>>
             /\ sigterm' = [sigterm EXCEPT !.outside = @ \cup {"copier"}]
    <3>0. sigterm.outside \cup {"copier"} \in SUBSET TtyProcs
      OBVIOUS
    <3>1. /\ copier \in {"read", "exiting"} /\ copier' = "killed" /\ Killed(main) /\ UNCHANGED <<use, term, main, tty>>
          /\ sigterm' \in [pending : BOOLEAN, caught : BOOLEAN, outside : SUBSET TtyProcs]
      BY <2>2, <3>0 DEF Ended
    <3>2. TtyTypes' /\ TtyPoints'
      BY <3>1 DEF TtyPoints, Killed
    <3>3. ASSUME ~spoiled' PROVE Restorable'
      BY <3>1, <3>3 DEF Restorable, Killed
    <3> QED
      BY <3>2, <3>3
  <2> HIDE DEF TtyInv, TtyTypes, InTtymodes, InLoop, Verifying, Modes, TtyProcs
  <2> QED
    BY <1>16, <2>1, <2>2 DEF OutsideSigterm, Killed
<1>17. CASE ParentKilled
  <2>1. /\ use.name = "pty" /\ main \in {"tty_raw", "verify raw", "atexit", "fork", "handler"} /\ main' = "killed"
        /\ Killed(copier) /\ UNCHANGED <<use, term, copier, tty, sigterm>>
    BY <1>17 DEF ParentKilled
  <2>2. TtyTypes' /\ TtyPoints'
    BY <2>1 DEF TtyPoints, Killed
  <2>3. ASSUME ~spoiled' PROVE Restorable'
    BY <2>1, <2>3 DEF Restorable, Killed, TtyPoints
  <2> QED
    BY <2>2, <2>3
<1> QED
  <2>1. CopierStep => copier \in {"read", "exiting"}
    BY DEF CopierStep
  <2>2. CASE RawProgram
    BY <2>2, <1>2, <1>3, <1>4 DEF RawProgram
  <2>3. CASE PtyParent
    BY <2>3, <1>6, <1>7, <1>8, <1>9, <1>10, <1>11 DEF PtyParent
  <2> HIDE DEF TtyInv, TtyTypes, InTtymodes, InLoop, Verifying, Modes, TtyProcs
  <2>4. CASE CopierStep
    BY <2>1, <2>4, <1>13, <1>14
  <2>5. CASE SlaveStep \/ UNCHANGED ttyVars
    BY <2>5, <1>15
  <2> QED
    BY <2>2, <2>3, <2>4, <2>5, <1>1, <1>5, <1>12, <1>16, <1>17 DEF TtyNext

\* TerminalIsRestored: whoever ends first, parent, child or the program that a
\* signal ends, the user has the original modes when both have ended.
THEOREM TheUserGetsTheTerminalBack == TtySpec => []TerminalIsRestored
<1>1. TtyInit => TtyInv
  <2> SUFFICES ASSUME TtyInit PROVE TtyInv
    OBVIOUS
  <2>1. TtyTypes
    BY DEF TtyInit, TtyTypes, TtyProcs, Fresh0, Modes
  <2> QED
    BY <2>1 DEF TtyInit, TtyInv, TtyTypes, TtyPoints, Restorable, TtyProcs, Fresh0, Modes, Verifying, InTtymodes, InLoop
<1>2. TtyInv => TerminalIsRestored
    BY DEF TtyInv, TtyTypes, TtyPoints, Restorable, TtyProcs, Verifying, InTtymodes, InLoop, TerminalIsRestored, Ended
<1> QED
    BY <1>1, <1>2, TtyInvStep, PTL DEF TtySpec

-----------------------------------------------------------------------------
(* PrinterStatus: printer_status of printd.c. *)

Reading == {"status", "length", "more", "end", "ended", "body", "ipp"}

\* Past the status line the response is a success.
StatusPoints ==
    /\ stpc \in Reading \cup {"idle", "first", "done", "undefined"}
    /\ stpc # "idle" => resp \in Responses
    /\ stpc \in Reading \ {"status"} => resp.code = "ok"
    /\ infos \in Nat /\ success \in BOOLEAN /\ failed \in BOOLEAN

\* How much of a response there is that was cut at most after its HTTP header,
\* and where in it printer_status looks.  datsz is right until readmore adds
\* the offset it returns, and is then only too large.
Arrived ==
    /\ stpc = "idle" => filled = 0
    /\ stpc # "undefined"
    /\ stpc = "first" => filled \in {0, parts.end + 3, parts.total}
    /\ stpc \in Reading => filled \in {parts.end + 3, parts.total}
    /\ stpc \in {"status", "length", "more", "end", "ended"} => datsz = filled
    /\ stpc \in {"more", "end"} => ri = parts.clenEnd
    /\ stpc \in {"ended", "body", "ipp"} => ri = parts.end + 3
    /\ stpc \in {"body", "ipp"} => filled = parts.total
    /\ stpc = "body" => datsz \in Nat /\ datsz - ri >= bodyLen

StatusInv == /\ StatusPoints /\ AnswerIsRight
             /\ stpc = "idle" => filled = 0
             /\ cut = "header" => Arrived

\* The offsets of a response are in order.
LEMMA PartsInOrder ==
    ASSUME StatusPoints, stpc # "idle"
    PROVE  /\ parts.status \in Nat /\ parts.clen \in Nat /\ parts.clenEnd \in Nat /\ parts.end \in Nat /\ parts.total \in Nat
           /\ parts.status <= parts.clen /\ parts.clen < parts.clenEnd /\ parts.clenEnd <= parts.end
           /\ parts.end + 3 + IppHdr <= parts.total /\ IppHdr \in Nat
           /\ bodyLen = parts.total - (parts.end + 3)
<1>1. resp.at \in Layouts
    BY DEF StatusPoints, Responses
<1> QED
    BY <1>1, StatusAssumption DEF parts, bodyLen

\* Every step decides rightly or does not decide.
LEMMA DecisionsAreRight ==
    StatusPoints /\ AnswerIsRight /\ [StatusNext]_statusVars => StatusPoints' /\ AnswerIsRight'
<1> SUFFICES ASSUME StatusPoints, AnswerIsRight, [StatusNext]_statusVars PROVE StatusPoints' /\ AnswerIsRight'
    OBVIOUS
<1> USE DEF StatusPoints, AnswerIsRight, Reading
<1>1. CASE PrinterAnswers
    BY <1>1 DEF PrinterAnswers
<1>2. CASE FirstRead
  <2>1. stpc = "first" /\ UNCHANGED <<cut, resp, ri>> /\ infos' \in Nat
    BY <1>2 DEF FirstRead
  <2>2. CASE Fail
    BY <2>1, <2>2 DEF Fail, Decide
  <2>3. CASE stpc' \in {"first", "status"} /\ UNCHANGED <<success, failed>>
    BY <2>1, <2>3
  <2> QED
    BY <1>2, <2>1, <2>2, <2>3 DEF FirstRead
<1>3. CASE ReadStatus
  <2>1. stpc = "status" /\ UNCHANGED <<resp, infos, failed>>
    BY <1>3 DEF ReadStatus, Look
  <2>2. CASE stpc' = "done"
    <3>1. resp.code = "error" /\ success' = FALSE
      BY <1>3, <2>2 DEF ReadStatus, Look, Decide
    <3> QED
      BY <2>1, <2>2, <3>1
  <2>3. CASE stpc' # "done"
    BY <1>3, <2>1, <2>3 DEF ReadStatus, Look, Decide
  <2> QED
    BY <2>2, <2>3
<1>4. ASSUME NEW from \in Reading \ {"status"}, NEW to \in Reading \ {"status"}, NEW n, NEW need, Look(from, to, n, need)
      PROVE  StatusPoints' /\ AnswerIsRight'
    BY <1>4 DEF Look
<1>5. ASSUME NEW from \in Reading \ {"status"}, NEW then \in Reading \ {"status"}, readmore(from, then)
      PROVE  StatusPoints' /\ AnswerIsRight'
  <2>1. stpc = from /\ UNCHANGED <<resp, infos>>
    BY <1>5 DEF readmore
  <2>2. CASE Fail
    BY <2>1, <2>2 DEF Fail, Decide
  <2>3. CASE stpc' = then /\ UNCHANGED <<success, failed>>
    BY <2>1, <2>3
  <2> QED
    BY <1>5, <2>2, <2>3 DEF readmore
<1>6. CASE ReadBody
  <2>1. CASE Look("body", "ipp", ri, ri)
    BY <2>1, <1>4
  <2>2. CASE stpc = "body" /\ Fail /\ UNCHANGED <<cut, resp, ri, infos>>
    BY <2>2 DEF Fail, Decide
  <2>3. CASE stpc = "body" /\ stpc' = "undefined" /\ UNCHANGED <<success, failed, resp, infos>>
    BY <2>3
  <2> QED
    BY <1>6, <2>1, <2>2, <2>3 DEF ReadBody
<1>7. CASE ReadIpp
  <2>1. stpc = "ipp" /\ UNCHANGED <<resp, infos, failed>> /\ resp \in Responses
    BY <1>7 DEF ReadIpp
  <2>2. CASE Decide(resp.mine /\ resp.printed)
    BY <2>1, <2>2 DEF Decide, Responses
  <2>3. CASE stpc' = "undefined" /\ UNCHANGED success
    BY <2>1, <2>3
  <2> QED
    BY <1>7, <2>2, <2>3 DEF ReadIpp
<1>8. CASE UNCHANGED statusVars
    BY <1>8 DEF statusVars
<1>9. CASE FindLength
    BY <1>9, <1>4, <1>5 DEF FindLength
<1>10. CASE MoreHeader
    BY <1>10, <1>4, <1>5 DEF MoreHeader
<1>11. CASE FindEnd
  <2>1. (IF ri > parts.end THEN "body" ELSE "end") \in Reading \ {"status"}
    OBVIOUS
  <2> QED
    BY <1>11, <2>1, <1>4, <1>5 DEF FindEnd
<1> QED
    BY <1>1, <1>2, <1>3, <1>6, <1>7, <1>8, <1>9, <1>10, <1>11 DEF StatusNext, printer_status

\* printer_status finds what it looks for in a response that was cut at most
\* after its HTTP header.
LEMMA ResponsesArrive == StatusInv /\ [StatusNext]_statusVars => StatusInv'
<1> SUFFICES ASSUME StatusInv, [StatusNext]_statusVars PROVE StatusInv'
    OBVIOUS
<1>0. StatusPoints' /\ AnswerIsRight'
    BY DecisionsAreRight DEF StatusInv
<1>a. stpc' = "idle" => filled' = 0
    BY DEF StatusInv, StatusNext, printer_status, PrinterAnswers, FirstRead, ReadStatus, FindLength, MoreHeader, FindEnd,
           ReadBody, ReadIpp, Look, readmore, Decide, Fail, statusVars, StatusPoints
<1> SUFFICES ASSUME cut' = "header" PROVE Arrived'
    BY <1>0, <1>a DEF StatusInv
<1>1. CASE PrinterAnswers
    BY <1>1 DEF PrinterAnswers, StatusInv, Arrived, Reading
<1>2. CASE UNCHANGED statusVars
    BY <1>2 DEF statusVars, StatusInv, Arrived, parts, bodyLen
<1>b. CASE printer_status
  <2>1. /\ UNCHANGED <<cut, resp>> /\ stpc \in Reading \cup {"first"} /\ cut = "header"
    BY <1>b DEF printer_status, FirstRead, ReadStatus, FindLength, MoreHeader, FindEnd,
           ReadBody, ReadIpp, Look, readmore, Reading
  <2>2. Arrived /\ StatusPoints /\ parts' = parts /\ bodyLen' = bodyLen
    BY <2>1 DEF StatusInv, parts, bodyLen
  <2>3. /\ parts.status \in Nat /\ parts.clen \in Nat /\ parts.clenEnd \in Nat /\ parts.end \in Nat /\ parts.total \in Nat
        /\ parts.status <= parts.clen /\ parts.clen < parts.clenEnd /\ parts.clenEnd <= parts.end
        /\ parts.end + 3 + IppHdr <= parts.total /\ IppHdr \in Nat
        /\ bodyLen = parts.total - (parts.end + 3)
    BY <2>1, <2>2, PartsInOrder DEF Reading
  <2>4. filled \in {0, parts.end + 3, parts.total}
    BY <2>1, <2>2 DEF Arrived
  <2>5. Fills \subseteq {parts.end + 3, parts.total} /\ \A n \in Fills : n > filled
    BY <2>1, <2>3, <2>4 DEF Fills, May
  <2>6. CASE stpc' = "done"
    BY <2>6 DEF Arrived, Reading
  <2>7. CASE FirstRead /\ stpc' # "done"
    <3>1. stpc = "first" /\ ((stpc' = "first" /\ UNCHANGED filled) \/ (stpc' = "status" /\ filled' \in Fills /\ datsz' = filled'))
      BY <2>7 DEF FirstRead, Fail, Decide
    <3> QED
      BY <3>1, <2>2, <2>4, <2>5 DEF Arrived, Reading
  <2>8. CASE ReadStatus /\ stpc' # "done"
    <3>1. stpc = "status" /\ parts.status <= filled /\ filled \in {parts.end + 3, parts.total} /\ datsz = filled
      <4>1. stpc = "status"
        BY <2>8 DEF ReadStatus, Look
      <4> QED
        BY <4>1, <2>2, <2>3 DEF Arrived, Reading
    <3>2. stpc' \in {"first", "length"} /\ UNCHANGED <<datsz, filled>>
      BY <3>1, <2>8 DEF ReadStatus, Look, Decide
    <3> QED
      BY <3>1, <3>2, <2>2 DEF Arrived, Reading
  <2>9. CASE FindLength /\ stpc' # "done"
    <3>1. stpc = "length" /\ filled \in {parts.end + 3, parts.total} /\ datsz = filled /\ parts.clen < datsz /\ parts.clenEnd <= filled
      BY <2>9, <2>2, <2>3 DEF FindLength, Look, readmore, Arrived, Reading
    <3>2. stpc' = "more" /\ ri' = parts.clenEnd /\ UNCHANGED <<datsz, filled>>
      BY <3>1, <2>3, <2>9 DEF FindLength, Look
    <3> QED
      BY <3>1, <3>2, <2>2 DEF Arrived, Reading
  <2>10. CASE MoreHeader /\ stpc' # "done"
    <3>1. stpc = "more" /\ filled \in {parts.end + 3, parts.total} /\ datsz = filled /\ ri = parts.clenEnd /\ ri < datsz
      BY <2>10, <2>2, <2>3 DEF MoreHeader, Look, readmore, Arrived, Reading
    <3>2. stpc' = "end" /\ UNCHANGED <<datsz, filled, ri>>
      BY <3>1, <2>3, <2>10 DEF MoreHeader, Look
    <3> QED
      BY <3>1, <3>2, <2>2 DEF Arrived, Reading
  <2>11. CASE FindEnd /\ stpc = "end"
    <3>1. filled \in {parts.end + 3, parts.total} /\ datsz = filled /\ parts.end + 2 < datsz /\ parts.end + 3 <= filled
      BY <2>11, <2>2, <2>3 DEF Arrived, Reading
    <3>2. stpc' = "ended" /\ ri' = parts.end + 3 /\ UNCHANGED <<datsz, filled>>
      BY <3>1, <2>3, <2>11 DEF FindEnd, Look, readmore
    <3> QED
      BY <3>1, <3>2, <2>2 DEF Arrived, Reading
  <2>12. CASE FindEnd /\ stpc = "ended" /\ stpc' # "done"
    <3>1. filled \in {parts.end + 3, parts.total} /\ datsz = filled /\ ri = parts.end + 3
      BY <2>12, <2>2, <2>3 DEF Arrived, Reading
    <3>2. CASE ri < datsz
      <4>1. stpc' = "body" /\ UNCHANGED <<datsz, filled, ri>>
        BY <3>1, <3>2, <2>3, <2>12 DEF FindEnd, Look, readmore
      <4> QED
        BY <4>1, <3>1, <3>2, <2>2, <2>3 DEF Arrived, Reading
    <3>3. CASE ri >= datsz
      <4>1. readmore("ended", "body")
        BY <3>1, <3>3, <2>3, <2>12 DEF FindEnd, Look
      <4>2. PICK n \in Fills : datsz' = datsz + (ri + (n - filled)) /\ filled' = ri + (n - filled)
        BY <4>1, <2>12 DEF readmore, Fail, Decide
      <4>3. stpc' = "body" /\ ri' = ri /\ n = parts.total
        BY <4>1, <4>2, <2>3, <2>5, <2>12, <3>1, <3>3 DEF readmore, Fail, Decide
      <4> QED
        BY <4>2, <4>3, <3>1, <3>3, <2>2, <2>3 DEF Arrived, Reading
    <3> QED
      BY <3>1, <3>2, <3>3, <2>3
  <2>13. CASE ReadBody /\ stpc' # "done"
    <3>1. stpc = "body" /\ ri = parts.end + 3 /\ filled = parts.total /\ datsz \in Nat /\ datsz - ri >= bodyLen /\ ri <= filled
      BY <2>13, <2>2, <2>3 DEF ReadBody, Look, Arrived, Reading
    <3>2. stpc' = "ipp" /\ UNCHANGED <<datsz, filled, ri>>
      BY <3>1, <2>3, <2>13 DEF ReadBody, Look
    <3> QED
      BY <3>1, <3>2, <2>2 DEF Arrived, Reading
  <2>14. CASE ReadIpp
    <3>1. stpc = "ipp" /\ ri = parts.end + 3 /\ filled = parts.total
      BY <2>14, <2>2 DEF ReadIpp, Arrived
    <3> QED
      BY <3>1, <2>3, <2>6, <2>14 DEF ReadIpp, Decide
  <2> QED
    BY <1>b, <2>6, <2>7, <2>8, <2>9, <2>10, <2>11, <2>12, <2>13, <2>14 DEF printer_status, FindEnd, Look, readmore
<1> QED
    BY <1>1, <1>2, <1>b DEF StatusNext

\* ResponseIsRead: however tread cuts the response printer_status decides as the
\* printer said, and when it is cut at most after its HTTP header, it decides on
\* bytes that have arrived; for every layout of a response.
THEOREM PrinterIsUnderstood == StatusSpec => []ResponseIsRead
<1>1. StatusInit => StatusInv
    BY StatusAssumption
    DEF StatusInit, StatusInv, StatusPoints, AnswerIsRight, Arrived, Reading
<1>2. StatusInv => ResponseIsRead
    BY DEF StatusInv, Arrived, ResponseIsRead, WholeHeaderIsRead
<1> QED
    BY <1>1, <1>2, ResponsesArrive, PTL DEF StatusSpec

-----------------------------------------------------------------------------
(* Rot13: rot13c2.c. *)

\* The program's arithmetic is the rotation of the alphabet.
LEMMA TranslateRotates ==
    ASSUME NEW c \in 0..255 PROVE translate(c) = Rotated(c) /\ translate(c) \in 0..255
BY DEF translate, Rotated

\* The elements of a sequence.
LEMMA MemberOfSeq == ASSUME NEW S, NEW s \in Seq(S), NEW k \in 1..Len(s) PROVE s[k] \in S
OBVIOUS

\* The input file consists of bytes.
LEMMA InputHasBytes == ASSUME NEW k \in 1..st_size PROVE Input[k] \in 0..255
<1>1. Input \in Seq(0..255)
    BY RotAssumption
<1>2. k \in 1..Len(Input)
    BY DEF st_size
<1> QED
    BY <1>1, <1>2, MemberOfSeq

Buffer == [op : {"UNUSED", "READ_PENDING", "WRITE_PENDING"}, last : BOOLEAN, off : Nat, nbytes : Nat,
           data : [1..BSZ -> 0..255], aio : {"none", "busy", "done", "error"}, ret : Nat]

RotTypes ==
    /\ rmain \in {"idle", "scan", "suspend", "failed", "exit"}
    /\ scan \in 0..NBUF
    /\ bufs \in [BufIds -> Buffer]
    /\ offset \in Nat /\ numop \in Nat /\ isize \in Nat /\ isize <= st_size
    /\ ofile \in Seq(0..255)

Pending(b) == b.op # "UNUSED"
Unwritten(b) == b.op = "READ_PENDING" \/ (b.op = "WRITE_PENDING" /\ b.aio # "done")
Reads(b, n) == n <= BSZ /\ b.off + n <= st_size

\* A buffer is what its state says it is: its block lies below off, only the
\* last block ends at or behind the end of the input, a read has brought the
\* bytes of the block, a write has translated ones, and only the last block is
\* short, by more than the end of the file only if the file was cut.
SoundBuffer(b, off, size) ==
    /\ Pending(b) <=> b.aio # "none"
    /\ b.last => off >= st_size
    /\ Pending(b) => /\ b.off + BSZ <= off /\ b.off < st_size
                     /\ b.last <=> b.off + BSZ >= st_size
                     /\ b.last => b.off + BSZ = off
    /\ b.op = "READ_PENDING" =>
          /\ b.nbytes = BSZ
          /\ b.aio = "done" => /\ Reads(b, b.ret)
                               /\ b.ret = BSZ \/ b.off + b.ret = st_size \/ size < st_size
                               /\ \A j \in 1..BSZ : j <= b.ret => b.data[j] = Input[b.off + j]
    /\ b.op = "WRITE_PENDING" =>
          /\ Reads(b, b.nbytes)
          /\ b.last \/ b.nbytes = BSZ
          /\ b.last => b.off + b.nbytes = st_size \/ size < st_size
          /\ \A j \in 1..BSZ : j <= b.nbytes => b.data[j] = translate(Input[b.off + j])
          /\ b.aio = "done" => b.ret = b.nbytes

\* No two requests are about the same bytes.
DisjointBlocks ==
    \A i, j \in BufIds : i # j /\ Pending(bufs[i]) /\ Pending(bufs[j]) =>
       bufs[i].off + BSZ <= bufs[j].off \/ bufs[j].off + BSZ <= bufs[i].off

Right(k) == ofile[k] = translate(Input[k])
Awaited(k) == \E i \in BufIds : /\ Unwritten(bufs[i]) /\ ~bufs[i].last
                                /\ bufs[i].off < k /\ k <= bufs[i].off + BSZ
Whole(k) == k <= offset /\ (offset >= st_size => k <= offset - BSZ)

\* The bytes of the output file are right or will be written, so are all bytes
\* of the blocks before the last, and the last block will be written, or was.
Covered1 == \A k \in 1..Len(ofile) : k <= st_size /\ (Right(k) \/ Awaited(k))
Covered2 == \A k \in Nat \ {0} : Whole(k) => (k <= Len(ofile) /\ Right(k)) \/ Awaited(k)
Covered3 == offset >= st_size =>
               \/ \E i \in BufIds : Unwritten(bufs[i]) /\ bufs[i].last
               \/ Len(ofile) = st_size \/ isize < st_size
OffsetIsNear == offset >= st_size => offset = 0 \/ (offset >= BSZ /\ offset - BSZ < st_size)

RotInv ==
    /\ RotTypes
    /\ \A i \in BufIds : SoundBuffer(bufs[i], offset, isize)
    /\ DisjointBlocks /\ Covered1 /\ Covered2 /\ Covered3 /\ OffsetIsNear
    /\ numop = Cardinality({i \in BufIds : Pending(bufs[i])})
    /\ rmain = "exit" => numop = 0 /\ offset >= st_size

\* Steps that leave the output file, off and the blocks that are not written yet
\* as they are cover what was covered.
LEMMA CoverStays ==
    ASSUME RotInv, UNCHANGED <<ofile, offset>>, isize' \in Nat, isize' <= isize,
           \A i \in BufIds : /\ Unwritten(bufs'[i]) <=> Unwritten(bufs[i])
                             /\ Unwritten(bufs[i]) => bufs'[i].off = bufs[i].off /\ bufs'[i].last = bufs[i].last
                             /\ Pending(bufs'[i]) => Pending(bufs[i]) /\ bufs'[i].off = bufs[i].off
    PROVE  DisjointBlocks' /\ Covered1' /\ Covered2' /\ Covered3' /\ OffsetIsNear'
<1>1. st_size \in Nat /\ isize \in Nat
    BY RotAssumption DEF st_size, RotInv, RotTypes
<1>2. DisjointBlocks'
    BY DEF RotInv, DisjointBlocks
<1>3. ASSUME NEW k, Awaited(k) PROVE Awaited(k)'
    BY <1>3 DEF Awaited
<1>4. Covered1'
  <2> SUFFICES ASSUME NEW k \in 1..Len(ofile)' PROVE (k <= st_size /\ (Right(k) \/ Awaited(k)))'
    BY DEF Covered1
  <2>1. k \in 1..Len(ofile) /\ st_size' = st_size
    BY DEF st_size
  <2>2. k <= st_size /\ (Right(k) \/ Awaited(k))
    BY <2>1 DEF RotInv, Covered1
  <2>3. Right(k) => Right(k)'
    BY DEF Right
  <2> QED
    BY <2>1, <2>2, <2>3, <1>3
<1>5. Covered2'
  <2> SUFFICES ASSUME NEW k \in Nat \ {0}, Whole(k)' PROVE ((k <= Len(ofile) /\ Right(k)) \/ Awaited(k))'
    BY DEF Covered2
  <2>1. Whole(k)
    BY DEF Whole, st_size
  <2>2. (k <= Len(ofile) /\ Right(k)) \/ Awaited(k)
    BY <2>1 DEF RotInv, Covered2
  <2>3. Right(k) => Right(k)'
    BY DEF Right
  <2> QED
    BY <2>2, <2>3, <1>3
<1>6. Covered3'
    BY <1>1 DEF RotInv, Covered3, st_size
<1>7. OffsetIsNear'
    BY DEF RotInv, OffsetIsNear, st_size
<1> QED
    BY <1>2, <1>4, <1>5, <1>6, <1>7

\* A cut of the input only makes it shorter.
LEMMA SoundStays ==
    ASSUME NEW b, NEW off, NEW size \in Nat, NEW less \in Nat, less <= size, SoundBuffer(b, off, size)
    PROVE  SoundBuffer(b, off, less)
<1>1. st_size \in Nat
    BY RotAssumption DEF st_size
<1>2. size < st_size => less < st_size
    BY <1>1
<1> QED
    BY <1>2 DEF SoundBuffer

\* Steps that leave buffers, off and numop alone.
LEMMA QuietStep ==
    ASSUME RotInv, UNCHANGED <<bufs, offset, numop, ofile>>, isize' \in Nat, isize' <= isize,
           rmain' \in {"idle", "scan", "suspend", "failed", "exit"}, scan' \in 0..NBUF,
           rmain' = "exit" => rmain = "exit" \/ (numop = 0 /\ offset >= st_size)
    PROVE  RotInv'
<1>1. DisjointBlocks' /\ Covered1' /\ Covered2' /\ Covered3' /\ OffsetIsNear'
    BY CoverStays
<1>2. RotTypes'
  <2>1. isize' <= st_size'
    BY RotAssumption DEF RotInv, RotTypes, st_size
  <2> QED
    BY <2>1 DEF RotInv, RotTypes
<1>3. ASSUME NEW i \in BufIds PROVE SoundBuffer(bufs'[i], offset', isize')
  <2>1. SoundBuffer(bufs[i], offset, isize) /\ isize \in Nat
    BY DEF RotInv, RotTypes
  <2>2. SoundBuffer(bufs[i], offset, isize')
    BY <2>1, SoundStays
  <2> QED
    BY <2>2
<1>4. {i \in BufIds : Pending(bufs[i])}' = {i \in BufIds : Pending(bufs[i])}
    OBVIOUS
<1>5. numop' = Cardinality({i \in BufIds : Pending(bufs[i])})'
    BY <1>4 DEF RotInv
<1>6. (rmain = "exit" => numop = 0 /\ offset >= st_size)'
    BY DEF RotInv, st_size
<1>7. (\A i \in BufIds : SoundBuffer(bufs[i], offset, isize))'
    BY <1>3
<1> QED
    BY <1>1, <1>2, <1>5, <1>6, <1>7 DEF RotInv

\* The requests that numop counts.
LEMMA RequestsAreFinite ==
    /\ IsFiniteSet({i \in BufIds : Pending(bufs[i])})
    /\ Cardinality({i \in BufIds : Pending(bufs[i])}) \in Nat
<1>1. IsFiniteSet(BufIds)
  <2>1. NBUF - 1 \in Int
    BY RotAssumption
  <2> QED
    BY <2>1, FS_Interval DEF BufIds
<1>2. IsFiniteSet({i \in BufIds : Pending(bufs[i])})
    BY <1>1, FS_Subset
<1> QED
    BY <1>2, FS_CardinalityType

\* The program has not ended while there is a request.
LEMMA RequestMeansRunning ==
    ASSUME RotInv, NEW s \in BufIds, Pending(bufs[s]) PROVE numop > 0 /\ numop \in Nat /\ rmain # "exit"
<1>1. s \in {i \in BufIds : Pending(bufs[i])}
    OBVIOUS
<1>2. numop # 0
    BY <1>1, RequestsAreFinite, FS_EmptySet DEF RotInv
<1> QED
    BY <1>2 DEF RotInv, RotTypes

\* Steps that bring one request further but do not write the output file.
LEMMA OneBufferStep ==
    ASSUME RotInv, NEW s \in BufIds, NEW nb \in Buffer, bufs' = [bufs EXCEPT ![s] = nb],
           UNCHANGED <<ofile, offset, isize>>, Pending(bufs[s]),
           SoundBuffer(nb, offset, isize), nb.off = bufs[s].off, nb.last = bufs[s].last,
           Unwritten(nb) <=> Unwritten(bufs[s]),
           numop' = IF Pending(nb) THEN numop ELSE numop - 1,
           rmain' = rmain, scan' \in 0..NBUF
    PROVE  RotInv'
<1>0. bufs \in [BufIds -> Buffer] /\ bufs' \in [BufIds -> Buffer]
    BY DEF RotInv, RotTypes
<1>1. numop > 0 /\ numop \in Nat /\ rmain # "exit"
    BY RequestMeansRunning
<1>2. bufs'[s] = nb /\ \A i \in BufIds : i # s => bufs'[i] = bufs[i]
    BY <1>0
<1>3. DisjointBlocks' /\ Covered1' /\ Covered2' /\ Covered3' /\ OffsetIsNear'
  <2>1. isize' \in Nat /\ isize' <= isize
    BY DEF RotInv, RotTypes
  <2>2. \A i \in BufIds : /\ Unwritten(bufs'[i]) <=> Unwritten(bufs[i])
                          /\ Unwritten(bufs[i]) => bufs'[i].off = bufs[i].off /\ bufs'[i].last = bufs[i].last
                          /\ Pending(bufs'[i]) => Pending(bufs[i]) /\ bufs'[i].off = bufs[i].off
    BY <1>2
  <2> QED
    BY <2>1, <2>2, CoverStays
<1>4. RotTypes'
    BY <1>0, <1>1 DEF RotInv, RotTypes, st_size
<1>5. (\A i \in BufIds : SoundBuffer(bufs[i], offset, isize))'
  <2> SUFFICES ASSUME NEW i \in BufIds PROVE SoundBuffer(bufs'[i], offset, isize)
    OBVIOUS
  <2>1. CASE i = s
    BY <2>1, <1>2
  <2>2. CASE i # s
    BY <2>2, <1>2 DEF RotInv
  <2> QED
    BY <2>1, <2>2
<1>6. numop' = Cardinality({i \in BufIds : Pending(bufs[i])}')
  <2> DEFINE P == {i \in BufIds : Pending(bufs[i])}
             Q == {i \in BufIds : Pending(bufs'[i])}
  <2>1. CASE Pending(nb)
    <3>1. Q = P
      BY <2>1, <1>2
    <3> QED
      BY <2>1, <3>1 DEF RotInv
  <2>2. CASE ~Pending(nb)
    <3>1. Q = P \ {s} /\ s \in P
      BY <2>2, <1>2
    <3>2. Cardinality(Q) = Cardinality(P) - 1
      BY <3>1, RequestsAreFinite, FS_RemoveElement
    <3> QED
      BY <2>2, <3>2 DEF RotInv
  <2> QED
    BY <2>1, <2>2
<1>7. rmain' # "exit"
    BY <1>1
<1> QED
    BY <1>3, <1>4, <1>5, <1>6, <1>7 DEF RotInv

\* A read that has completed: main translates the buffer and starts to write it.
LEMMA ReadDoneKeeps == ASSUME RotInv, ReadDone PROVE RotInv'
<1> DEFINE b == bufs[scan]
<1>1. scan \in BufIds /\ bufs \in [BufIds -> Buffer] /\ b \in Buffer /\ st_size \in Nat /\ BSZ \in Nat \ {0} /\ isize \in Nat
      /\ scan \in Nat /\ rmain = "scan" /\ scan + 1 \in 0..NBUF /\ NBUF \in Nat
    BY RotAssumption DEF ReadDone, Scanning, RotInv, RotTypes, BufIds, st_size
<1>2. b.op = "READ_PENDING" /\ b.aio = "done" /\ SoundBuffer(b, offset, isize) /\ UNCHANGED <<offset, numop, isize, ofile>>
    BY <1>1 DEF ReadDone, At, RotInv, Unchanged
<1>3. CASE rmain' = "failed" /\ UNCHANGED <<bufs, scan>>
    BY <1>1, <1>2, <1>3, QuietStep DEF RotInv, RotTypes
<1>4. CASE ~(b.ret # BSZ /\ ~b.last)
  <2> DEFINE data == [j \in 1..BSZ |-> IF j <= b.ret THEN translate(b.data[j]) ELSE b.data[j]]
             nb == [b EXCEPT !.op = "WRITE_PENDING", !.nbytes = b.ret, !.aio = "busy", !.data = data]
  <2>1. bufs' = [bufs EXCEPT ![scan] = nb] /\ scan' = scan + 1 /\ UNCHANGED rmain
    BY <1>1, <1>4 DEF ReadDone, At
  <2>2. data \in [1..BSZ -> 0..255]
    BY <1>1, TranslateRotates DEF Buffer
  <2>3. /\ nb \in Buffer /\ nb.op = "WRITE_PENDING" /\ nb.nbytes = b.ret /\ nb.aio = "busy" /\ nb.data = data
        /\ nb.off = b.off /\ nb.last = b.last
    BY <1>1, <2>2 DEF Buffer
  <2>4. /\ Reads(b, b.ret) /\ (b.ret = BSZ \/ b.off + b.ret = st_size \/ isize < st_size)
        /\ \A j \in 1..BSZ : j <= b.ret => b.data[j] = Input[b.off + j]
        /\ b.last => offset >= st_size
        /\ b.off + BSZ <= offset /\ b.off < st_size /\ (b.last <=> b.off + BSZ >= st_size) /\ (b.last => b.off + BSZ = offset)
        /\ b.off \in Nat /\ b.ret \in Nat /\ b.last \in BOOLEAN
    BY <1>1, <1>2 DEF SoundBuffer, Pending, Buffer
  <2>5. \A j \in 1..BSZ : j <= b.ret => data[j] = translate(Input[b.off + j])
    BY <2>4
  <2>6. b.last \/ b.ret = BSZ
    BY <1>4
  <2>7. b.last => b.off + b.ret = st_size \/ isize < st_size
    BY <2>4, <1>1 DEF Reads
  <2> HIDE DEF data, nb, b
  <2>8. Reads(nb, nb.nbytes)
    BY <2>3, <2>4 DEF Reads
  <2>9. SoundBuffer(nb, offset, isize)
    BY <2>3, <2>4, <2>5, <2>6, <2>7, <2>8 DEF SoundBuffer, Pending
  <2>10. Unwritten(nb) /\ Pending(nb) /\ Unwritten(bufs[scan]) /\ Pending(bufs[scan])
    BY <1>2, <2>3 DEF Unwritten, Pending, b
  <2> QED
    BY <1>1, <1>2, <2>1, <2>3, <2>9, <2>10, OneBufferStep DEF b
<1> QED
    BY <1>3, <1>4 DEF ReadDone, At

\* A write that has completed: main gives the buffer back.
LEMMA WriteDoneKeeps == ASSUME RotInv, WriteDone PROVE RotInv'
<1> DEFINE b == bufs[scan]
<1>1. scan \in BufIds /\ bufs \in [BufIds -> Buffer] /\ b \in Buffer /\ isize \in Nat
      /\ scan \in Nat /\ rmain = "scan" /\ scan + 1 \in 0..NBUF /\ NBUF \in Nat
    BY RotAssumption DEF WriteDone, Scanning, RotInv, RotTypes, BufIds, st_size
<1>2. b.op = "WRITE_PENDING" /\ b.aio = "done" /\ SoundBuffer(b, offset, isize) /\ UNCHANGED <<offset, isize, ofile>>
    BY <1>1 DEF WriteDone, At, RotInv, Unchanged
<1>3. CASE rmain' = "failed" /\ UNCHANGED <<bufs, scan, numop>>
    BY <1>1, <1>2, <1>3, QuietStep DEF RotInv, RotTypes
<1>4. CASE b.ret = b.nbytes
  <2> DEFINE nb == [b EXCEPT !.op = "UNUSED", !.aio = "none"]
  <2>1. bufs' = [bufs EXCEPT ![scan] = nb] /\ scan' = scan + 1 /\ UNCHANGED rmain /\ numop' = numop - 1
    BY <1>1, <1>4 DEF WriteDone, At
  <2>2. /\ nb \in Buffer /\ nb.op = "UNUSED" /\ nb.aio = "none" /\ nb.off = b.off /\ nb.last = b.last
    BY <1>1 DEF Buffer
  <2> HIDE DEF nb, b
  <2>3. SoundBuffer(nb, offset, isize)
    BY <2>2, <1>2 DEF SoundBuffer, Pending
  <2>4. ~Unwritten(nb) /\ ~Pending(nb) /\ ~Unwritten(bufs[scan]) /\ Pending(bufs[scan])
    BY <1>2, <2>2 DEF Unwritten, Pending, b
  <2> QED
    BY <1>1, <1>2, <2>1, <2>2, <2>3, <2>4, OneBufferStep DEF b
<1> QED
    BY <1>3, <1>4 DEF WriteDone, At

\* A read that completes, and a request that fails.
LEMMA KernelReadKeeps ==
    ASSUME RotInv, NEW i \in BufIds, IoError(i) \/ (Complete(i) /\ bufs[i].op = "READ_PENDING")
    PROVE  RotInv'
<1> DEFINE b == bufs[i]
<1>1. bufs \in [BufIds -> Buffer] /\ b \in Buffer /\ isize \in Nat /\ scan \in 0..NBUF /\ st_size \in Nat
      /\ Input \in Seq(0..255) /\ BSZ \in Nat \ {0} /\ isize <= st_size
    BY RotAssumption DEF RotInv, RotTypes, st_size
<1>2. /\ b.aio = "busy" /\ SoundBuffer(b, offset, isize) /\ UNCHANGED <<rmain, scan, offset, numop, isize, ofile>>
    BY DEF IoError, Complete, RotInv
<1>3. Pending(b)
    BY <1>2 DEF SoundBuffer
<1>4. CASE IoError(i)
  <2> DEFINE nb == [b EXCEPT !.aio = "error"]
  <2>1. bufs' = [bufs EXCEPT ![i] = nb]
    BY <1>1, <1>4 DEF IoError
  <2>2. /\ nb \in Buffer /\ nb.aio = "error" /\ nb.op = b.op /\ nb.off = b.off /\ nb.last = b.last
        /\ nb.nbytes = b.nbytes /\ nb.data = b.data /\ nb.ret = b.ret
    BY <1>1 DEF Buffer
  <2> HIDE DEF nb, b
  <2>3. SoundBuffer(nb, offset, isize)
    BY <2>2, <1>2, <1>3 DEF SoundBuffer, Pending, Reads
  <2>4. (Unwritten(nb) <=> Unwritten(bufs[i])) /\ Pending(nb) /\ Pending(bufs[i])
    BY <1>2, <1>3, <2>2 DEF Unwritten, Pending, b
  <2> QED
    BY <1>1, <1>2, <2>1, <2>2, <2>3, <2>4, OneBufferStep DEF b
<1>5. CASE Complete(i) /\ b.op = "READ_PENDING"
  <2> DEFINE left == IF b.off >= isize THEN 0 ELSE isize - b.off
             n == IF left < b.nbytes THEN left ELSE b.nbytes
             data == [j \in 1..BSZ |-> IF j <= n THEN Input[b.off + j] ELSE b.data[j]]
             nb == [b EXCEPT !.aio = "done", !.ret = n, !.data = data]
  <2>1. bufs' = [bufs EXCEPT ![i] = nb]
    BY <1>1, <1>5 DEF Complete
  <2>2. /\ b.nbytes = BSZ /\ b.off \in Nat /\ b.off < st_size /\ b.data \in [1..BSZ -> 0..255]
    BY <1>1, <1>2, <1>3, <1>5 DEF SoundBuffer, Buffer
  <2>3. n \in Nat /\ n <= BSZ /\ b.off + n <= st_size /\ (n = BSZ \/ b.off + n = st_size \/ isize < st_size)
    BY <2>2, <1>1
  <2>4. data \in [1..BSZ -> 0..255] /\ \A j \in 1..BSZ : j <= n => data[j] = Input[b.off + j]
    <3>1. \A j \in 1..BSZ : j <= n => Input[b.off + j] \in 0..255
      <4> SUFFICES ASSUME NEW j \in 1..BSZ, j <= n PROVE Input[b.off + j] \in 0..255
        OBVIOUS
      <4> HIDE DEF n
      <4>1. b.off + j \in 1..Len(Input)
        BY <2>2, <2>3, <1>1 DEF st_size
      <4> QED
        BY <4>1, InputHasBytes DEF st_size
    <3> HIDE DEF n
    <3> QED
      BY <3>1, <2>2
  <2>5. /\ nb \in Buffer /\ nb.aio = "done" /\ nb.op = b.op /\ nb.off = b.off /\ nb.last = b.last
        /\ nb.nbytes = b.nbytes /\ nb.data = data /\ nb.ret = n
    <3> HIDE DEF n, data
    <3> QED
      BY <1>1, <2>3, <2>4 DEF Buffer
  <2> HIDE DEF nb, b, n, data
  <2>6. Reads(nb, nb.ret)
    BY <2>3, <2>5 DEF Reads
  <2>7. SoundBuffer(nb, offset, isize)
    BY <2>2, <2>3, <2>4, <2>5, <2>6, <1>2, <1>3, <1>5 DEF SoundBuffer, Pending
  <2>8. Unwritten(nb) /\ Unwritten(bufs[i]) /\ Pending(nb) /\ Pending(bufs[i])
    BY <1>5, <1>3, <2>5 DEF Unwritten, Pending, b
  <2> QED
    BY <1>1, <1>2, <2>1, <2>5, <2>7, <2>8, OneBufferStep DEF b
<1> QED
    BY <1>4, <1>5

\* A new block is read: it lies behind all others, and if it is not the last it
\* is waited for.
LEMMA StartReadKeeps == ASSUME RotInv, StartRead PROVE RotInv'
<1> DEFINE b == bufs[scan]
<1>1. /\ scan \in BufIds /\ bufs \in [BufIds -> Buffer] /\ b \in Buffer /\ st_size \in Nat /\ BSZ \in Nat \ {0} /\ isize \in Nat
      /\ scan \in Nat /\ rmain = "scan" /\ scan + 1 \in 0..NBUF /\ NBUF \in Nat /\ isize <= st_size /\ offset \in Nat
      /\ numop \in Nat /\ Len(ofile) \in Nat
    BY RotAssumption DEF StartRead, Scanning, RotInv, RotTypes, BufIds, st_size
<1>2. b.op = "UNUSED" /\ SoundBuffer(b, offset, isize) /\ UNCHANGED <<isize, ofile, rmain>> /\ scan' = scan + 1
    BY <1>1 DEF StartRead, At, RotInv, Unchanged
<1>3. CASE ~(offset < st_size)
  <2>1. UNCHANGED <<bufs, offset, numop>>
    BY <1>3 DEF StartRead
  <2> QED
    BY <1>1, <1>2, <2>1, QuietStep
<1>4. CASE offset < st_size
  <2> DEFINE nb == [b EXCEPT !.op = "READ_PENDING", !.off = offset, !.last = b.last \/ offset + BSZ >= st_size,
                             !.nbytes = BSZ, !.aio = "busy"]
  <2>1. bufs' = [bufs EXCEPT ![scan] = nb] /\ offset' = offset + BSZ /\ numop' = numop + 1
    BY <1>1, <1>4 DEF StartRead, At
  <2>2. \A i \in BufIds : ~bufs[i].last /\ SoundBuffer(bufs[i], offset, isize) /\ bufs[i] \in Buffer
    BY <1>1, <1>4 DEF RotInv, SoundBuffer
  <2>3. /\ nb.op = "READ_PENDING" /\ nb.aio = "busy" /\ nb.off = offset /\ nb.nbytes = BSZ
        /\ nb.last <=> offset + BSZ >= st_size
    BY <1>1, <2>2 DEF Buffer
  <2>4. nb \in Buffer
    <3>1. (b.last \/ offset + BSZ >= st_size) \in BOOLEAN
      OBVIOUS
    <3> QED
      BY <1>1, <3>1 DEF Buffer
  <2> HIDE DEF nb, b
  <2>5. bufs' \in [BufIds -> Buffer] /\ bufs'[scan] = nb /\ \A i \in BufIds : i # scan => bufs'[i] = bufs[i]
    BY <2>1, <2>4, <1>1
  <2>6. ~Pending(bufs[scan]) /\ ~Unwritten(bufs[scan]) /\ Pending(nb) /\ Unwritten(nb)
    BY <1>2, <2>3 DEF Pending, Unwritten, b
  <2>7. (\A i \in BufIds : SoundBuffer(bufs[i], offset, isize))'
    <3> SUFFICES ASSUME NEW i \in BufIds PROVE SoundBuffer(bufs'[i], offset', isize)
      BY <1>2
    <3>1. CASE i = scan
      <4>1. SoundBuffer(nb, offset', isize)
        BY <2>1, <2>3, <1>1, <1>4 DEF SoundBuffer, Pending
      <4> QED
        BY <3>1, <2>5, <4>1
    <3>2. CASE i # scan
      <4>1. bufs[i].off \in Nat
        BY <2>2 DEF Buffer
      <4>2. SoundBuffer(bufs[i], offset, isize) /\ ~bufs[i].last
        BY <2>2
      <4>3. SoundBuffer(bufs[i], offset', isize)
        BY <4>1, <4>2, <2>1, <1>1 DEF SoundBuffer
      <4> QED
        BY <3>2, <2>5, <4>3
    <3> QED
      BY <3>1, <3>2
  <2>8. \A i \in BufIds : Pending(bufs[i]) => bufs[i].off + BSZ <= offset /\ bufs[i].off \in Nat
    BY <2>2 DEF SoundBuffer, Buffer
  <2>9. DisjointBlocks'
    <3> SUFFICES ASSUME NEW i \in BufIds, NEW j \in BufIds, i # j, Pending(bufs'[i]), Pending(bufs'[j])
                 PROVE  bufs'[i].off + BSZ <= bufs'[j].off \/ bufs'[j].off + BSZ <= bufs'[i].off
      BY DEF DisjointBlocks
    <3>1. CASE i = scan
      BY <3>1, <2>3, <2>5, <2>8
    <3>2. CASE j = scan
      BY <3>2, <2>3, <2>5, <2>8
    <3>3. CASE i # scan /\ j # scan
      BY <3>3, <2>5 DEF RotInv, DisjointBlocks
    <3> QED
      BY <3>1, <3>2, <3>3
  <2>10. ASSUME NEW k, Awaited(k) PROVE Awaited(k)'
    <3>1. PICK i \in BufIds : Unwritten(bufs[i]) /\ ~bufs[i].last /\ bufs[i].off < k /\ k <= bufs[i].off + BSZ
      BY <2>10 DEF Awaited
    <3>2. i # scan
      BY <3>1, <2>6
    <3> QED
      BY <3>1, <3>2, <2>5 DEF Awaited
  <2>11. Covered1'
    <3> SUFFICES ASSUME NEW k \in 1..Len(ofile) PROVE (k <= st_size /\ (Right(k) \/ Awaited(k)))'
      BY <1>2 DEF Covered1
    <3>1. k <= st_size /\ (Right(k) \/ Awaited(k))
      BY DEF RotInv, Covered1
    <3>2. (Right(k) => Right(k)') /\ st_size' = st_size
      BY <1>2 DEF Right, st_size
    <3> QED
      BY <3>1, <3>2, <2>10
  <2>12. Covered2'
    <3> SUFFICES ASSUME NEW k \in Nat \ {0}, Whole(k)' PROVE ((k <= Len(ofile) /\ Right(k)) \/ Awaited(k))'
      BY DEF Covered2
    <3>0. k <= offset' /\ (offset' >= st_size => k <= offset' - BSZ)
      BY DEF Whole, st_size
    <3>1. CASE k <= offset
      <4>1. Whole(k)
        BY <3>1, <1>4, <1>1 DEF Whole
      <4>2. (k <= Len(ofile) /\ Right(k)) \/ Awaited(k)
        BY <4>1 DEF RotInv, Covered2
      <4>3. Right(k) => Right(k)'
        BY <1>2 DEF Right
      <4> QED
        BY <4>2, <4>3, <2>10, <1>2
    <3>2. CASE k > offset
      <4>1. ~nb.last /\ nb.off < k /\ k <= nb.off + BSZ
        BY <3>0, <3>2, <2>1, <2>3, <1>1
      <4>2. Awaited(k)'
        BY <4>1, <2>5, <2>6, <1>1 DEF Awaited
      <4> QED
        BY <4>2
    <3> QED
      BY <3>1, <3>2, <1>1
  <2>13. Covered3'
    <3> SUFFICES ASSUME offset' >= st_size PROVE \E i \in BufIds : Unwritten(bufs'[i]) /\ bufs'[i].last
      BY DEF Covered3, st_size
    <3> QED
      BY <2>1, <2>3, <2>5, <2>6, <1>1
  <2>14. OffsetIsNear'
    BY <2>1, <1>1, <1>4 DEF OffsetIsNear, st_size
  <2>15. numop' = Cardinality({i \in BufIds : Pending(bufs[i])}')
    <3> DEFINE P == {i \in BufIds : Pending(bufs[i])}
               Q == {i \in BufIds : Pending(bufs'[i])}
    <3>1. Q = P \cup {scan} /\ scan \notin P
      BY <2>5, <2>6, <1>1
    <3>2. Cardinality(Q) = Cardinality(P) + 1
      BY <3>1, RequestsAreFinite, FS_AddElement
    <3> QED
      BY <3>2, <2>1 DEF RotInv
  <2>16. RotTypes' /\ rmain' # "exit"
    BY <2>1, <2>5, <1>1, <1>2 DEF RotInv, RotTypes, st_size
  <2> QED
    BY <2>7, <2>9, <2>11, <2>12, <2>13, <2>14, <2>15, <2>16 DEF RotInv
<1> QED
    BY <1>3, <1>4

\* A write that completes: the bytes of its block are right from now on, and the
\* bytes before it that the file gets meanwhile belong to blocks that others are
\* still to write.
LEMMA KernelWriteKeeps ==
    ASSUME RotInv, NEW i \in BufIds, Complete(i), bufs[i].op # "READ_PENDING"
    PROVE  RotInv'
<1> DEFINE b == bufs[i]
           nb == [b EXCEPT !.aio = "done", !.ret = b.nbytes]
<1>1. /\ bufs \in [BufIds -> Buffer] /\ b \in Buffer /\ isize \in Nat /\ scan \in 0..NBUF /\ st_size \in Nat
      /\ BSZ \in Nat \ {0} /\ isize <= st_size /\ offset \in Nat /\ ofile \in Seq(0..255) /\ Len(ofile) \in Nat
    BY RotAssumption DEF RotInv, RotTypes, st_size
<1>2. /\ b.aio = "busy" /\ SoundBuffer(b, offset, isize) /\ UNCHANGED <<rmain, scan, offset, numop, isize>>
      /\ bufs' = [bufs EXCEPT ![i] = nb] /\ ofile' = IF b.nbytes = 0 THEN ofile ELSE Written(b)
    BY <1>1 DEF Complete, RotInv
<1>3. Pending(b) /\ b.op = "WRITE_PENDING"
    BY <1>1, <1>2 DEF SoundBuffer, Pending, Buffer
<1>4. /\ nb \in Buffer /\ nb.aio = "done" /\ nb.op = b.op /\ nb.off = b.off /\ nb.last = b.last
      /\ nb.nbytes = b.nbytes /\ nb.data = b.data /\ nb.ret = b.nbytes
    BY <1>1 DEF Buffer
<1>5. /\ b.off \in Nat /\ b.nbytes \in Nat /\ b.nbytes <= BSZ /\ b.off + b.nbytes <= st_size
      /\ b.off + BSZ <= offset /\ b.off < st_size /\ b.data \in [1..BSZ -> 0..255]
      /\ b.last \/ b.nbytes = BSZ
      /\ b.last => b.off + b.nbytes = st_size \/ isize < st_size
      /\ b.last => b.off + BSZ = offset
      /\ b.last \in BOOLEAN /\ (b.last => offset >= st_size)
      /\ \A j \in 1..BSZ : j <= b.nbytes => b.data[j] = translate(Input[b.off + j])
    BY <1>1, <1>2, <1>3 DEF SoundBuffer, Reads, Buffer
<1> HIDE DEF b, nb
<1>6. bufs' \in [BufIds -> Buffer] /\ bufs'[i] = nb /\ \A j \in BufIds : j # i => bufs'[j] = bufs[j]
    BY <1>1, <1>2, <1>4
<1>7. ~Unwritten(nb) /\ Unwritten(b) /\ Pending(nb)
    BY <1>2, <1>3, <1>4 DEF Unwritten, Pending
<1>8. SoundBuffer(nb, offset, isize)
    BY <1>2, <1>3, <1>4 DEF SoundBuffer, Pending, Reads
<1>9. (\A j \in BufIds : SoundBuffer(bufs[j], offset, isize))'
  <2> SUFFICES ASSUME NEW j \in BufIds PROVE SoundBuffer(bufs'[j], offset, isize)
    BY <1>2
  <2>1. CASE j = i
    BY <2>1, <1>6, <1>8
  <2>2. CASE j # i
    BY <2>2, <1>6 DEF RotInv
  <2> QED
    BY <2>1, <2>2
<1>10. DisjointBlocks'
  <2>1. \A j \in BufIds : (Pending(bufs'[j]) <=> Pending(bufs[j])) /\ bufs'[j].off = bufs[j].off
    BY <1>6, <1>4, <1>7, <1>3 DEF b
  <2> QED
    BY <2>1 DEF RotInv, DisjointBlocks
<1>11. ASSUME NEW k \in Nat, Awaited(k), ~(b.off < k /\ k <= b.off + BSZ) \/ b.last PROVE Awaited(k)'
  <2>1. PICK j \in BufIds : Unwritten(bufs[j]) /\ ~bufs[j].last /\ bufs[j].off < k /\ k <= bufs[j].off + BSZ
    BY <1>11 DEF Awaited
  <2>2. j # i
    BY <2>1, <1>11 DEF b
  <2> QED
    BY <2>1, <2>2, <1>6 DEF Awaited
<1>12. \A k \in 1..Len(ofile) : k <= st_size /\ (Right(k) \/ Awaited(k))
    BY DEF RotInv, Covered1
<1>13. \A k \in Nat \ {0} : Whole(k) => (k <= Len(ofile) /\ Right(k)) \/ Awaited(k)
    BY DEF RotInv, Covered2
<1>14. /\ ofile' \in Seq(0..255) /\ Len(ofile') \in Nat
       /\ Len(ofile') = IF b.nbytes = 0 \/ b.off + b.nbytes <= Len(ofile) THEN Len(ofile) ELSE b.off + b.nbytes
       /\ \A k \in Nat : b.off < k /\ k <= b.off + b.nbytes => ofile'[k] = translate(Input[k])
       /\ \A k \in 1..Len(ofile) : ~(b.off < k /\ k <= b.off + b.nbytes) => ofile'[k] = ofile[k]
  <2>1. CASE b.nbytes = 0
    BY <2>1, <1>1, <1>2, <1>5
  <2>2. CASE b.nbytes # 0
    <3> DEFINE len == IF b.off + b.nbytes > Len(ofile) THEN b.off + b.nbytes ELSE Len(ofile)
               f == [k \in 1..len |-> IF k > b.off /\ k <= b.off + b.nbytes THEN b.data[k - b.off]
                                      ELSE IF k <= Len(ofile) THEN ofile[k] ELSE 0]
    <3>1. ofile' = f /\ len \in Nat
      BY <2>2, <1>1, <1>2, <1>5 DEF Written
    <3>2. ASSUME NEW k \in 1..len PROVE f[k] \in 0..255
      <4>1. CASE k > b.off /\ k <= b.off + b.nbytes
        <5>1. k - b.off \in 1..BSZ
          BY <4>1, <1>5, <1>1
        <5>2. b.data[k - b.off] \in 0..255
          BY <5>1, <1>5
        <5> QED
          BY <4>1, <5>2
      <4>2. CASE ~(k > b.off /\ k <= b.off + b.nbytes) /\ k <= Len(ofile)
        <5>1. ofile[k] \in 0..255
          BY <4>2, <1>1, MemberOfSeq
        <5> QED
          BY <4>2, <5>1
      <4>3. CASE ~(k > b.off /\ k <= b.off + b.nbytes) /\ ~(k <= Len(ofile))
        BY <4>3
      <4> QED
        BY <4>1, <4>2, <4>3
    <3>3. f \in [1..len -> 0..255]
      BY <3>2
    <3>4. f \in Seq(0..255) /\ Len(f) = len
      <4> HIDE DEF f, len
      <4> QED
        BY <3>1, <3>3
    <3>5. ASSUME NEW k \in Nat, b.off < k, k <= b.off + b.nbytes PROVE f[k] = translate(Input[k])
      <4>1. k \in 1..len /\ k - b.off \in 1..BSZ /\ k - b.off <= b.nbytes /\ b.off + (k - b.off) = k
        BY <3>5, <1>5, <1>1
      <4>2. b.data[k - b.off] = translate(Input[b.off + (k - b.off)])
        BY <4>1, <1>5
      <4> QED
        BY <4>1, <4>2, <3>5
    <3>6. ASSUME NEW k \in 1..Len(ofile), ~(b.off < k /\ k <= b.off + b.nbytes) PROVE f[k] = ofile[k]
      <4>1. k \in 1..len
        BY <1>1, <1>5
      <4> QED
        BY <4>1, <3>6
    <3> HIDE DEF f
    <3>7. Len(ofile') = len /\ ofile' \in Seq(0..255)
      BY <3>1, <3>4
    <3> QED
      BY <3>1, <3>5, <3>6, <3>7, <2>2, <1>1, <1>5
  <2> QED
    BY <2>1, <2>2
<1>15. Covered1'
  <2> SUFFICES ASSUME NEW k \in 1..Len(ofile') PROVE k <= st_size /\ (Right(k)' \/ Awaited(k)')
    BY DEF Covered1, st_size
  <2>0. k \in Nat \ {0}
    BY <1>14
  <2>1. CASE b.off < k /\ k <= b.off + b.nbytes
    BY <2>0, <2>1, <1>14, <1>5, <1>1 DEF Right
  <2>2. CASE ~(b.off < k /\ k <= b.off + b.nbytes) /\ k <= Len(ofile)
    <3>1. k \in 1..Len(ofile)
      BY <2>2, <2>0, <1>1
    <3>2. k <= st_size /\ (Right(k) \/ Awaited(k)) /\ (Right(k) => Right(k)')
      BY <3>1, <2>2, <1>12, <1>14 DEF Right
    <3>3. ~(b.off < k /\ k <= b.off + BSZ) \/ b.last
      BY <2>2, <1>5
    <3> QED
      BY <2>0, <3>2, <3>3, <1>11
  <2>3. CASE ~(b.off < k /\ k <= b.off + b.nbytes) /\ k > Len(ofile)
    <3>1. k <= b.off
      BY <2>0, <2>3, <1>14, <1>5, <1>1
    <3>2. Whole(k) /\ k <= st_size
      BY <3>1, <2>0, <1>5, <1>1 DEF Whole
    <3>3. Awaited(k)
      BY <3>2, <2>0, <2>3, <1>13, <1>1
    <3> QED
      BY <3>1, <3>2, <3>3, <2>0, <1>11, <1>5
  <2> QED
    BY <2>0, <2>1, <2>2, <2>3, <1>1
<1>16. Covered2'
  <2> SUFFICES ASSUME NEW k \in Nat \ {0}, Whole(k)' PROVE (k <= Len(ofile') /\ Right(k)') \/ Awaited(k)'
    BY DEF Covered2
  <2>1. Whole(k)
    BY <1>2 DEF Whole, st_size
  <2>2. (k <= Len(ofile) /\ Right(k)) \/ Awaited(k)
    BY <2>1, <1>13
  <2>3. CASE b.off < k /\ k <= b.off + b.nbytes
    BY <2>3, <1>14, <1>5, <1>1 DEF Right
  <2>4. CASE ~(b.off < k /\ k <= b.off + b.nbytes)
    <3>1. ~(b.off < k /\ k <= b.off + BSZ) \/ b.last
      BY <2>4, <1>5
    <3>2. CASE Awaited(k)
      BY <3>1, <3>2, <1>11
    <3>3. CASE k <= Len(ofile) /\ Right(k)
      <4>1. k \in 1..Len(ofile)
        BY <3>3, <1>1
      <4>2. ofile'[k] = ofile[k] /\ k <= Len(ofile')
        BY <4>1, <2>4, <1>14, <1>1, <1>5
      <4> QED
        BY <4>2, <3>3 DEF Right
    <3> QED
      BY <3>2, <3>3, <2>2
  <2> QED
    BY <2>3, <2>4
<1>17. Covered3'
  <2> SUFFICES ASSUME offset >= st_size
               PROVE  \/ \E j \in BufIds : Unwritten(bufs'[j]) /\ bufs'[j].last
                      \/ Len(ofile') = st_size \/ isize < st_size
    BY <1>2 DEF Covered3, st_size
  <2>1. Len(ofile) <= st_size
    BY <1>12, <1>1
  <2>2. CASE b.last
    BY <2>1, <2>2, <1>5, <1>14, <1>1
  <2>3. CASE ~b.last
    <3>1. \/ \E j \in BufIds : Unwritten(bufs[j]) /\ bufs[j].last
          \/ Len(ofile) = st_size \/ isize < st_size
      BY DEF RotInv, Covered3
    <3>2. ASSUME NEW j \in BufIds, Unwritten(bufs[j]), bufs[j].last PROVE Unwritten(bufs'[j]) /\ bufs'[j].last
      BY <3>2, <2>3, <1>6 DEF b
    <3>3. Len(ofile) = st_size => Len(ofile') = st_size
      BY <1>14, <1>5, <1>1
    <3> QED
      BY <3>1, <3>2, <3>3
  <2> QED
    BY <2>2, <2>3
<1>18. OffsetIsNear'
    BY <1>2 DEF RotInv, OffsetIsNear, st_size
<1>19. numop' = Cardinality({j \in BufIds : Pending(bufs[j])}')
  <2>1. {j \in BufIds : Pending(bufs'[j])} = {j \in BufIds : Pending(bufs[j])}
    BY <1>6, <1>7, <1>3 DEF b
  <2> QED
    BY <2>1, <1>2 DEF RotInv
<1>20. RotTypes' /\ rmain' # "exit"
  <2>1. rmain # "exit"
    BY <1>3, RequestMeansRunning DEF b
  <2> QED
    BY <2>1, <1>2, <1>6, <1>14 DEF RotInv, RotTypes, st_size
<1> QED
    BY <1>9, <1>10, <1>15, <1>16, <1>17, <1>18, <1>19, <1>20 DEF RotInv

\* Every step of the program and of the kernel keeps the invariant.
LEMMA RotInvStep == RotInv /\ [RotNext]_rotVars => RotInv'
<1> SUFFICES ASSUME RotInv, [RotNext]_rotVars PROVE RotInv'
    OBVIOUS
<1>0. /\ rmain \in {"idle", "scan", "suspend", "failed", "exit"} /\ scan \in 0..NBUF /\ NBUF \in Nat /\ isize \in Nat
      /\ numop \in Nat /\ offset \in Nat /\ isize <= st_size /\ st_size \in Nat
    BY RotAssumption DEF RotInv, RotTypes, st_size
<1>1. CASE UNCHANGED rotVars
    BY <1>0, <1>1, QuietStep DEF rotVars
<1>2. CASE RotStart \/ RotQuits \/ RequestFailed \/ aio_suspend \/ InProgress
  <2>1. /\ UNCHANGED <<bufs, offset, numop, isize, ofile>> /\ rmain' \in {"scan", "failed"}
        /\ scan' \in 0..NBUF
    BY <1>0, <1>2 DEF RotStart, RotQuits, RequestFailed, aio_suspend, InProgress, Scanning, Unchanged
  <2> QED
    BY <1>0, <2>1, QuietStep
<1>3. CASE ScanEnds
  <2>1. /\ UNCHANGED <<bufs, offset, numop, isize, ofile>> /\ scan' \in 0..NBUF
        /\ rmain' = IF numop # 0 THEN "suspend" ELSE IF offset >= st_size THEN "exit" ELSE "scan"
    BY <1>0, <1>3 DEF ScanEnds, Unchanged
  <2> QED
    BY <1>0, <2>1, QuietStep
<1>4. CASE Cut
  <2>1. UNCHANGED <<rmain, scan, bufs, offset, numop, ofile>> /\ isize' \in Nat /\ isize' <= isize
    BY <1>0, <1>4 DEF Cut
  <2> QED
    BY <1>0, <2>1, QuietStep
<1>5. CASE \E i \in BufIds : Complete(i) \/ IoError(i)
    BY <1>5, KernelReadKeeps, KernelWriteKeeps
<1> QED
    BY <1>1, <1>2, <1>3, <1>4, <1>5, StartReadKeeps, ReadDoneKeeps, WriteDoneKeeps DEF RotNext, RotSteps

\* ExitMeansTranslated: for every input, block size and number of buffers, and
\* in whatever order the kernel completes the requests, a program that exits
\* with 0 has written the translation of its input.
THEOREM OutputIsTheTranslation == RotSpec => []ExitMeansTranslated
<1>1. RotInit => RotInv
  <2> SUFFICES ASSUME RotInit PROVE RotInv
    OBVIOUS
  <2>0. st_size \in Nat /\ NBUF \in Nat /\ BSZ \in Nat \ {0}
    BY RotAssumption DEF st_size
  <2>1. UnusedBuf \in Buffer
    BY <2>0 DEF UnusedBuf, Buffer
  <2>2. \A i \in BufIds : bufs[i] = UnusedBuf
    BY DEF RotInit
  <2>3. UnusedBuf.op = "UNUSED" /\ UnusedBuf.aio = "none" /\ UnusedBuf.last = FALSE
    BY DEF UnusedBuf
  <2>4. ~Pending(UnusedBuf) /\ ~Unwritten(UnusedBuf)
    BY <2>3 DEF Pending, Unwritten
  <2>5. SoundBuffer(UnusedBuf, offset, isize)
    BY <2>3 DEF SoundBuffer, Pending
  <2>6. RotTypes
    BY <2>0, <2>1 DEF RotTypes, RotInit
  <2>7. DisjointBlocks /\ Covered1 /\ OffsetIsNear
    BY <2>0, <2>2, <2>4 DEF DisjointBlocks, Covered1, OffsetIsNear, RotInit
  <2>8. Covered2 /\ Covered3
    BY <2>0 DEF Covered2, Covered3, Whole, RotInit
  <2>9. {i \in BufIds : Pending(bufs[i])} = {}
    BY <2>2, <2>4
  <2> QED
    BY <2>2, <2>5, <2>6, <2>7, <2>8, <2>9, FS_EmptySet DEF RotInv, RotInit
<1>2. RotInv => ExitMeansTranslated
  <2> SUFFICES ASSUME RotInv, rmain = "exit"
               PROVE  /\ \A k \in DOMAIN ofile : ofile[k] = Rotated(Input[k])
                      /\ Len(ofile) = st_size \/ (isize < st_size /\ Len(ofile) >= st_size - BSZ)
    BY DEF ExitMeansTranslated
  <2>1. /\ numop = 0 /\ offset >= st_size /\ offset \in Nat /\ st_size \in Nat /\ BSZ \in Nat \ {0}
        /\ Len(ofile) \in Nat /\ DOMAIN ofile = 1..Len(ofile) /\ isize \in Nat
    BY RotAssumption DEF RotInv, RotTypes, st_size
  <2>2. \A i \in BufIds : ~Pending(bufs[i])
    BY <2>1, RequestMeansRunning
  <2>3. (\A k : ~Awaited(k)) /\ ~\E i \in BufIds : Unwritten(bufs[i]) /\ bufs[i].last
    BY <2>2 DEF Awaited, Unwritten, Pending
  <2>4. \A k \in 1..Len(ofile) : k <= st_size /\ Right(k)
    BY <2>3 DEF RotInv, Covered1
  <2>5. \A k \in DOMAIN ofile : ofile[k] = Rotated(Input[k])
    <3> SUFFICES ASSUME NEW k \in 1..Len(ofile) PROVE ofile[k] = Rotated(Input[k])
      BY <2>1
    <3>1. k \in 1..st_size /\ ofile[k] = translate(Input[k])
      BY <2>1, <2>4 DEF Right
    <3> QED
      BY <3>1, InputHasBytes, TranslateRotates
  <2>6. Len(ofile) <= st_size /\ (Len(ofile) = st_size \/ isize < st_size)
    <3>1. CASE Len(ofile) = 0
      BY <3>1, <2>1, <2>3 DEF RotInv, Covered3
    <3>2. CASE Len(ofile) # 0
      <4>1. Len(ofile) \in 1..Len(ofile)
        BY <3>2, <2>1
      <4>2. Len(ofile) <= st_size
        BY <4>1, <2>4
      <4>3. Covered3
        BY DEF RotInv
      <4>4. Len(ofile) = st_size \/ isize < st_size
        BY <4>3, <2>1, <2>3 DEF Covered3
      <4> QED
        BY <4>2, <4>4
    <3> QED
      BY <3>1, <3>2
  <2>7. Len(ofile) >= st_size - BSZ
    <3>1. CASE offset <= BSZ
      BY <3>1, <2>1
    <3>2. CASE offset > BSZ
      <4>1. offset - BSZ \in Nat \ {0} /\ Whole(offset - BSZ)
        BY <3>2, <2>1 DEF Whole
      <4>2. offset - BSZ <= Len(ofile)
        BY <4>1, <2>3 DEF RotInv, Covered2
      <4> QED
        BY <4>2, <2>1
    <3> QED
      BY <3>1, <3>2, <2>1
  <2> QED
    BY <2>5, <2>6, <2>7
<1> QED
    BY <1>1, <1>2, RotInvStep, PTL DEF RotSpec

-----------------------------------------------------------------------------
(* Semaph: lib/semaph.c. *)

LockPcs == {"getval", "set0", "set1", "end", "closing", "remove", "unlock"}
UsePcs == {"use", "hold"}
SemPcs == LockPcs \cup UsePcs \cup {"none", "dead", "lock", "sleep", "open"}
SetRecs == [val : Int, cnt : Int, lock : Int, live : BOOLEAN]
ProcRecs == [pc : SemPcs, id : Nat, by : {"none", "create", "open"},
             undo : [val : Int, cnt : Int, lock : Int]]

\* The set of the key is the only one that is not removed.
SemTypes ==
    /\ sems \in Seq(SetRecs)
    /\ key \in Nat /\ key <= Len(sems)
    /\ sproc \in [SemProcs -> ProcRecs]
    /\ \A p \in SemProcs : /\ sproc[p].id <= Len(sems)
                           /\ sproc[p].id = 0 => sproc[p].pc \in {"none", "dead"}
                           /\ sproc[p].pc = "open" => sproc[p].by = "open"
    /\ \A id \in 1..Len(sems) : sems[id].live <=> id = key

\* What the kernel will undo for a process is what it has done: nothing is undone
\* twice, and SETVAL takes nothing away that is still needed.
Due(pc) == Ops(IF pc = "hold" THEN 1 ELSE 0, IF pc \in UsePcs THEN 1 ELSE 0, IF pc \in LockPcs THEN -1 ELSE 0)
UndoIsDue == \A p \in SemProcs : sproc[p].undo = Due(sproc[p].pc)

\* While a creator initializes the set its counter is 0, and its value is in
\* place before the counter says so.
Initializing ==
    \A p \in SemProcs : sproc[p].pc \in {"set0", "set1"} /\ sems[sproc[p].id].live =>
       /\ sems[sproc[p].id].cnt = 0
       /\ sproc[p].pc = "set1" => sems[sproc[p].id].val = InitVal

\* Who uses a set that is about to be removed got it from sem_open.
RemovedUnderOpeners ==
    \A p, r \in SemProcs : sproc[p].pc = "remove" /\ sproc[r].pc \in UsePcs /\ sproc[r].id = sproc[p].id =>
       sproc[r].by = "open"

SemInv == /\ SemTypes /\ UndoIsDue /\ Initializing /\ RemovedUnderOpeners
          /\ SetCountsItsUsers /\ CreatedSemaphoreStays

Locks(r, id) == IF r.id = id /\ r.pc \in LockPcs THEN 1 ELSE 0
Uses(r, id) == IF r.id = id /\ r.pc \in UsePcs THEN 1 ELSE 0
Holds(r, id) == IF r.id = id /\ r.pc = "hold" THEN 1 ELSE 0

\* The processes a set counts are some of the processes, and the holders are
\* among its users.
LEMMA SemSetsAreFinite ==
    ASSUME NEW id
    PROVE  /\ IsFiniteSet(Users(id)) /\ IsFiniteSet(Holders(id)) /\ IsFiniteSet(Lockers(id))
           /\ Cardinality(Users(id)) \in Nat /\ Cardinality(Holders(id)) \in Nat /\ Cardinality(Lockers(id)) \in Nat
           /\ Cardinality(Users(id)) < BIGCOUNT
           /\ Holders(id) \subseteq Users(id)
<1>0. IsFiniteSet(SemProcs) /\ BIGCOUNT > Cardinality(SemProcs) /\ BIGCOUNT \in Nat
    BY SemaphAssumption
<1>7. Cardinality(SemProcs) \in Nat
    BY <1>0, FS_CardinalityType
<1>1. IsFiniteSet(SemProcs) /\ Cardinality(SemProcs) < BIGCOUNT /\ BIGCOUNT \in Nat /\ Cardinality(SemProcs) \in Nat
    BY <1>0, <1>7
<1>2. Users(id) \subseteq SemProcs /\ Holders(id) \subseteq SemProcs /\ Lockers(id) \subseteq SemProcs
    BY DEF Users, Holders, Lockers
<1>3. IsFiniteSet(Users(id)) /\ IsFiniteSet(Holders(id)) /\ IsFiniteSet(Lockers(id))
    BY <1>1, <1>2, FS_Subset
<1>4. Cardinality(Users(id)) <= Cardinality(SemProcs)
    BY <1>1, <1>2, FS_Subset
<1>5. Cardinality(Users(id)) \in Nat /\ Cardinality(Holders(id)) \in Nat /\ Cardinality(Lockers(id)) \in Nat
    BY <1>3, FS_CardinalityType
<1>6. Cardinality(Users(id)) < BIGCOUNT
    BY <1>1, <1>4, <1>5
<1> QED
    BY <1>3, <1>5, <1>6 DEF Users, Holders

\* How a finite set's size changes when one element may leave it and may enter it.
LEMMA LeaveAndEnter ==
    ASSUME NEW S, NEW T, NEW x, IsFiniteSet(S), T \ {x} = S \ {x}
    PROVE  /\ IsFiniteSet(T)
           /\ Cardinality(T) = Cardinality(S) - (IF x \in S THEN 1 ELSE 0) + (IF x \in T THEN 1 ELSE 0)
<1>1. IsFiniteSet(S \ {x}) /\ Cardinality(S \ {x}) = IF x \in S THEN Cardinality(S) - 1 ELSE Cardinality(S)
    BY FS_RemoveElement
<1>2. CASE x \in T
  <2>1. T = (S \ {x}) \cup {x}
    BY <1>2
  <2>2. IsFiniteSet(T) /\ Cardinality(T) = Cardinality(S \ {x}) + 1
    BY <1>1, <2>1, FS_AddElement
  <2>3. Cardinality(S) \in Nat
    BY FS_CardinalityType
  <2> QED
    BY <1>1, <1>2, <2>2, <2>3
<1>3. CASE x \notin T
  <2>1. T = S \ {x}
    BY <1>3
  <2>3. Cardinality(S) \in Nat
    BY FS_CardinalityType
  <2> QED
    BY <1>1, <1>3, <2>1, <2>3
<1> QED
    BY <1>2, <1>3

\* The lock of a set that counts its lockers keeps the others out.
LEMMA OneLocker ==
    ASSUME SemInv, NEW p \in SemProcs, NEW r \in SemProcs,
           sproc[p].pc \in LockPcs, sproc[r].pc \in LockPcs, sproc[p].id = sproc[r].id,
           sproc[p].id \in 1..Len(sems), sems[sproc[p].id].live
    PROVE  p = r
<1> DEFINE L == Lockers(sproc[p].id)
<1>1. p \in L /\ r \in L
    BY DEF Lockers, LockPcs
<1>2. Cardinality(L) <= 1
  <2>1. sproc[p].id \in DOMAIN sems
    BY DEF SemInv, SemTypes
  <2> QED
    BY <2>1 DEF SemInv, SetCountsItsUsers, Live
<1>3. IsFiniteSet(L)
    BY SemSetsAreFinite
<1> HIDE DEF L
<1>4. IsFiniteSet(L \ {p}) /\ Cardinality(L \ {p}) = Cardinality(L) - 1
    BY <1>1, <1>3, FS_RemoveElement
<1>6. Cardinality(L) \in Nat /\ Cardinality(L \ {p}) \in Nat
    BY <1>3, <1>4, FS_CardinalityType
<1>7. Cardinality(L \ {p}) = 0
    BY <1>2, <1>4, <1>6
<1>5. L \ {p} = {}
    BY <1>4, <1>7, FS_EmptySet
<1> QED
    BY <1>1, <1>5

\* A step of one process, on the set it has: the counts stay right if the members
\* of the set change as the process does.
LEMMA CountsKeep ==
    ASSUME SemInv, NEW p \in SemProcs, NEW r, NEW id, NEW s \in SetRecs,
           id = sproc[p].id, id \in 1..Len(sems), r.id \in {id, 0},
           sproc' = [sproc EXCEPT ![p] = r], sems' = [sems EXCEPT ![id] = s],
           s.live => /\ sems[id].live
                     /\ s.lock = sems[id].lock - Locks(sproc[p], id) + Locks(r, id) /\ s.lock <= 1
                     /\ \/ /\ sems[id].cnt = 0 /\ Uses(r, id) = 0
                           /\ s.cnt = 0 \/ (s.cnt = BIGCOUNT /\ s.val = InitVal)
                        \/ /\ sems[id].cnt # 0
                           /\ s.cnt = sems[id].cnt + Uses(sproc[p], id) - Uses(r, id)
                           /\ s.val = sems[id].val + Holds(sproc[p], id) - Holds(r, id)
    PROVE  SetCountsItsUsers'
<1>0. /\ sems \in Seq(SetRecs) /\ sproc \in [SemProcs -> ProcRecs]
      /\ DOMAIN sems = 1..Len(sems) /\ Len(sems) \in Nat
      /\ BIGCOUNT \in Nat /\ InitVal \in Nat
    BY SemaphAssumption DEF SemInv, SemTypes
<1>1. /\ sproc'[p] = r /\ \A o \in SemProcs : o # p => sproc'[o] = sproc[o]
      /\ DOMAIN sems' = DOMAIN sems /\ sems'[id] = s
      /\ \A i \in DOMAIN sems : i # id => sems'[i] = sems[i]
    BY <1>0
<1>2. SUFFICES ASSUME NEW i \in DOMAIN sems, sems'[i].live
               PROVE  /\ sems'[i].lock = Cardinality(Lockers(i)') /\ sems'[i].lock <= 1
                      /\ IF sems'[i].cnt = 0
                           THEN Users(i)' = {}
                           ELSE /\ sems'[i].cnt = BIGCOUNT - Cardinality(Users(i)')
                                /\ sems'[i].val = InitVal - Cardinality(Holders(i)')
    BY <1>1 DEF SetCountsItsUsers, Live
<1>3. CASE i # id
  <2>1. Lockers(i)' = Lockers(i) /\ Users(i)' = Users(i) /\ Holders(i)' = Holders(i)
    BY <1>0, <1>1, <1>3 DEF Lockers, Users, Holders
  <2>2. sems'[i] = sems[i]
    BY <1>1, <1>3
  <2> QED
    BY <1>2, <2>1, <2>2 DEF SemInv, SetCountsItsUsers, Live
<1>4. CASE i = id
  <2> DEFINE L == Lockers(id)  L2 == Lockers(id)'
             U == Users(id)    U2 == Users(id)'
             H == Holders(id)  H2 == Holders(id)'
  <2>1. L2 \ {p} = L \ {p} /\ U2 \ {p} = U \ {p} /\ H2 \ {p} = H \ {p}
    BY <1>1 DEF Lockers, Users, Holders
  <2>2. /\ (IF p \in L THEN 1 ELSE 0) = Locks(sproc[p], id) /\ (IF p \in L2 THEN 1 ELSE 0) = Locks(r, id)
        /\ (IF p \in U THEN 1 ELSE 0) = Uses(sproc[p], id) /\ (IF p \in U2 THEN 1 ELSE 0) = Uses(r, id)
        /\ (IF p \in H THEN 1 ELSE 0) = Holds(sproc[p], id) /\ (IF p \in H2 THEN 1 ELSE 0) = Holds(r, id)
    BY <1>1 DEF Lockers, Users, Holders, Locks, Uses, Holds, LockPcs, UsePcs
  <2>3. H2 \subseteq U2
    BY DEF Users, Holders
  <2>4. /\ IsFiniteSet(L) /\ IsFiniteSet(U) /\ IsFiniteSet(H)
        /\ Cardinality(L) \in Nat /\ Cardinality(U) \in Nat /\ Cardinality(H) \in Nat
    BY SemSetsAreFinite
  <2>5. U2 \subseteq SemProcs
    BY DEF Users
  <2>6. /\ sems[id].live =>
              /\ sems[id].lock = Cardinality(L)
              /\ sems[id].cnt = 0 => U = {}
              /\ sems[id].cnt # 0 => /\ sems[id].cnt = BIGCOUNT - Cardinality(U)
                                     /\ sems[id].val = InitVal - Cardinality(H)
    BY <1>0 DEF SemInv, SetCountsItsUsers, Live
  <2> HIDE DEF L, L2, U, U2, H, H2
  <2>7. /\ Cardinality(L2) = Cardinality(L) - Locks(sproc[p], id) + Locks(r, id)
        /\ Cardinality(U2) = Cardinality(U) - Uses(sproc[p], id) + Uses(r, id) /\ IsFiniteSet(U2)
        /\ Cardinality(H2) = Cardinality(H) - Holds(sproc[p], id) + Holds(r, id)
    BY <2>1, <2>2, <2>4, LeaveAndEnter
  <2>8. Cardinality(U2) \in Nat /\ Cardinality(U2) < BIGCOUNT
    <3>1. Cardinality(U2) \in Nat /\ Cardinality(U2) <= Cardinality(SemProcs)
      BY <2>5, <2>7, FS_Subset, FS_CardinalityType, SemaphAssumption
    <3> QED
      BY <3>1, SemaphAssumption, FS_CardinalityType
  <2>9. /\ Locks(sproc[p], id) \in 0..1 /\ Locks(r, id) \in 0..1 /\ Uses(sproc[p], id) \in 0..1 /\ Uses(r, id) \in 0..1
        /\ Holds(sproc[p], id) \in 0..1 /\ Holds(r, id) \in 0..1
    BY DEF Locks, Uses, Holds
  <2>10. s.live
    BY <1>1, <1>2, <1>4
  <2>11. s.lock = Cardinality(L2) /\ s.lock <= 1
    BY <2>6, <2>7, <2>10
  <2>12. CASE sems[id].cnt = 0
    <3>1. U = {} /\ Uses(r, id) = 0 /\ (s.cnt = 0 \/ (s.cnt = BIGCOUNT /\ s.val = InitVal))
      BY <2>6, <2>10, <2>12
    <3>2. p \notin U2
      BY <2>2, <3>1
    <3>3. U2 = {}
      BY <2>1, <3>1, <3>2
    <3>4. H2 = {}
      BY <2>3, <3>3 DEF U2, H2
    <3> QED
      BY <1>0, <1>1, <1>4, <2>11, <3>1, <3>3, <3>4, FS_EmptySet DEF L2, U2, H2
  <2>13. CASE sems[id].cnt # 0
    <3>1. s.cnt = BIGCOUNT - Cardinality(U2) /\ s.val = InitVal - Cardinality(H2)
      BY <1>0, <2>4, <2>6, <2>7, <2>9, <2>10, <2>13, SMTT(30)
    <3>2. s.cnt # 0
      BY <1>0, <2>8, <3>1
    <3> QED
      BY <1>1, <1>4, <2>11, <3>1, <3>2 DEF L2, U2, H2
  <2> QED
    BY <2>12, <2>13
<1> QED
    BY <1>3, <1>4

\* A step of one process on the set it has: it changes the counts as CountsKeep
\* asks, leaves the value and the counter of a set alone that another process
\* initializes, becomes a user under the lock or as an opener, and removes the
\* set under nobody but a server's clients.
SetStep(p, r, id, s) ==
    /\ id = sproc[p].id /\ id \in 1..Len(sems) /\ r.id \in {id, 0}
    /\ sproc' = [sproc EXCEPT ![p] = r] /\ sems' = [sems EXCEPT ![id] = s]
    /\ SetCountsItsUsers'
    /\ r.undo = Due(r.pc) /\ (r.id = 0 => r.pc \in {"none", "dead"}) /\ r.pc # "open"
    /\ \/ s.live = sems[id].live /\ key' = key
       \/ sems[id].live /\ ~s.live /\ key' = 0 /\ (sproc[p].pc = "remove" \/ forced')
    /\ ~forced' => ~forced
    /\ s.live /\ r.pc \in {"set0", "set1"} => s.cnt = 0
    /\ s.live /\ r.pc = "set1" => s.val = InitVal
    /\ s.live /\ sems[id].cnt = 0 => (s.cnt = 0 /\ s.val = sems[id].val) \/ sproc[p].pc \in LockPcs
    /\ r.pc = "remove" => sproc[p].pc = "remove" \/ (Users(id) = {} /\ sems[id].live)
    /\ r.pc \in UsePcs => \/ r.by = "open" \/ (sproc[p].pc \in UsePcs /\ r.by = sproc[p].by)
                          \/ (sproc[p].pc \in LockPcs /\ sems[id].live)
    /\ r.pc \in {"use", "hold", "closing"} => s.live

\* Such a step preserves the invariant.
LEMMA SetStepKeeps ==
    ASSUME SemInv, NEW p \in SemProcs, NEW r \in ProcRecs, NEW id, NEW s \in SetRecs, SetStep(p, r, id, s)
    PROVE  SemInv'
<1> USE DEF SetStep
<1>0. /\ sems \in Seq(SetRecs) /\ sproc \in [SemProcs -> ProcRecs]
      /\ DOMAIN sems = 1..Len(sems) /\ Len(sems) \in Nat /\ key \in Nat /\ key <= Len(sems)
      /\ \A o \in SemProcs : /\ sproc[o].id <= Len(sems) /\ sproc[o].id \in Nat
                             /\ sproc[o].id = 0 => sproc[o].pc \in {"none", "dead"}
                             /\ sproc[o].pc = "open" => sproc[o].by = "open"
      /\ \A i \in 1..Len(sems) : sems[i].live <=> i = key
    BY DEF SemInv, SemTypes, ProcRecs
<1>1. /\ sproc'[p] = r /\ \A o \in SemProcs : o # p => sproc'[o] = sproc[o]
      /\ sproc' \in [SemProcs -> ProcRecs] /\ sems' \in Seq(SetRecs)
      /\ Len(sems') = Len(sems) /\ sems'[id] = s
      /\ \A i \in 1..Len(sems) : i # id => sems'[i] = sems[i]
    BY <1>0
<1>2. \A o \in SemProcs : sproc[o].pc \notin {"none", "dead"} => sproc[o].id \in 1..Len(sems)
    BY <1>0
<1>3. \A i \in 1..Len(sems) : sems'[i].live <=> i = key'
    BY <1>0, <1>1
<1>4. SemTypes'
  <2>1. key' \in Nat /\ key' <= Len(sems)
    BY <1>0
  <2>2. \A o \in SemProcs : /\ sproc'[o].id <= Len(sems)
                            /\ sproc'[o].id = 0 => sproc'[o].pc \in {"none", "dead"}
                            /\ sproc'[o].pc = "open" => sproc'[o].by = "open"
    BY <1>0, <1>1
  <2> QED
    BY <1>1, <1>3, <2>1, <2>2 DEF SemTypes
<1>5. UndoIsDue'
    BY <1>1 DEF SemInv, UndoIsDue
<1>6. Initializing'
  <2> SUFFICES ASSUME NEW o \in SemProcs, sproc'[o].pc \in {"set0", "set1"}, sems'[sproc'[o].id].live
               PROVE  /\ sems'[sproc'[o].id].cnt = 0
                      /\ sproc'[o].pc = "set1" => sems'[sproc'[o].id].val = InitVal
    BY DEF Initializing
  <2>1. CASE o = p
    BY <1>1, <2>1
  <2>2. CASE o # p
    <3>1. sproc'[o] = sproc[o] /\ sproc[o].id \in 1..Len(sems) /\ sproc[o].pc \in {"set0", "set1"}
      BY <1>1, <1>2, <2>2
    <3>2. CASE sproc[o].id # id
      <4>1. sems'[sproc[o].id] = sems[sproc[o].id]
        BY <1>1, <3>1, <3>2
      <4> QED
        BY <3>1, <4>1 DEF SemInv, Initializing
    <3>3. CASE sproc[o].id = id
      <4>1. s.live /\ sems[id].live
        BY <1>1, <3>1, <3>3
      <4>2. sems[id].cnt = 0 /\ (sproc[o].pc = "set1" => sems[id].val = InitVal)
        BY <3>1, <3>3, <4>1 DEF SemInv, Initializing
      <4>3. sproc[p].pc \notin LockPcs
        BY <2>2, <3>1, <3>3, <4>1, OneLocker DEF LockPcs
      <4> QED
        BY <1>1, <3>1, <3>3, <4>1, <4>2, <4>3
    <3> QED
      BY <3>2, <3>3
  <2> QED
    BY <2>1, <2>2
<1>7. RemovedUnderOpeners'
  <2> SUFFICES ASSUME NEW o \in SemProcs, NEW u \in SemProcs, sproc'[o].pc = "remove", sproc'[u].pc \in UsePcs,
                      sproc'[u].id = sproc'[o].id
               PROVE  sproc'[u].by = "open"
    BY DEF RemovedUnderOpeners
  <2>0. o # u
    BY DEF UsePcs
  <2>1. CASE o = p
    <3>1. sproc'[u] = sproc[u] /\ r.pc = "remove" /\ r.id = id /\ sproc[u].id = id /\ sproc[u].pc \in UsePcs
      BY <1>1, <2>0, <2>1
    <3>2. u \in Users(id)
      BY <3>1 DEF Users, UsePcs
    <3> QED
      BY <3>1, <3>2 DEF SemInv, RemovedUnderOpeners
  <2>2. CASE u = p
    <3>1. sproc'[o] = sproc[o] /\ r.pc \in UsePcs /\ r.id = id /\ sproc[o].id = id /\ sproc[o].pc = "remove" /\ sproc'[u] = r
      BY <1>1, <2>0, <2>2 DEF UsePcs
    <3>2. CASE sproc[p].pc \in UsePcs
      BY <3>1, <3>2 DEF SemInv, RemovedUnderOpeners, UsePcs, LockPcs
    <3>3. CASE sproc[p].pc \in LockPcs /\ sems[id].live
      BY <2>0, <2>2, <3>1, <3>3, OneLocker DEF LockPcs
    <3> QED
      BY <3>1, <3>2, <3>3
  <2>3. CASE o # p /\ u # p
    BY <1>1, <2>3 DEF SemInv, RemovedUnderOpeners
  <2> QED
    BY <2>1, <2>2, <2>3
<1>8. CreatedSemaphoreStays'
  <2> SUFFICES ASSUME ~forced', NEW o \in SemProcs, sproc'[o].by = "create", sproc'[o].pc \in {"use", "hold", "closing"}
               PROVE  sems'[sproc'[o].id].live /\ key' = sproc'[o].id
    BY DEF CreatedSemaphoreStays, Live
  <2>1. sproc'[o].id \in 1..Len(sems)
    BY <1>0, <1>1, <1>2
  <2>2. sems'[sproc'[o].id].live
    <3>1. CASE o = p
      BY <1>1, <2>1, <3>1
    <3>2. CASE o # p
      <4>1. sproc'[o] = sproc[o] /\ sems[sproc[o].id].live
        BY <1>1, <3>2 DEF SemInv, CreatedSemaphoreStays, Live
      <4>2. CASE sproc[o].id # id
        BY <1>1, <2>1, <4>1, <4>2
      <4>3. CASE sproc[o].id = id
        <5>1. SUFFICES ASSUME ~s.live PROVE FALSE
          BY <1>1, <4>1, <4>3
        <5>2. sproc[p].pc = "remove"
          BY <4>1, <4>3, <5>1
        <5>3. sproc[o].pc \notin UsePcs
          BY <4>1, <4>3, <5>2 DEF SemInv, RemovedUnderOpeners
        <5>4. sproc[o].pc = "closing"
          BY <4>1, <5>3 DEF UsePcs
        <5> QED
          BY <3>2, <4>1, <4>3, <5>2, <5>4, OneLocker DEF LockPcs
      <4> QED
        BY <4>2, <4>3
    <3> QED
      BY <3>1, <3>2
  <2> QED
    BY <1>3, <2>1, <2>2
<1> QED
    BY <1>4, <1>5, <1>6, <1>7, <1>8 DEF SemInv

\* semget makes a set.
NewSet(s) == key = 0 /\ key' = Len(sems) + 1 /\ sems' = Append(sems, s)

\* A step of a process that neither has the lock of a set nor uses one, before or
\* after it, preserves the invariant: the sets stay, or a new one is made.
LEMMA OutsideStepKeeps ==
    ASSUME SemInv, NEW p \in SemProcs, NEW r \in ProcRecs, NEW zero \in SetRecs, zero.live, zero.lock = 0, zero.cnt = 0,
           sproc' = [sproc EXCEPT ![p] = r],
           sproc[p].pc \notin LockPcs \cup UsePcs, r.pc \notin LockPcs \cup UsePcs,
           r.undo = Due(r.pc), r.id = 0 => r.pc \in {"none", "dead"}, r.pc = "open" => r.by = "open",
           \/ sems' = sems /\ key' = key /\ (r.id = key \/ r.id = 0)
           \/ NewSet(zero) /\ r.id = key',
           forced' = forced
    PROVE  SemInv'
<1>0. /\ sems \in Seq(SetRecs) /\ sproc \in [SemProcs -> ProcRecs]
      /\ DOMAIN sems = 1..Len(sems) /\ Len(sems) \in Nat /\ key \in Nat /\ key <= Len(sems)
      /\ \A o \in SemProcs : /\ sproc[o].id <= Len(sems) /\ sproc[o].id \in Nat
                             /\ sproc[o].id = 0 => sproc[o].pc \in {"none", "dead"}
                             /\ sproc[o].pc = "open" => sproc[o].by = "open"
      /\ \A i \in 1..Len(sems) : sems[i].live <=> i = key
    BY DEF SemInv, SemTypes, ProcRecs
<1>1. /\ sproc'[p] = r /\ \A o \in SemProcs : o # p => sproc'[o] = sproc[o]
      /\ sproc' \in [SemProcs -> ProcRecs]
    BY <1>0
<1>2. /\ sems' \in Seq(SetRecs) /\ Len(sems') \in Nat /\ Len(sems) <= Len(sems') /\ DOMAIN sems' = 1..Len(sems')
      /\ \A i \in 1..Len(sems) : sems'[i] = sems[i]
      /\ \A i \in 1..Len(sems') : i \notin 1..Len(sems) => i = Len(sems) + 1 /\ sems'[i] = zero /\ i = key' /\ key = 0
      /\ r.id \in Nat /\ r.id <= Len(sems') /\ key' \in Nat /\ key' <= Len(sems')
      /\ key' = key \/ (key = 0 /\ key' = Len(sems) + 1)
  <2>0. r.id \in Nat
    BY DEF ProcRecs
  <2>1. CASE sems' = sems /\ key' = key /\ (r.id = key \/ r.id = 0)
    BY <1>0, <2>0, <2>1
  <2>2. CASE NewSet(zero) /\ r.id = key'
    <3>1. /\ sems' \in Seq(SetRecs) /\ Len(sems') = Len(sems) + 1 /\ DOMAIN sems' = 1..Len(sems')
          /\ \A i \in 1..Len(sems) : sems'[i] = sems[i]
          /\ sems'[Len(sems) + 1] = zero /\ key = 0 /\ key' = Len(sems) + 1
      BY <1>0, <2>0, <2>2 DEF NewSet
    <3> QED
      BY <1>0, <2>2, <3>1
  <2> QED
    BY <2>1, <2>2
<1>3. \A i \in 1..Len(sems') : sems'[i].live <=> i = key'
  <2> SUFFICES ASSUME NEW i \in 1..Len(sems') PROVE sems'[i].live <=> i = key'
    OBVIOUS
  <2>1. CASE i \in 1..Len(sems)
    BY <1>0, <1>2, <2>1
  <2>2. CASE i \notin 1..Len(sems)
    BY <1>2, <2>2
  <2> QED
    BY <2>1, <2>2
<1>4. SemTypes'
  <2>1. \A o \in SemProcs : /\ sproc'[o].id <= Len(sems')
                            /\ sproc'[o].id = 0 => sproc'[o].pc \in {"none", "dead"}
                            /\ sproc'[o].pc = "open" => sproc'[o].by = "open"
    BY <1>0, <1>1, <1>2
  <2> QED
    BY <1>1, <1>2, <1>3, <2>1 DEF SemTypes
<1>5. UndoIsDue'
    BY <1>1 DEF SemInv, UndoIsDue
<1>6. Initializing'
  <2> SUFFICES ASSUME NEW o \in SemProcs, sproc'[o].pc \in {"set0", "set1"}, sems'[sproc'[o].id].live
               PROVE  /\ sems'[sproc'[o].id].cnt = 0
                      /\ sproc'[o].pc = "set1" => sems'[sproc'[o].id].val = InitVal
    BY DEF Initializing
  <2>1. sproc'[o] = sproc[o]
    BY <1>1 DEF LockPcs
  <2>2. sproc[o].id \in 1..Len(sems)
    BY <1>0, <2>1
  <2> QED
    BY <1>2, <2>1, <2>2 DEF SemInv, Initializing
<1>7. RemovedUnderOpeners'
    BY <1>1 DEF SemInv, RemovedUnderOpeners, LockPcs, UsePcs
<1>8. SetCountsItsUsers'
  <2>1. \A i : Lockers(i)' = Lockers(i) /\ Users(i)' = Users(i) /\ Holders(i)' = Holders(i)
    BY <1>1 DEF Lockers, Users, Holders, LockPcs, UsePcs
  <2> SUFFICES ASSUME NEW i \in 1..Len(sems'), sems'[i].live
               PROVE  /\ sems'[i].lock = Cardinality(Lockers(i)) /\ sems'[i].lock <= 1
                      /\ IF sems'[i].cnt = 0
                           THEN Users(i) = {}
                           ELSE /\ sems'[i].cnt = BIGCOUNT - Cardinality(Users(i))
                                /\ sems'[i].val = InitVal - Cardinality(Holders(i))
    BY <1>2, <2>1 DEF SetCountsItsUsers, Live
  <2>2. CASE i \in 1..Len(sems)
    BY <1>0, <1>2, <2>2 DEF SemInv, SetCountsItsUsers, Live
  <2>3. CASE i \notin 1..Len(sems)
    <3>1. sems'[i] = zero /\ i = Len(sems) + 1
      BY <1>2, <2>3
    <3>2. Lockers(i) = {} /\ Users(i) = {}
      BY <1>0, <3>1 DEF Lockers, Users
    <3>3. Cardinality(Lockers(i)) = 0
      BY <3>2, FS_EmptySet
    <3>4. sems'[i].lock = 0 /\ sems'[i].cnt = 0
      BY <3>1
    <3> QED
      BY <3>2, <3>3, <3>4
  <2> QED
    BY <2>2, <2>3
<1>9. CreatedSemaphoreStays'
  <2> SUFFICES ASSUME ~forced', NEW o \in SemProcs, sproc'[o].by = "create", sproc'[o].pc \in {"use", "hold", "closing"}
               PROVE  sems'[sproc'[o].id].live /\ key' = sproc'[o].id
    BY DEF CreatedSemaphoreStays, Live
  <2>1. o # p /\ sproc'[o] = sproc[o]
    BY <1>1 DEF LockPcs, UsePcs
  <2>2. sproc[o].id \in 1..Len(sems) /\ sems[sproc[o].id].live
    BY <1>0, <2>1 DEF SemInv, CreatedSemaphoreStays, Live
  <2> QED
    BY <1>2, <1>3, <2>1, <2>2
<1> QED
    BY <1>4, <1>5, <1>6, <1>7, <1>8, <1>9 DEF SemInv

\* What semop adds to the three semaphores of a set, and to what is undone.
LEMMA PlusAdds ==
    ASSUME NEW d, d.val \in Int, d.cnt \in Int, d.lock \in Int
    PROVE  /\ \A a \in SetRecs :
                 /\ Plus(a, d) \in SetRecs /\ Plus(a, d).live = a.live
                 /\ Plus(a, d).val = a.val + d.val /\ Plus(a, d).cnt = a.cnt + d.cnt /\ Plus(a, d).lock = a.lock + d.lock
           /\ \A a \in [val : Int, cnt : Int, lock : Int] :
                 /\ Minus(a, d) \in [val : Int, cnt : Int, lock : Int]
                 /\ Minus(a, d) = [val |-> a.val - d.val, cnt |-> a.cnt - d.cnt, lock |-> a.lock - d.lock]
<1>1. ASSUME NEW a \in SetRecs
      PROVE  /\ Plus(a, d) \in SetRecs /\ Plus(a, d).live = a.live
             /\ Plus(a, d).val = a.val + d.val /\ Plus(a, d).cnt = a.cnt + d.cnt /\ Plus(a, d).lock = a.lock + d.lock
  <2> DEFINE b == [a EXCEPT !.val = a.val + d.val]
             c == [b EXCEPT !.cnt = a.cnt + d.cnt]
             e == [c EXCEPT !.lock = a.lock + d.lock]
  <2>1. b \in SetRecs /\ b.val = a.val + d.val /\ b.cnt = a.cnt /\ b.lock = a.lock /\ b.live = a.live
    BY DEF SetRecs
  <2>2. Plus(a, d) = e
    BY DEF Plus, SetRecs
  <2> HIDE DEF b
  <2>3. c \in SetRecs /\ c.val = b.val /\ c.cnt = a.cnt + d.cnt /\ c.lock = a.lock /\ c.live = a.live
    BY <2>1 DEF SetRecs
  <2> HIDE DEF c
  <2>4. e \in SetRecs /\ e.val = c.val /\ e.cnt = c.cnt /\ e.lock = a.lock + d.lock /\ e.live = a.live
    BY <2>3 DEF SetRecs
  <2> HIDE DEF e
  <2> QED
    BY <2>1, <2>2, <2>3, <2>4
<1>2. ASSUME NEW a \in [val : Int, cnt : Int, lock : Int]
      PROVE  /\ Minus(a, d) \in [val : Int, cnt : Int, lock : Int]
             /\ Minus(a, d) = [val |-> a.val - d.val, cnt |-> a.cnt - d.cnt, lock |-> a.lock - d.lock]
  <2> DEFINE U == [val : Int, cnt : Int, lock : Int]
             b == [a EXCEPT !.val = a.val - d.val]
             c == [b EXCEPT !.cnt = a.cnt - d.cnt]
             e == [c EXCEPT !.lock = a.lock - d.lock]
  <2>1. b \in U /\ b.val = a.val - d.val /\ b.cnt = a.cnt /\ b.lock = a.lock
    OBVIOUS
  <2>2. Minus(a, d) = e
    BY DEF Minus, Plus, Ops
  <2> HIDE DEF b
  <2>3. c \in U /\ c.val = b.val /\ c.cnt = a.cnt - d.cnt /\ c.lock = a.lock
    BY <2>1
  <2> HIDE DEF c
  <2>4. e \in U /\ e.val = c.val /\ e.cnt = c.cnt /\ e.lock = a.lock - d.lock
    BY <2>3
  <2> HIDE DEF e
  <2>5. e = [val |-> a.val - d.val, cnt |-> a.cnt - d.cnt, lock |-> a.lock - d.lock]
    BY <2>1, <2>3, <2>4
  <2> QED
    BY <2>2, <2>4, <2>5
<1> QED
    BY <1>1, <1>2

\* A system call that changes the set of a process that has the lock, or uses the
\* set, preserves the invariant: the three counts move with the process.
LEMMA SemopKeeps ==
    ASSUME SemInv, NEW p \in SemProcs, NEW d, NEW pc \in SemPcs, sproc[p].id # 0, sems[sproc[p].id].live,
           Semop(p, d, pc), UNCHANGED <<key, forced>>,
           \/ /\ sproc[p].pc \in {"lock", "sleep"} /\ d = op_lock /\ pc = "getval"
              /\ sems[sproc[p].id].lock = 0
           \/ sproc[p].pc = "end" /\ d = op_endcreate /\ pc = "use" /\ sems[sproc[p].id].cnt > 0
           \/ sproc[p].pc = "open" /\ d = op_open /\ pc = "use" /\ sems[sproc[p].id].cnt > 0
           \/ sproc[p].pc = "use" /\ d = Ops(-1, 0, 0) /\ pc = "hold"
           \/ sproc[p].pc = "hold" /\ d = Ops(1, 0, 0) /\ pc = "use"
           \/ sproc[p].pc = "use" /\ d = op_close /\ pc = "closing" /\ sems[sproc[p].id].lock = 0
           \/ sproc[p].pc = "unlock" /\ d = op_unlock /\ pc = "none"
    PROVE  SemInv'
<1> DEFINE id == sproc[p].id
           r == [sproc[p] EXCEPT !.pc = pc, !.undo = Minus(@, d)]
           s == Plus(sems[id], d)
<1>0. /\ sems \in Seq(SetRecs) /\ sproc \in [SemProcs -> ProcRecs] /\ id \in 1..Len(sems)
      /\ sproc[p].undo = Due(sproc[p].pc) /\ (sproc[p].pc = "open" => sproc[p].by = "open")
    BY DEF SemInv, SemTypes, ProcRecs, UndoIsDue
<1>1. sproc[p] \in ProcRecs /\ sems[id] \in SetRecs
    BY <1>0
<1>2. d.val \in Int /\ d.cnt \in Int /\ d.lock \in Int
    BY DEF op_lock, op_endcreate, op_open, op_close, op_unlock, Ops
<1>3. /\ r \in ProcRecs /\ r.pc = pc /\ r.id = id /\ r.by = sproc[p].by
      /\ r.undo = [val |-> sproc[p].undo.val - d.val, cnt |-> sproc[p].undo.cnt - d.cnt,
                   lock |-> sproc[p].undo.lock - d.lock]
  <2>1. sproc[p].undo \in [val : Int, cnt : Int, lock : Int]
    BY <1>1 DEF ProcRecs
  <2>2. /\ Minus(sproc[p].undo, d) \in [val : Int, cnt : Int, lock : Int]
        /\ Minus(sproc[p].undo, d) = [val |-> sproc[p].undo.val - d.val, cnt |-> sproc[p].undo.cnt - d.cnt,
                                      lock |-> sproc[p].undo.lock - d.lock]
    BY <1>2, <2>1, PlusAdds
  <2> QED
    BY <1>1, <2>2 DEF ProcRecs
<1>4. /\ s \in SetRecs /\ s.live = sems[id].live
      /\ s.val = sems[id].val + d.val /\ s.cnt = sems[id].cnt + d.cnt /\ s.lock = sems[id].lock + d.lock
    BY <1>1, <1>2, PlusAdds
<1>5. sproc' = [sproc EXCEPT ![p] = r] /\ sems' = [sems EXCEPT ![id] = s]
    BY DEF Semop
<1>6. r.undo = Due(pc)
    BY <1>0, <1>3 DEF Due, Ops, op_lock, op_endcreate, op_open, op_close, op_unlock, LockPcs, UsePcs
<1>7. /\ sems[id].cnt = 0 => sproc[p].pc \notin UsePcs
      /\ sems[id].lock <= 1
  <2>1. id \in DOMAIN sems
    BY <1>0
  <2>2. sproc[p].pc \in UsePcs => p \in Users(id)
    BY DEF Users, UsePcs
  <2> QED
    BY <2>1, <2>2 DEF SemInv, SetCountsItsUsers, Live
<1> HIDE DEF r, s, id
<1>8. /\ s.lock = sems[id].lock - Locks(sproc[p], id) + Locks(r, id) /\ s.lock <= 1
      /\ \/ sems[id].cnt = 0 /\ Uses(r, id) = 0 /\ s.cnt = 0
         \/ /\ sems[id].cnt # 0
            /\ s.cnt = sems[id].cnt + Uses(sproc[p], id) - Uses(r, id)
            /\ s.val = sems[id].val + Holds(sproc[p], id) - Holds(r, id)
    BY <1>1, <1>3, <1>4, <1>7
       DEF id, SetRecs, Locks, Uses, Holds, Ops, op_lock, op_endcreate, op_open, op_close, op_unlock, LockPcs, UsePcs
<1>9. SetCountsItsUsers'
    BY <1>0, <1>3, <1>4, <1>5, <1>8, CountsKeep DEF id
<1>10. /\ pc \notin {"open", "set0", "set1", "remove"}
       /\ sems[id].cnt = 0 => (s.cnt = 0 /\ s.val = sems[id].val) \/ sproc[p].pc \in LockPcs
    BY <1>1, <1>3, <1>4, <1>7
       DEF id, SetRecs, Ops, op_lock, op_endcreate, op_open, op_close, op_unlock, LockPcs, UsePcs
<1>11. SetStep(p, r, id, s)
    BY <1>0, <1>1, <1>3, <1>4, <1>5, <1>6, <1>7, <1>8, <1>9, <1>10 DEF SetStep, id, LockPcs, UsePcs
<1> QED
    BY <1>3, <1>4, <1>11, SetStepKeeps

\* A process that ends gives back what it has taken, wherever it was.
LEMMA ExitsKeep ==
    ASSUME SemInv, NEW p \in SemProcs, Exits(p), UNCHANGED <<key, forced>>
    PROVE  SemInv'
<1> DEFINE id == sproc[p].id
           r == [Fresh EXCEPT !.pc = "dead"]
           s == IF sems[id].live THEN Plus(sems[id], sproc[p].undo) ELSE sems[id]
<1>0. /\ sems \in Seq(SetRecs) /\ sproc \in [SemProcs -> ProcRecs] /\ id \in Nat /\ id <= Len(sems)
      /\ sproc[p].undo = Due(sproc[p].pc) /\ (id = 0 => sproc[p].pc \in {"none", "dead"})
    BY DEF SemInv, SemTypes, ProcRecs, UndoIsDue
<1>1. /\ r \in ProcRecs /\ r.pc = "dead" /\ r.id = 0 /\ r.undo = Due("dead")
      /\ sproc' = [sproc EXCEPT ![p] = r]
    BY DEF Exits, Fresh, ProcRecs, SemPcs, Due, Ops, LockPcs, UsePcs
<1>2. CASE id = 0
  <2>1. sems' = sems
    BY <1>2 DEF Exits
  <2>2. [val |-> 0, cnt |-> 0, lock |-> 0, live |-> TRUE] \in SetRecs
    BY DEF SetRecs
  <2>3. \E zero \in SetRecs : zero.live /\ zero.lock = 0 /\ zero.cnt = 0
    BY <2>2
  <2> HIDE DEF r, id
  <2> QED
    BY <1>0, <1>1, <1>2, <2>1, <2>3, OutsideStepKeeps DEF LockPcs, UsePcs
<1>3. CASE id # 0
  <2>1. id \in 1..Len(sems) /\ sems[id] \in SetRecs
    BY <1>0, <1>3
  <2>2. sems' = [sems EXCEPT ![id] = s]
    <3>1. CASE sems[id].live
      <4>1. sems' = [sems EXCEPT ![sproc[p].id] = Plus(@, sproc[p].undo)]
        BY <1>3, <3>1 DEF Exits, Live
      <4> QED
        BY <2>1, <3>1, <4>1
    <3>2. CASE ~sems[id].live
      <4>1. sems' = sems
        BY <3>2 DEF Exits, Live
      <4> QED
        BY <1>0, <2>1, <3>2, <4>1
    <3> QED
      BY <3>1, <3>2
  <2>3. /\ sproc[p].undo.val \in Int /\ sproc[p].undo.cnt \in Int /\ sproc[p].undo.lock \in Int
        /\ sproc[p].undo.val = Holds(sproc[p], id) /\ sproc[p].undo.cnt = Uses(sproc[p], id)
        /\ sproc[p].undo.lock = -Locks(sproc[p], id)
    BY <1>0 DEF Due, Ops, Holds, Uses, Locks
  <2>4. /\ s \in SetRecs /\ s.live = sems[id].live
        /\ s.live => /\ s.val = sems[id].val + Holds(sproc[p], id)
                     /\ s.cnt = sems[id].cnt + Uses(sproc[p], id)
                     /\ s.lock = sems[id].lock - Locks(sproc[p], id)
    <3>1. CASE sems[id].live
      <4>1. /\ Plus(sems[id], sproc[p].undo) \in SetRecs
            /\ Plus(sems[id], sproc[p].undo).live = sems[id].live
            /\ Plus(sems[id], sproc[p].undo).val = sems[id].val + sproc[p].undo.val
            /\ Plus(sems[id], sproc[p].undo).cnt = sems[id].cnt + sproc[p].undo.cnt
            /\ Plus(sems[id], sproc[p].undo).lock = sems[id].lock + sproc[p].undo.lock
        BY <2>1, <2>3, PlusAdds
      <4>2. sems[id].lock \in Int
        BY <2>1 DEF SetRecs
      <4> QED
        BY <2>3, <3>1, <4>1, <4>2 DEF Locks
    <3>2. CASE ~sems[id].live
      BY <2>1, <3>2
    <3> QED
      BY <3>1, <3>2
  <2>5. sems[id].live => /\ sems[id].cnt = 0 => sproc[p].pc \notin UsePcs
                         /\ sems[id].lock <= 1
    <3>1. id \in DOMAIN sems
      BY <1>0, <2>1
    <3>2. sproc[p].pc \in UsePcs => p \in Users(id)
      BY DEF Users, UsePcs
    <3> QED
      BY <3>1, <3>2 DEF SemInv, SetCountsItsUsers, Live
  <2>6. sems[id].cnt \in Int /\ sems[id].lock \in Int /\ sems[id].val \in Int
    BY <2>1 DEF SetRecs
  <2> HIDE DEF r, s, id
  <2>7. Locks(r, id) = 0 /\ Uses(r, id) = 0 /\ Holds(r, id) = 0
    BY <1>1, <1>3 DEF Locks, Uses, Holds
  <2>8. s.live => /\ s.lock = sems[id].lock - Locks(sproc[p], id) + Locks(r, id) /\ s.lock <= 1
                  /\ \/ sems[id].cnt = 0 /\ Uses(r, id) = 0 /\ s.cnt = 0
                     \/ /\ sems[id].cnt # 0
                        /\ s.cnt = sems[id].cnt + Uses(sproc[p], id) - Uses(r, id)
                        /\ s.val = sems[id].val + Holds(sproc[p], id) - Holds(r, id)
    BY <2>4, <2>5, <2>6, <2>7 DEF Locks, Uses, Holds
  <2>9. SetCountsItsUsers'
    BY <1>1, <2>1, <2>2, <2>4, <2>8, CountsKeep DEF id
  <2>10. s.live /\ sems[id].cnt = 0 => s.cnt = 0 /\ s.val = sems[id].val
    BY <2>4, <2>5, <2>6 DEF Uses, Holds, UsePcs
  <2>11. SetStep(p, r, id, s)
    BY <1>1, <2>1, <2>2, <2>4, <2>9, <2>10 DEF SetStep, id, UsePcs
  <2> QED
    BY <1>1, <2>4, <2>11, SetStepKeeps
<1> QED
    BY <1>2, <1>3

\* A call that only reads preserves the invariant; what it has read still holds.
LEMMA GotoKeeps ==
    ASSUME SemInv, NEW p \in SemProcs, NEW pc \in SemPcs, sproc[p].id # 0, sems[sproc[p].id].live,
           Goto(p, pc), UNCHANGED <<key, forced>>,
           NEW s, s = sems[sproc[p].id], sems' = [sems EXCEPT ![sproc[p].id] = s],
           \/ sproc[p].pc = "lock" /\ pc = "sleep"
           \/ sproc[p].pc = "getval" /\ pc \in {"set0", "end"} /\ (pc = "set0" => sems[sproc[p].id].cnt = 0)
           \/ sproc[p].pc = "closing" /\ pc \in {"remove", "unlock"} /\ (pc = "remove" => sems[sproc[p].id].cnt = BIGCOUNT)
    PROVE  SemInv'
<1> DEFINE id == sproc[p].id
           r == [sproc[p] EXCEPT !.pc = pc]
<1>0. /\ sems \in Seq(SetRecs) /\ sproc \in [SemProcs -> ProcRecs] /\ id \in 1..Len(sems)
      /\ sproc[p].undo = Due(sproc[p].pc)
    BY DEF SemInv, SemTypes, ProcRecs, UndoIsDue
<1>1. sproc[p] \in ProcRecs /\ s \in SetRecs /\ sems' = [sems EXCEPT ![id] = s]
    BY <1>0
<1>2. r \in ProcRecs /\ r.pc = pc /\ r.id = id /\ r.by = sproc[p].by /\ r.undo = sproc[p].undo
    BY <1>1 DEF ProcRecs
<1>3. sproc' = [sproc EXCEPT ![p] = r]
    BY DEF Goto
<1>4. r.undo = Due(pc)
    BY <1>0, <1>2 DEF Due, Ops, LockPcs, UsePcs
<1>5. /\ s.lock <= 1
      /\ s.cnt = BIGCOUNT => Users(id) = {}
  <2>1. id \in DOMAIN sems /\ BIGCOUNT \in Nat
    BY <1>0, SemaphAssumption
  <2>2. IsFiniteSet(Users(id)) /\ Cardinality(Users(id)) \in Nat
    BY SemSetsAreFinite
  <2>3. s.lock <= 1 /\ (s.cnt = BIGCOUNT /\ s.cnt # 0 => BIGCOUNT = BIGCOUNT - Cardinality(Users(id)))
        /\ (s.cnt = 0 => Users(id) = {})
    BY <2>1 DEF SemInv, SetCountsItsUsers, Live
  <2> QED
    BY <2>1, <2>2, <2>3, FS_EmptySet
<1>6. s.val \in Int /\ s.cnt \in Int /\ s.lock \in Int
    BY <1>1 DEF SetRecs
<1>9. s = sems[id] /\ s.live
    OBVIOUS
<1> HIDE DEF r, id
<1>7. Locks(r, id) = Locks(sproc[p], id) /\ Uses(r, id) = Uses(sproc[p], id) /\ Holds(r, id) = Holds(sproc[p], id)
      /\ Uses(r, id) = 0 /\ Holds(r, id) = 0 /\ Locks(r, id) \in 0..1
    BY <1>2 DEF id, Locks, Uses, Holds, LockPcs, UsePcs
<1>8. SetCountsItsUsers'
  <2>1. s.lock = sems[id].lock - Locks(sproc[p], id) + Locks(r, id)
    BY <1>6, <1>7, <1>9
  <2>2. s.cnt = sems[id].cnt + Uses(sproc[p], id) - Uses(r, id) /\ s.val = sems[id].val + Holds(sproc[p], id) - Holds(r, id)
    BY <1>6, <1>7, <1>9
  <2>3. s.live => /\ sems[id].live
                  /\ s.lock = sems[id].lock - Locks(sproc[p], id) + Locks(r, id) /\ s.lock <= 1
                  /\ \/ /\ sems[id].cnt = 0 /\ Uses(r, id) = 0
                        /\ s.cnt = 0 \/ (s.cnt = BIGCOUNT /\ s.val = InitVal)
                     \/ /\ sems[id].cnt # 0
                        /\ s.cnt = sems[id].cnt + Uses(sproc[p], id) - Uses(r, id)
                        /\ s.val = sems[id].val + Holds(sproc[p], id) - Holds(r, id)
    BY <1>5, <1>7, <1>9, <2>1, <2>2
  <2>4. id = sproc[p].id /\ r.id \in {id, 0}
    BY <1>2 DEF id
  <2> QED
    BY <1>0, <1>1, <1>3, <2>3, <2>4, CountsKeep
<1>10. pc \notin UsePcs \cup {"open", "set1", "closing"}
    BY DEF UsePcs
<1>11. /\ id = sproc[p].id /\ r.id \in {id, 0} /\ r.undo = Due(r.pc) /\ (r.id = 0 => r.pc \in {"none", "dead"})
       /\ r.pc \notin {"open", "set1", "use", "hold", "closing"} /\ r.pc \notin UsePcs
       /\ r.pc = "set0" => s.cnt = 0
       /\ r.pc = "remove" => Users(id) = {} /\ sems[id].live
    BY <1>2, <1>4, <1>5, <1>9, <1>10 DEF id, UsePcs
<1> QED
  <2>1. /\ s.live = sems[id].live /\ key' = key /\ (~forced' => ~forced)
        /\ s.live /\ r.pc \in {"set0", "set1"} => s.cnt = 0
        /\ s.live /\ r.pc = "set1" => s.val = InitVal
        /\ s.live /\ sems[id].cnt = 0 => (s.cnt = 0 /\ s.val = sems[id].val) \/ sproc[p].pc \in LockPcs
        /\ r.pc = "remove" => sproc[p].pc = "remove" \/ (Users(id) = {} /\ sems[id].live)
        /\ r.pc \in UsePcs => \/ r.by = "open" \/ (sproc[p].pc \in UsePcs /\ r.by = sproc[p].by)
                              \/ (sproc[p].pc \in LockPcs /\ sems[id].live)
        /\ r.pc \in {"use", "hold", "closing"} => s.live
        /\ r.pc # "open"
    BY <1>9, <1>11
  <2> QED
    <3>1. SetStep(p, r, id, s)
      BY <1>0, <1>1, <1>3, <1>8, <1>11, <2>1 DEF SetStep
    <3> QED
      BY <1>1, <1>2, <3>1, SetStepKeeps

\* SETVAL clears undo entries that are clear already: the record of a process
\* changes in its program counter only.
LEMMA ClearsNothing ==
    ASSUME NEW a \in ProcRecs, NEW w
    PROVE  /\ [a EXCEPT !.undo.val = a.undo.val, !.pc = w] = [a EXCEPT !.pc = w]
           /\ [a EXCEPT !.undo.cnt = a.undo.cnt, !.pc = w] = [a EXCEPT !.pc = w]
           /\ w = a.pc => [a EXCEPT !.pc = w] = a
<1>0. a.undo \in [val : Int, cnt : Int, lock : Int]
    BY DEF ProcRecs
<1>1. [a.undo EXCEPT !.val = a.undo.val] = a.undo /\ [a.undo EXCEPT !.cnt = a.undo.cnt] = a.undo
    BY <1>0
<1>2. [a EXCEPT !.undo = a.undo] = a /\ [a EXCEPT !.pc = a.pc] = a
    BY DEF ProcRecs
<1>3. [a EXCEPT !.undo.val = a.undo.val] = [a EXCEPT !.undo = [a.undo EXCEPT !.val = a.undo.val]]
    BY DEF ProcRecs
<1>4. [a EXCEPT !.undo.cnt = a.undo.cnt] = [a EXCEPT !.undo = [a.undo EXCEPT !.cnt = a.undo.cnt]]
    BY DEF ProcRecs
<1>5. [a EXCEPT !.undo.val = a.undo.val] = a /\ [a EXCEPT !.undo.cnt = a.undo.cnt] = a
    BY <1>1, <1>2, <1>3, <1>4
<1>6. /\ [a EXCEPT !.undo.val = a.undo.val, !.pc = w] = [[a EXCEPT !.undo.val = a.undo.val] EXCEPT !.pc = w]
      /\ [a EXCEPT !.undo.cnt = a.undo.cnt, !.pc = w] = [[a EXCEPT !.undo.cnt = a.undo.cnt] EXCEPT !.pc = w]
    OBVIOUS
<1> QED
    BY <1>2, <1>5, <1>6

\* The two SETVALs of a creator preserve the invariant: under the lock, and with
\* the counter at 0, nobody uses the set.
LEMMA SetValKeeps ==
    ASSUME SemInv, NEW p \in SemProcs, sproc[p].pc \in {"set0", "set1"}, SetVal0(p) \/ SetVal1(p)
    PROVE  SemInv'
<1> DEFINE id == sproc[p].id
           to == IF sproc[p].pc = "set0" THEN "set1" ELSE "end"
           r == [sproc[p] EXCEPT !.pc = to]
           s == IF sproc[p].pc = "set0" THEN [sems[id] EXCEPT !.val = InitVal] ELSE [sems[id] EXCEPT !.cnt = BIGCOUNT]
<1>0. /\ sems \in Seq(SetRecs) /\ sproc \in [SemProcs -> ProcRecs] /\ id \in 1..Len(sems) /\ id \in DOMAIN sems
      /\ \A o \in SemProcs : sproc[o].undo = Due(sproc[o].pc)
      /\ BIGCOUNT \in Nat /\ InitVal \in Nat
    BY SemaphAssumption DEF SemInv, SemTypes, ProcRecs, UndoIsDue
<1>1. /\ sems[id].live /\ UNCHANGED <<key, forced>>
      /\ sproc[p].pc = "set0" => SetVal0(p)
      /\ sproc[p].pc = "set1" => SetVal1(p)
    BY DEF SetVal0, SetVal1, Live
<1>2. /\ sems[id].cnt = 0 /\ (sproc[p].pc = "set1" => sems[id].val = InitVal)
      /\ Users(id) = {} /\ sems[id].lock <= 1
    BY <1>0, <1>1 DEF SemInv, Initializing, SetCountsItsUsers, Live
<1>3. \A o \in SemProcs : sproc[o].id = id => sproc[o].undo.val = 0 /\ sproc[o].undo.cnt = 0
  <2> SUFFICES ASSUME NEW o \in SemProcs, sproc[o].id = id PROVE sproc[o].undo.val = 0 /\ sproc[o].undo.cnt = 0
    OBVIOUS
  <2>1. sproc[o].pc \notin UsePcs
    BY <1>2 DEF Users, UsePcs
  <2>2. Due(sproc[o].pc).val = 0 /\ Due(sproc[o].pc).cnt = 0
    BY <2>1 DEF Due, Ops, UsePcs
  <2> QED
    BY <1>0, <2>2
<1>4. sproc[p] \in ProcRecs /\ sems[id] \in SetRecs
    BY <1>0
<1>5. sproc' = [sproc EXCEPT ![p] = r]
  <2>1. CASE sproc[p].pc = "set0"
    <3>1. sproc' = [o \in SemProcs |-> [sproc[o] EXCEPT !.undo.val = IF sproc[o].id = sproc[p].id THEN 0 ELSE @,
                                                        !.pc = IF o = p THEN "set1" ELSE @]]
      BY <1>1, <2>1 DEF SetVal0
    <3>2. ASSUME NEW o \in SemProcs
          PROVE  [sproc[o] EXCEPT !.undo.val = IF sproc[o].id = sproc[p].id THEN 0 ELSE @,
                                  !.pc = IF o = p THEN "set1" ELSE @]
                 = IF o = p THEN r ELSE sproc[o]
      <4>1. sproc[o] \in ProcRecs
        BY <1>0
      <4>2. (IF sproc[o].id = sproc[p].id THEN 0 ELSE sproc[o].undo.val) = sproc[o].undo.val
        BY <1>3
      <4>3. \A w : [sproc[o] EXCEPT !.undo.val = sproc[o].undo.val, !.pc = w] = [sproc[o] EXCEPT !.pc = w]
        BY <4>1, ClearsNothing, Zenon
      <4>4. o # p => [sproc[o] EXCEPT !.pc = IF o = p THEN "set1" ELSE sproc[o].pc] = sproc[o]
        BY <4>1, ClearsNothing, Zenon
      <4> QED
        BY <2>1, <4>1, <4>2, <4>3, <4>4 DEF ProcRecs
    <3> QED
      BY <1>0, <3>1, <3>2
  <2>2. CASE sproc[p].pc = "set1"
    <3>1. sproc' = [o \in SemProcs |-> [sproc[o] EXCEPT !.undo.cnt = IF sproc[o].id = sproc[p].id THEN 0 ELSE @,
                                                        !.pc = IF o = p THEN "end" ELSE @]]
      BY <1>1, <2>2 DEF SetVal1
    <3>2. ASSUME NEW o \in SemProcs
          PROVE  [sproc[o] EXCEPT !.undo.cnt = IF sproc[o].id = sproc[p].id THEN 0 ELSE @,
                                  !.pc = IF o = p THEN "end" ELSE @]
                 = IF o = p THEN r ELSE sproc[o]
      <4>1. sproc[o] \in ProcRecs
        BY <1>0
      <4>2. (IF sproc[o].id = sproc[p].id THEN 0 ELSE sproc[o].undo.cnt) = sproc[o].undo.cnt
        BY <1>3
      <4>3. \A w : [sproc[o] EXCEPT !.undo.cnt = sproc[o].undo.cnt, !.pc = w] = [sproc[o] EXCEPT !.pc = w]
        BY <4>1, ClearsNothing, Zenon
      <4>4. o # p => [sproc[o] EXCEPT !.pc = IF o = p THEN "end" ELSE sproc[o].pc] = sproc[o]
        BY <4>1, ClearsNothing, Zenon
      <4> QED
        BY <2>2, <4>1, <4>2, <4>3, <4>4 DEF ProcRecs
    <3> QED
      BY <1>0, <3>1, <3>2
  <2> QED
    BY <2>1, <2>2
<1>6. sems' = [sems EXCEPT ![id] = s]
    BY <1>0, <1>1 DEF SetVal0, SetVal1
<1>7. /\ s \in SetRecs /\ s.live /\ s.lock = sems[id].lock
      /\ sproc[p].pc = "set0" => s.cnt = 0 /\ s.val = InitVal
      /\ sproc[p].pc = "set1" => s.cnt = BIGCOUNT /\ s.val = InitVal
  <2>1. CASE sproc[p].pc = "set0"
    BY <1>0, <1>1, <1>2, <1>4, <2>1, SMTT(30) DEF SetRecs
  <2>2. CASE sproc[p].pc = "set1"
    <3>1. s = [sems[id] EXCEPT !.cnt = BIGCOUNT] /\ sems[id].val = InitVal /\ BIGCOUNT \in Int
      BY <1>0, <1>2, <2>2
    <3>2. s \in SetRecs /\ s.live = sems[id].live /\ s.lock = sems[id].lock /\ s.cnt = BIGCOUNT /\ s.val = sems[id].val
      BY <1>4, <3>1 DEF SetRecs
    <3> QED
      BY <1>1, <2>2, <3>1, <3>2
  <2> QED
    BY <2>1, <2>2
<1>8. r \in ProcRecs /\ r.pc = to /\ r.id = id /\ r.undo = Due(r.pc)
    BY <1>0, <1>4 DEF ProcRecs, SemPcs, LockPcs, Due, Ops, UsePcs
<1>9. to \in {"set1", "end"} /\ (to = "set1" <=> sproc[p].pc = "set0") /\ sems[id].lock \in Int
    BY <1>4 DEF SetRecs
<1>10. id = sproc[p].id /\ id # 0
    BY <1>0
<1> HIDE DEF r, s, id, to
<1>11. Locks(r, id) = 1 /\ Locks(sproc[p], id) = 1 /\ Uses(r, id) = 0
    BY <1>8, <1>9, <1>10 DEF Locks, Uses, LockPcs, UsePcs
<1>12. SetCountsItsUsers'
  <2>1. /\ s.lock = sems[id].lock - Locks(sproc[p], id) + Locks(r, id) /\ s.lock <= 1
        /\ sems[id].cnt = 0 /\ Uses(r, id) = 0
        /\ s.cnt = 0 \/ (s.cnt = BIGCOUNT /\ s.val = InitVal)
    BY <1>2, <1>7, <1>9, <1>11
  <2> QED
    BY <1>0, <1>1, <1>5, <1>6, <1>7, <1>8, <1>10, <2>1, CountsKeep
<1>13. SetStep(p, r, id, s)
    BY <1>0, <1>1, <1>2, <1>5, <1>6, <1>7, <1>8, <1>9, <1>10, <1>12 DEF SetStep, LockPcs, UsePcs
<1> QED
    BY <1>7, <1>8, <1>13, SetStepKeeps

\* A set is removed by the last closer, or by a server whoever uses it.
LEMMA RemovalKeeps ==
    ASSUME SemInv, NEW p \in SemProcs, sproc[p].id # 0, sems[sproc[p].id].live, sem_rm(sproc[p].id),
           sproc' = [sproc EXCEPT ![p] = Fresh],
           ~forced' => ~forced, sproc[p].pc = "remove" \/ forced'
    PROVE  SemInv'
<1> DEFINE id == sproc[p].id
           s == [sems[id] EXCEPT !.live = FALSE]
<1>0. /\ sems \in Seq(SetRecs) /\ sproc \in [SemProcs -> ProcRecs] /\ id \in 1..Len(sems)
      /\ id = key
    BY DEF SemInv, SemTypes, ProcRecs
<1>1. sems[id] \in SetRecs
    BY <1>0
<1>2. s \in SetRecs /\ ~s.live /\ sems' = [sems EXCEPT ![id] = s] /\ key' = 0
    BY <1>0, <1>1 DEF SetRecs, sem_rm
<1>3. Fresh \in ProcRecs /\ Fresh.id = 0 /\ Fresh.pc = "none" /\ Fresh.undo = Due(Fresh.pc)
    BY DEF Fresh, ProcRecs, SemPcs, Due, Ops, LockPcs, UsePcs
<1>4. id = sproc[p].id /\ sems[id].live
    OBVIOUS
<1> HIDE DEF id, s
<1>5. SetCountsItsUsers'
    BY <1>0, <1>2, <1>3, <1>4, CountsKeep
<1>6. SetStep(p, Fresh, id, s)
    BY <1>0, <1>2, <1>3, <1>4, <1>5 DEF SetStep, UsePcs
<1> QED
    BY <1>2, <1>3, <1>6, SetStepKeeps

\* semget: the process will lock, or will open, the set of the key.
LEMMA GetKeeps ==
    ASSUME SemInv, NEW p \in SemProcs, forced' = forced, sproc[p].pc \in {"none", "lock"},
           \/ GetOrCreate(p)
           \/ key # 0 /\ UNCHANGED <<sems, key>>
              /\ sproc' = [sproc EXCEPT ![p] = [Fresh EXCEPT !.pc = "open", !.id = key, !.by = "open"]]
    PROVE  SemInv'
<1> DEFINE z == [val |-> 0, cnt |-> 0, lock |-> 0, live |-> TRUE]
<1>0. key \in Nat /\ Len(sems) \in Nat
    BY DEF SemInv, SemTypes
<1>1. z \in SetRecs /\ z.live /\ z.lock = 0 /\ z.cnt = 0
    BY DEF SetRecs
<1>2. ASSUME NEW pc \in {"lock", "open"}, NEW id \in Nat, NEW by \in {"create", "open"}
      PROVE  LET r == [Fresh EXCEPT !.pc = pc, !.id = id, !.by = by]
             IN  r \in ProcRecs /\ r.pc = pc /\ r.id = id /\ r.by = by /\ r.undo = Due(pc)
  <2> DEFINE r == [Fresh EXCEPT !.pc = pc, !.id = id, !.by = by]
  <2>1. r = [pc |-> pc, id |-> id, by |-> by, undo |-> Ops(0, 0, 0)]
    <3> DEFINE R == [pc : {"none", pc}, id : Nat, by : {"none", "create", "open"}, undo : {Ops(0, 0, 0)}]
               b == [Fresh EXCEPT !.pc = pc]
               c == [b EXCEPT !.id = id]
               e == [c EXCEPT !.by = by]
    <3>1. b \in R /\ b.pc = pc
      BY DEF Fresh
    <3>2. r = e
      OBVIOUS
    <3> HIDE DEF b
    <3>3. c \in R /\ c.pc = pc /\ c.id = id
      BY <3>1
    <3> HIDE DEF c
    <3>4. e \in R /\ e.pc = pc /\ e.id = id /\ e.by = by
      BY <3>3
    <3> HIDE DEF e
    <3> QED
      BY <3>2, <3>4
  <2>2. Ops(0, 0, 0) = Due(pc)
    BY DEF Ops, Due, LockPcs, UsePcs
  <2>3. pc \in SemPcs
    BY DEF SemPcs
  <2> HIDE DEF r
  <2>4. r.pc = pc /\ r.id = id /\ r.by = by /\ r.undo = Ops(0, 0, 0)
    BY <2>1
  <2>5. r \in ProcRecs
    BY <2>1, <2>3 DEF ProcRecs, Ops
  <2> QED
    BY <2>2, <2>4, <2>5 DEF r
<1>3. PICK r \in ProcRecs :
         /\ sproc' = [sproc EXCEPT ![p] = r] /\ r.pc \in {"lock", "open"} /\ r.undo = Due(r.pc) /\ r.id # 0
         /\ r.pc = "open" => r.by = "open"
         /\ \/ sems' = sems /\ key' = key /\ r.id = key
            \/ NewSet(z) /\ r.id = key'
  <2>1. CASE GetOrCreate(p) /\ key # 0
    <3> DEFINE r == [Fresh EXCEPT !.pc = "lock", !.id = key, !.by = "create"]
    <3>1. sems' = sems /\ key' = key /\ sproc' = [sproc EXCEPT ![p] = r]
      BY <2>1 DEF GetOrCreate
    <3>2. r \in ProcRecs /\ r.pc = "lock" /\ r.id = key /\ r.undo = Due("lock")
      BY <1>0, <1>2
    <3> HIDE DEF r
    <3> QED
      BY <2>1, <3>1, <3>2
  <2>2. CASE GetOrCreate(p) /\ key = 0
    <3>0. PICK n \in Nat : n = Len(sems) + 1
      BY <1>0
    <3> DEFINE r == [Fresh EXCEPT !.pc = "lock", !.id = n, !.by = "create"]
    <3>1. NewSet(z) /\ key' = n /\ n # 0 /\ sproc' = [sproc EXCEPT ![p] = r]
      BY <1>0, <2>2, <3>0 DEF GetOrCreate, NewSet
    <3>2. r \in ProcRecs /\ r.pc = "lock" /\ r.id = n /\ r.undo = Due("lock")
      BY <1>2
    <3> HIDE DEF r, z
    <3> QED
      BY <1>0, <3>1, <3>2
  <2>3. CASE ~GetOrCreate(p)
    <3> DEFINE r == [Fresh EXCEPT !.pc = "open", !.id = key, !.by = "open"]
    <3>1. sems' = sems /\ key' = key /\ sproc' = [sproc EXCEPT ![p] = r] /\ key # 0
      BY <2>3
    <3>2. r \in ProcRecs /\ r.pc = "open" /\ r.id = key /\ r.by = "open" /\ r.undo = Due("open")
      BY <1>0, <1>2
    <3> HIDE DEF r
    <3> QED
      BY <3>1, <3>2
  <2> QED
    BY <2>1, <2>2, <2>3
<1>4. /\ sproc[p].pc \notin LockPcs \cup UsePcs /\ r.pc \notin LockPcs \cup UsePcs
      /\ (r.id = 0 => r.pc \in {"none", "dead"})
    BY <1>3 DEF LockPcs, UsePcs
<1> HIDE DEF z
<1> QED
    BY <1>1, <1>3, <1>4, OutsideStepKeeps

\* Every step of every process preserves the invariant.
LEMMA SemInvStep == SemInv /\ [SemNext]_semVars => SemInv'
<1> SUFFICES ASSUME SemInv, [SemNext]_semVars PROVE SemInv'
    OBVIOUS
<1>0. \A p \in SemProcs : sproc[p].id = 0 => sproc[p].pc \in {"none", "dead"}
    BY DEF SemInv, SemTypes
<1>1. CASE UNCHANGED semVars
  <2>1. \A i : Users(i)' = Users(i) /\ Holders(i)' = Holders(i) /\ Lockers(i)' = Lockers(i)
    BY <1>1 DEF semVars, Users, Holders, Lockers
  <2> QED
    BY <1>1, <2>1 DEF semVars, SemInv, SemTypes, UndoIsDue, Initializing, RemovedUnderOpeners,
                      SetCountsItsUsers, CreatedSemaphoreStays, Live
<1>2. ASSUME NEW p \in SemProcs, CreateGet(p) PROVE SemInv'
    BY <1>2, GetKeeps DEF CreateGet
<1>3. ASSUME NEW p \in SemProcs, CreateLock(p) PROVE SemInv'
  <2>1. CASE /\ sproc[p].pc \in {"lock", "sleep"} /\ Live(sproc[p].id) /\ Set(p).lock = 0
             /\ Semop(p, op_lock, "getval") /\ UNCHANGED key
    BY <1>0, <1>3, <2>1, SemopKeeps DEF CreateLock, Live, Set, SemPcs, LockPcs
  <2>2. CASE sproc[p].pc = "lock" /\ Live(sproc[p].id) /\ Goto(p, "sleep") /\ UNCHANGED <<sems, key>>
    <3>1. sems' = [sems EXCEPT ![sproc[p].id] = sems[sproc[p].id]]
      BY <2>2 DEF SemInv, SemTypes
    <3> QED
      BY <1>0, <1>3, <2>2, <3>1, GotoKeeps DEF CreateLock, Live, SemPcs
  <2>3. CASE sproc[p].pc = "lock" /\ GetOrCreate(p)
    BY <1>3, <2>3, GetKeeps DEF CreateLock
  <2>4. CASE Exits(p) /\ UNCHANGED key
    BY <1>3, <2>4, ExitsKeep DEF CreateLock
  <2> QED
    BY <1>3, <2>1, <2>2, <2>3, <2>4 DEF CreateLock
<1>4. ASSUME NEW p \in SemProcs, NEW pcs, Vanished(p, pcs) PROVE SemInv'
    BY <1>4, ExitsKeep DEF Vanished
<1>5. ASSUME NEW p \in SemProcs, CreateGetval(p) PROVE SemInv'
  <2>1. sems' = [sems EXCEPT ![sproc[p].id] = sems[sproc[p].id]]
    BY <1>5 DEF CreateGetval, SemInv, SemTypes
  <2>2. PICK pc \in {"set0", "end"} : Goto(p, pc) /\ (pc = "set0" => sems[sproc[p].id].cnt = 0)
    BY <1>5 DEF CreateGetval, Set
  <2>3. pc \in SemPcs
    BY DEF SemPcs, LockPcs
  <2> QED
    BY <1>0, <1>5, <2>1, <2>2, <2>3, GotoKeeps DEF CreateGetval, Live
<1>6. ASSUME NEW p \in SemProcs, SetVal0(p) PROVE SemInv'
    BY <1>6, SetValKeeps DEF SetVal0
<1>7. ASSUME NEW p \in SemProcs, SetVal1(p) PROVE SemInv'
    BY <1>7, SetValKeeps DEF SetVal1
<1>8. ASSUME NEW p \in SemProcs, EndCreate(p) PROVE SemInv'
    BY <1>0, <1>8, SemopKeeps DEF EndCreate, Live, Set, SemPcs, UsePcs
<1>9. ASSUME NEW p \in SemProcs, OpenGet(p) PROVE SemInv'
  <2>1. CASE key = 0
    <3>1. UNCHANGED <<sems, key, sproc, forced>>
      BY <1>9, <2>1 DEF OpenGet
    <3>2. \A i : Users(i)' = Users(i) /\ Holders(i)' = Holders(i) /\ Lockers(i)' = Lockers(i)
      BY <3>1 DEF Users, Holders, Lockers
    <3> QED
      BY <3>1, <3>2 DEF SemInv, SemTypes, UndoIsDue, Initializing, RemovedUnderOpeners,
                        SetCountsItsUsers, CreatedSemaphoreStays, Live
  <2>2. CASE key # 0
    BY <1>9, <2>2, GetKeeps DEF OpenGet
  <2> QED
    BY <2>1, <2>2
<1>10. ASSUME NEW p \in SemProcs, OpenCount(p) PROVE SemInv'
    BY <1>0, <1>10, SemopKeeps DEF OpenCount, Live, Set, SemPcs, UsePcs
<1>11. ASSUME NEW p \in SemProcs, sem_wait(p) PROVE SemInv'
    BY <1>0, <1>11, SemopKeeps DEF sem_wait, sem_op, Live, Set, SemPcs, UsePcs
<1>12. ASSUME NEW p \in SemProcs, sem_signal(p) PROVE SemInv'
    BY <1>0, <1>12, SemopKeeps DEF sem_signal, sem_op, Live, Set, SemPcs, UsePcs
<1>13. ASSUME NEW p \in SemProcs, CloseLock(p) PROVE SemInv'
    BY <1>0, <1>13, SemopKeeps DEF CloseLock, Live, Set, SemPcs, LockPcs
<1>14. ASSUME NEW p \in SemProcs, CloseGetval(p) PROVE SemInv'
  <2>1. CASE Exits(p)
    BY <1>14, <2>1, ExitsKeep DEF CloseGetval
  <2>2. CASE ~Exits(p)
    <3>1. sems' = [sems EXCEPT ![sproc[p].id] = sems[sproc[p].id]]
      BY <1>14, <2>2 DEF CloseGetval, SemInv, SemTypes
    <3>2. PICK pc \in {"remove", "unlock"} : Goto(p, pc) /\ (pc = "remove" => sems[sproc[p].id].cnt = BIGCOUNT)
      BY <1>14, <2>2 DEF CloseGetval, Set
    <3>3. pc \in SemPcs
      BY DEF SemPcs, LockPcs
    <3> QED
      BY <1>0, <1>14, <3>1, <3>2, <3>3, GotoKeeps DEF CloseGetval, Live
  <2> QED
    BY <2>1, <2>2
<1>15. ASSUME NEW p \in SemProcs, CloseEnds(p) PROVE SemInv'
  <2>1. CASE sproc[p].pc = "remove" /\ Live(sproc[p].id) /\ sem_rm(sproc[p].id) /\ sproc' = [sproc EXCEPT ![p] = Fresh]
    BY <1>0, <1>15, <2>1, RemovalKeeps DEF CloseEnds, Live
  <2>2. CASE sproc[p].pc = "unlock" /\ Live(sproc[p].id) /\ Semop(p, op_unlock, "none") /\ UNCHANGED key
    BY <1>0, <1>15, <2>2, SemopKeeps DEF CloseEnds, Live, SemPcs
  <2> QED
    BY <1>15, <2>1, <2>2 DEF CloseEnds
<1>16. ASSUME NEW p \in SemProcs, ServerRemoves(p) PROVE SemInv'
    BY <1>0, <1>16, RemovalKeeps DEF ServerRemoves, Live
<1>17. ASSUME NEW p \in SemProcs, SemKill(p) PROVE SemInv'
    BY <1>17, ExitsKeep DEF SemKill
<1> QED
    BY <1>1, <1>2, <1>3, <1>4, <1>5, <1>6, <1>7, <1>8, <1>9, <1>10, <1>11, <1>12, <1>13, <1>14, <1>15, <1>16, <1>17
       DEF SemNext, SemStep, sem_create, sem_open, sem_close

\* The semaphores of semaph.c tell the truth: whatever processes create, open,
\* use, close and are killed in, the counter of a set is BIGCOUNT less its users,
\* its value is what the holders leave and its lock has one owner at most; and
\* while no server removes it, a set stays as long as a creator uses it.
THEOREM SemaphoresCountTheirUsers == SemSpec => []SemaphoreIsSound
<1>1. SemInit => SemInv
  <2> SUFFICES ASSUME SemInit PROVE SemInv
    OBVIOUS
  <2>1. /\ sems = <<>> /\ key = 0 /\ sproc = [p \in SemProcs |-> Fresh] /\ DOMAIN sems = {}
        /\ sems \in Seq(SetRecs) /\ Len(sems) = 0
    BY DEF SemInit
  <2>2. /\ Fresh \in ProcRecs /\ Fresh.id = 0 /\ Fresh.pc = "none" /\ Fresh.undo = Due(Fresh.pc) /\ Fresh.by = "none"
    BY DEF Fresh, ProcRecs, SemPcs, Due, Ops, LockPcs, UsePcs
  <2>3. SemTypes
    BY <2>1, <2>2 DEF SemTypes
  <2>4. UndoIsDue /\ Initializing /\ RemovedUnderOpeners
    BY <2>1, <2>2 DEF UndoIsDue, Initializing, RemovedUnderOpeners
  <2>5. SetCountsItsUsers /\ CreatedSemaphoreStays
    BY <2>1, <2>2 DEF SetCountsItsUsers, CreatedSemaphoreStays
  <2> QED
    BY <2>3, <2>4, <2>5 DEF SemInv
<1>2. SemInv => SemaphoreIsSound
    BY DEF SemInv, SemaphoreIsSound
<1> QED
    BY <1>1, <1>2, SemInvStep, PTL DEF SemSpec

-----------------------------------------------------------------------------
(* Popen: lib/popen.c. *)

Ends == {Closed, Std} \cup {End(k, e) : k \in Calls, e \in {"r", "w"}}
OpenFds == {fd \in Fds : fdtab[fd] # Closed}

\* No more descriptors are open than the calls so far have made, the standard
\* ones stay, and an open end of a pipe that is not in childpid[] belongs to a call
\* that failed.
PopenInv ==
    /\ fdtab \in [Fds -> Ends]
    /\ childpid \in [Fds -> Nat]
    /\ npopen \in Nat /\ npopen <= MaxPopens
    /\ cmds \in [Calls -> [pc : {"none", "run", "exit", "waited"}, type : {"none", "r", "w"}, fds : [Fds -> Ends]]]
    /\ Cardinality(OpenFds) <= 3 + 2 * npopen
    /\ \A fd \in 0..2 : fdtab[fd] = Std /\ childpid[fd] = 0
    /\ \A fd \in Fds : /\ fdtab[fd].pipe <= npopen
                       /\ childpid[fd] = 0 => fdtab[fd].pipe \in {0} \cup lost
    /\ CommandsHaveTheirOwnPipe

\* What CommandsHaveTheirOwnPipe says of the command c of the k-th call.
OwnPipe(c, k, gone) ==
    /\ c.fds[IF c.type = "w" THEN 0 ELSE 1] = End(k, IF c.type = "w" THEN "r" ELSE "w")
    /\ \A fd \in Fds : c.fds[fd].pipe \in {0, k} \cup (gone \ {k})
    /\ Cardinality({fd \in Fds : c.fds[fd].pipe = k}) = 1

\* A set of numbers that is not empty has a least one.
LEMMA LeastNumber == ASSUME NEW T \in SUBSET Nat, T # {} PROVE Min(T) \in T /\ \A m \in T : Min(T) <= m
<1>1. PICK R : R = OpToRel(<, Nat)
  OBVIOUS
<1>2. IsWellFoundedOn(R, Nat)
  BY <1>1, NatLessThanWellFounded
<1>3. \A m, n \in Nat : m < n => <<m, n>> \in R
  BY <1>1 DEF OpToRel
<1>4. PICK n \in T : \A m \in T : ~(<<m, n>> \in R)
  BY <1>2, WFMin
<1>5. n \in Nat
  BY <1>4
<1>6. ASSUME NEW m \in T PROVE n <= m
  <2>1. m \in Nat
    OBVIOUS
  <2>2. ~(<<m, n>> \in R)
    BY <1>4
  <2>3. ~(m < n)
    BY <2>1, <2>2, <1>3, <1>5, Zenon
  <2> QED
    BY <2>1, <2>3, <1>5
<1> QED
  BY <1>4, <1>6 DEF Min

\* pipe finds two descriptors: the table has two for every call.
LEMMA TwoAreFree ==
    ASSUME PopenInv, npopen < MaxPopens, NEW free, free = {fd \in Fds : fdtab[fd] = Closed}
    PROVE  Min(free) \in free /\ Min(free \ {Min(free)}) \in free \ {Min(free)}
<1>0. MaxPopens \in Nat /\ npopen \in Nat /\ maxfd \in Nat /\ maxfd = 3 + 2 * MaxPopens
    BY PopenAssumption DEF PopenInv, maxfd
<1>1. IsFiniteSet(Fds) /\ Cardinality(Fds) = maxfd
  <2>1. IsFiniteSet(0..(maxfd - 1)) /\ Cardinality(0..(maxfd - 1)) = IF 0 > maxfd - 1 THEN 0 ELSE (maxfd - 1) - 0 + 1
    BY <1>0, FS_Interval
  <2> QED
    BY <1>0, <2>1 DEF Fds
<1>2. OpenFds \subseteq Fds /\ free = Fds \ OpenFds /\ Fds \cap OpenFds = OpenFds /\ free \subseteq Nat
    BY <1>0 DEF OpenFds, Fds
<1>3. IsFiniteSet(free) /\ Cardinality(free) = maxfd - Cardinality(OpenFds)
  <2>1. IsFiniteSet(Fds \ OpenFds) /\ Cardinality(Fds \ OpenFds) = Cardinality(Fds) - Cardinality(Fds \cap OpenFds)
    BY <1>1, FS_Difference
  <2> QED
    BY <1>1, <1>2, <2>1
<1>4. Cardinality(OpenFds) <= 3 + 2 * npopen
    BY DEF PopenInv
<1>5. Cardinality(OpenFds) \in Nat /\ IsFiniteSet(OpenFds)
    BY <1>1, <1>2, FS_Subset, FS_CardinalityType
<1>6. Cardinality(free) >= 2 /\ Cardinality(free) \in Nat
    BY <1>0, <1>3, <1>4, <1>5
<1>7. free # {}
    BY <1>6, FS_EmptySet
<1>8. Min(free) \in free
    BY <1>2, <1>7, LeastNumber
<1>9. IsFiniteSet(free \ {Min(free)}) /\ Cardinality(free \ {Min(free)}) = Cardinality(free) - 1
    BY <1>3, <1>8, FS_RemoveElement
<1>10. free \ {Min(free)} # {}
    BY <1>6, <1>9, FS_EmptySet
<1>11. free \ {Min(free)} \in SUBSET Nat
    BY <1>2
<1> QED
    BY <1>8, <1>10, <1>11, LeastNumber

\* What is open in the program after popen, whichever of its calls fails.
LEMMA PopenTable ==
    ASSUME PopenInv, npopen < MaxPopens, NEW k, k = npopen + 1,
           NEW f0 \in Fds, NEW f1 \in Fds, fdtab[f0] = Closed, fdtab[f1] = Closed, f0 # f1,
           fdtab' \in [Fds -> Ends], npopen' = k,
           \A fd \in Fds : fd \notin {f0, f1} => fdtab'[fd] = fdtab[fd],
           \A fd \in {f0, f1} : fdtab'[fd].pipe \in {0, k}
    PROVE  /\ Cardinality(OpenFds') <= 3 + 2 * npopen'
           /\ \A fd \in 0..2 : fdtab'[fd] = Std
           /\ \A fd \in Fds : fdtab'[fd].pipe <= npopen'
<1>0. MaxPopens \in Nat /\ npopen \in Nat /\ maxfd \in Nat
    BY PopenAssumption DEF PopenInv, maxfd
<1>1. IsFiniteSet(Fds)
    BY <1>0, FS_Interval DEF Fds
<1>2. OpenFds' \subseteq (OpenFds \cup {f0}) \cup {f1} /\ OpenFds \subseteq Fds
    BY DEF OpenFds
<1>3. IsFiniteSet(OpenFds) /\ Cardinality(OpenFds) \in Nat
    BY <1>1, <1>2, FS_Subset, FS_CardinalityType
<1> DEFINE A == OpenFds \cup {f0}
           B == A \cup {f1}
<1>4. IsFiniteSet(A) /\ Cardinality(A) <= Cardinality(OpenFds) + 1
    BY <1>3, FS_AddElement
<1>13. OpenFds' \subseteq B
    BY <1>2
<1> HIDE DEF A
<1>14. Cardinality(A) \in Nat
    BY <1>4, FS_CardinalityType
<1>5. IsFiniteSet(B) /\ Cardinality(B) <= Cardinality(A) + 1
  <2>1. IsFiniteSet(B) /\ Cardinality(B) = IF f1 \in A THEN Cardinality(A) ELSE Cardinality(A) + 1
    BY <1>4, FS_AddElement
  <2> QED
    BY <1>14, <2>1
<1> HIDE DEF B
<1>6. IsFiniteSet(OpenFds') /\ Cardinality(OpenFds') <= Cardinality(B)
    BY <1>5, <1>13, FS_Subset
<1>7. Cardinality(OpenFds) <= 3 + 2 * npopen
    BY DEF PopenInv
<1>8. Cardinality(OpenFds') \in Nat /\ Cardinality(A) \in Nat /\ Cardinality(B) \in Nat
    BY <1>5, <1>6, <1>14, FS_CardinalityType
<1>9. Cardinality(OpenFds') <= 3 + 2 * npopen'
    BY <1>0, <1>3, <1>4, <1>5, <1>6, <1>7, <1>8
<1>10. \A fd \in 0..2 : fd \in Fds /\ fd \notin {f0, f1}
    BY <1>0 DEF PopenInv, Fds, maxfd, Closed, Std
<1>11. \A fd \in 0..2 : fdtab'[fd] = Std
    BY <1>10 DEF PopenInv
<1>12. \A fd \in Fds : fdtab'[fd].pipe <= npopen'
  <2> SUFFICES ASSUME NEW fd \in Fds PROVE fdtab'[fd].pipe <= npopen + 1
    OBVIOUS
  <2>1. CASE fd \in {f0, f1}
    BY <1>0, <2>1
  <2>2. CASE fd \notin {f0, f1}
    <3>1. fdtab[fd].pipe <= npopen /\ fdtab[fd].pipe \in Nat
      BY <1>0 DEF PopenInv, Ends, Closed, Std, End, Calls
    <3> QED
      BY <1>0, <2>2, <3>1
  <2> QED
    BY <2>1, <2>2
<1> QED
    BY <1>9, <1>11, <1>12

\* The child's descriptors: its own end of its own pipe, once, and what failed
\* calls have left.
LEMMA ChildIsRight ==
    ASSUME PopenInv, npopen < MaxPopens, NEW k, k = npopen + 1, NEW type \in {"r", "w"},
           NEW f0 \in Fds, NEW f1 \in Fds, fdtab[f0] = Closed, fdtab[f1] = Closed, f0 # f1,
           NEW both, both = [fdtab EXCEPT ![f0] = End(k, "r"), ![f1] = End(k, "w")],
           NEW fds, fds = ChildFds(both, type, f0, f1)
    PROVE  /\ fds \in [Fds -> Ends]
           /\ \A c : c.fds = fds /\ c.type = type => OwnPipe(c, k, lost)
<1> DEFINE std == IF type = "w" THEN 0 ELSE 1
           own == End(k, IF type = "w" THEN "r" ELSE "w")
<1>0. MaxPopens \in Nat /\ npopen \in Nat /\ maxfd \in Nat /\ k \in Calls /\ k # 0 /\ k \in Nat
    BY PopenAssumption DEF PopenInv, maxfd, Calls
<1>1. /\ 0 \in Fds /\ 1 \in Fds /\ f0 \notin {0, 1} /\ f1 \notin {0, 1}
      /\ fdtab[0] = Std /\ fdtab[1] = Std /\ childpid[0] = 0 /\ childpid[1] = 0
    BY <1>0 DEF PopenInv, Fds, maxfd, Closed, Std
<1>2. Closed \in Ends /\ End(k, "r") \in Ends /\ End(k, "w") \in Ends /\ Closed.pipe = 0 /\ own.pipe = k
    BY <1>0 DEF Ends, Closed, End
<1>3. /\ fdtab \in [Fds -> Ends] /\ both \in [Fds -> Ends] /\ both[f0] = End(k, "r") /\ both[f1] = End(k, "w")
      /\ \A fd \in Fds \ {f0, f1} : both[fd] = fdtab[fd]
    BY <1>2 DEF PopenInv
<1>4. \A fd \in Fds : fds[fd] = IF childpid[fd] # 0 THEN Closed
                                ELSE IF fd = std THEN own
                                ELSE IF fd \in {f0, f1} THEN Closed
                                ELSE fdtab[fd]
  <2> SUFFICES ASSUME NEW fd \in Fds
               PROVE  fds[fd] = IF childpid[fd] # 0 THEN Closed
                                ELSE IF fd = std THEN own
                                ELSE IF fd \in {f0, f1} THEN Closed
                                ELSE fdtab[fd]
    OBVIOUS
  <2>1. childpid[fd] \in Nat
    BY DEF PopenInv
  <2> QED
    BY <1>1, <1>3, <2>1 DEF ChildFds, Close, Dup2
<1>5. DOMAIN fds = Fds /\ fds = [fd \in Fds |-> fds[fd]]
    BY DEF ChildFds
<1>6. fds[std] = own
  <2>1. std \in Fds /\ childpid[std] = 0
    BY <1>1
  <2> HIDE DEF std, own
  <2> QED
    BY <1>4, <2>1
<1>7. \A fd \in Fds : fdtab[fd].pipe <= npopen /\ (childpid[fd] = 0 => fdtab[fd].pipe \in {0} \cup lost) /\ childpid[fd] \in Nat
    BY DEF PopenInv
<1> HIDE DEF std, own
<1>8. \A fd \in Fds : fds[fd] \in Ends
    BY <1>2, <1>3, <1>4 DEF own
<1>9. \A fd \in Fds : fds[fd].pipe \in {0, k} \cup lost
  <2> SUFFICES ASSUME NEW fd \in Fds PROVE fds[fd].pipe \in {0, k} \cup lost
    OBVIOUS
  <2>1. fds[fd] = Closed \/ fds[fd] = own \/ (childpid[fd] = 0 /\ fds[fd] = fdtab[fd])
    BY <1>4, <1>7
  <2> QED
    BY <1>2, <1>7, <2>1
<1>10. \A fd \in Fds : fds[fd].pipe = k => fd = std
  <2> SUFFICES ASSUME NEW fd \in Fds, fd # std PROVE fds[fd].pipe # k
    OBVIOUS
  <2>1. fds[fd] = Closed \/ fds[fd] = fdtab[fd]
    BY <1>4
  <2> QED
    BY <1>0, <1>2, <1>7, <2>1
<1>11. std \in Fds
    BY <1>1 DEF std
<1>12. {fd \in Fds : fds[fd].pipe = k} = {std}
    BY <1>2, <1>6, <1>10, <1>11
<1>13. Cardinality({fd \in Fds : fds[fd].pipe = k}) = 1
    BY <1>12, FS_Singleton
<1>14. ASSUME NEW c, c.fds = fds, c.type = type PROVE OwnPipe(c, k, lost)
    BY <1>6, <1>9, <1>13, <1>14 DEF std, own, OwnPipe
<1> QED
    BY <1>5, <1>8, <1>14

\* The steps of the program and of its commands keep the invariant.
LEMMA PopenInvStep == PopenInv /\ [PopenNext]_popenVars => PopenInv'
<1> SUFFICES ASSUME PopenInv, [PopenNext]_popenVars PROVE PopenInv'
    OBVIOUS
<1> DEFINE Cmds == [pc : {"none", "run", "exit", "waited"}, type : {"none", "r", "w"}, fds : [Fds -> Ends]]
<1>0. /\ MaxPopens \in Nat /\ npopen \in Nat /\ npopen <= MaxPopens
      /\ fdtab \in [Fds -> Ends] /\ childpid \in [Fds -> Nat] /\ cmds \in [Calls -> Cmds]
      /\ \A fd \in Fds : fdtab[fd].pipe <= npopen /\ (childpid[fd] = 0 => fdtab[fd].pipe \in {0} \cup lost)
      /\ \A fd \in 0..2 : fdtab[fd] = Std /\ childpid[fd] = 0
      /\ Cardinality(OpenFds) <= 3 + 2 * npopen /\ CommandsHaveTheirOwnPipe
    BY PopenAssumption DEF PopenInv
<1>z. Closed.pipe = 0 /\ Std.pipe = 0 /\ Closed \in Ends /\ \A k, e : End(k, e).pipe = k
    BY DEF Closed, Std, End, Ends
<1>a. CommandsHaveTheirOwnPipe <=> \A k \in Calls : cmds[k].pc = "run" => OwnPipe(cmds[k], k, lost)
    BY DEF CommandsHaveTheirOwnPipe, OwnPipe
<1>b. CommandsHaveTheirOwnPipe' <=> \A k \in Calls : cmds'[k].pc = "run" => OwnPipe(cmds'[k], k, lost')
    BY DEF CommandsHaveTheirOwnPipe, OwnPipe
<1>c. ASSUME NEW c, NEW k, NEW g, NEW h, g \subseteq h, OwnPipe(c, k, g) PROVE OwnPipe(c, k, h)
    BY <1>c DEF OwnPipe
<1>1. CASE UNCHANGED popenVars
    BY <1>1 DEF popenVars, PopenInv, OpenFds, CommandsHaveTheirOwnPipe
<1>2. ASSUME NEW type \in {"r", "w"}, popen(type) PROVE PopenInv'
  <2> DEFINE k == npopen + 1
             free == {fd \in Fds : fdtab[fd] = Closed}
             f0 == Min(free)
             f1 == Min(free \ {f0})
             both == [fdtab EXCEPT ![f0] = End(k, "r"), ![f1] = End(k, "w")]
             fp == IF type = "r" THEN f0 ELSE f1
             parent == Close(both, IF type = "r" THEN f1 ELSE f0)
             fds == ChildFds(both, type, f0, f1)
             cmd(pc) == [cmds EXCEPT ![k] = [pc |-> pc, type |-> type, fds |-> fds]]
  <2>1. /\ npopen < MaxPopens /\ npopen' = k /\ UNCHANGED pcloses
        /\ \/ \E pc \in {"run", "exit"} :
                 fdtab' = parent /\ cmds' = cmd(pc) /\ childpid' = [childpid EXCEPT ![fp] = k] /\ lost' = lost
           \/ fdtab' = both /\ lost' = lost \cup {k} /\ cmds' = cmds /\ childpid' = childpid
           \/ fdtab' = parent /\ cmds' = cmd("run") /\ lost' = lost \cup {k} /\ childpid' = childpid
    BY <1>2 DEF popen
  <2>2. f0 \in Fds /\ f1 \in Fds /\ fdtab[f0] = Closed /\ fdtab[f1] = Closed /\ f0 # f1
    BY <2>1, TwoAreFree
  <2>3. k \in Calls /\ k \in Nat /\ k # 0 /\ k <= MaxPopens
    BY <1>0, <2>1 DEF Calls
  <2>4. fds \in [Fds -> Ends] /\ \A c : c.fds = fds /\ c.type = type => OwnPipe(c, k, lost)
    <3>1. k = npopen + 1 /\ both = [fdtab EXCEPT ![f0] = End(k, "r"), ![f1] = End(k, "w")]
          /\ fds = ChildFds(both, type, f0, f1)
      OBVIOUS
    <3>2. npopen < MaxPopens
      BY <2>1
    <3> HIDE DEF k, f0, f1, both, fds
    <3> QED
      BY <2>2, <3>1, <3>2, ChildIsRight
  <2>5. End(k, "r") \in Ends /\ End(k, "w") \in Ends
    BY <2>3 DEF Ends
  <2> HIDE DEF f0, f1, k, fds
  <2>6. /\ both \in [Fds -> Ends] /\ both[f0] = End(k, "r") /\ both[f1] = End(k, "w")
        /\ \A fd \in Fds : fd \notin {f0, f1} => both[fd] = fdtab[fd]
    BY <1>0, <2>2, <2>5
  <2>7. /\ parent \in [Fds -> Ends] /\ parent[fp].pipe = k /\ fp \in {f0, f1}
        /\ \A fd \in Fds : fd \notin {f0, f1} => parent[fd] = fdtab[fd]
        /\ \A fd \in {f0, f1} : fd # fp => parent[fd] = Closed
    BY <1>z, <2>2, <2>6 DEF Close
  <2> HIDE DEF both, parent, fp
  <2>8. /\ fdtab' \in [Fds -> Ends]
        /\ \A fd \in Fds : fd \notin {f0, f1} => fdtab'[fd] = fdtab[fd]
        /\ \A fd \in {f0, f1} : fdtab'[fd].pipe \in {0, k}
    BY <1>z, <2>1, <2>6, <2>7
  <2>9. /\ Cardinality(OpenFds') <= 3 + 2 * npopen'
        /\ \A fd \in 0..2 : fdtab'[fd] = Std
        /\ \A fd \in Fds : fdtab'[fd].pipe <= npopen'
    BY <2>1, <2>2, <2>8, PopenTable DEF k
  <2>10. childpid' \in [Fds -> Nat] /\ \A fd \in 0..2 : childpid'[fd] = 0
    <3>1. \A fd \in 0..2 : fd # fp
      BY <1>0, <2>2, <2>7 DEF Closed, Std
    <3>2. childpid' = childpid \/ childpid' = [childpid EXCEPT ![fp] = k]
      BY <2>1
    <3>3. 0..2 \subseteq Fds
      BY <1>0 DEF Fds, maxfd
    <3> QED
      BY <1>0, <2>2, <2>3, <2>7, <3>1, <3>2, <3>3
  <2>11. \A fd \in Fds : childpid'[fd] = 0 => fdtab'[fd].pipe \in {0} \cup lost'
    <3>1. CASE \E pc \in {"run", "exit"} :
                  fdtab' = parent /\ cmds' = cmd(pc) /\ childpid' = [childpid EXCEPT ![fp] = k] /\ lost' = lost
      BY <1>0, <1>z, <2>2, <2>3, <2>7, <3>1
    <3>2. CASE lost' = lost \cup {k} /\ childpid' = childpid
      BY <1>0, <2>8, <3>2
    <3> QED
      BY <2>1, <3>1, <3>2
  <2>12. lost \subseteq lost' /\ (cmds' = cmds \/ \E pc \in {"run", "exit"} : cmds' = cmd(pc))
    BY <2>1
  <2>13. cmds' \in [Calls -> Cmds] /\ CommandsHaveTheirOwnPipe'
    <3>1. CASE cmds' = cmds
      BY <1>0, <1>a, <1>b, <1>c, <2>12, <3>1
    <3>2. ASSUME NEW pc \in {"run", "exit"}, cmds' = cmd(pc)
          PROVE  cmds' \in [Calls -> Cmds] /\ CommandsHaveTheirOwnPipe'
      <4> DEFINE new == [pc |-> pc, type |-> type, fds |-> fds]
      <4>1. new \in Cmds /\ new.fds = fds /\ new.type = type
        BY <2>4
      <4>2. cmds' = [cmds EXCEPT ![k] = new]
        BY <3>2
      <4> HIDE DEF new, Cmds
      <4>3. cmds' \in [Calls -> Cmds] /\ cmds'[k] = new /\ \A j \in Calls : j # k => cmds'[j] = cmds[j]
        BY <1>0, <2>3, <4>1, <4>2
      <4>4. ASSUME NEW j \in Calls, cmds'[j].pc = "run"
            PROVE  OwnPipe(cmds'[j], j, lost')
        <5>1. CASE j = k
          <6>1. cmds'[j].fds = fds /\ cmds'[j].type = type
            BY <4>1, <4>3, <5>1
          <6> QED
            BY <1>c, <2>4, <2>12, <5>1, <6>1
        <5>2. CASE j # k
          <6>1. cmds'[j] = cmds[j]
            BY <4>3, <5>2
          <6> QED
            BY <1>0, <1>a, <1>c, <2>12, <4>4, <6>1
        <5> QED
          BY <5>1, <5>2
      <4> QED
        BY <1>b, <4>3, <4>4
    <3> QED
      BY <2>12, <3>1, <3>2
  <2>14. npopen' \in Nat /\ npopen' <= MaxPopens
    BY <2>1, <2>3
  <2> QED
    BY <2>8, <2>9, <2>10, <2>11, <2>13, <2>14 DEF PopenInv
<1>3. ASSUME NEW f \in Fds, pclose(f) PROVE PopenInv'
  <2>1. /\ childpid[f] # 0 /\ childpid' = [childpid EXCEPT ![f] = 0] /\ fdtab' = [fdtab EXCEPT ![f] = Closed]
        /\ UNCHANGED <<cmds, npopen, lost>>
    BY <1>3 DEF pclose, Close
  <2>2. fdtab' \in [Fds -> Ends] /\ childpid' \in [Fds -> Nat] /\ \A fd \in 0..2 : fdtab'[fd] = Std /\ childpid'[fd] = 0
    <3>1. 0..2 \subseteq Fds
      BY <1>0 DEF Fds, maxfd
    <3> QED
      BY <1>0, <1>z, <2>1, <3>1
  <2>3. \A fd \in Fds : fdtab'[fd].pipe <= npopen /\ (childpid'[fd] = 0 => fdtab'[fd].pipe \in {0} \cup lost)
    BY <1>0, <1>z, <2>1
  <2>4. Cardinality(OpenFds') <= 3 + 2 * npopen
    <3>1. OpenFds' \subseteq OpenFds /\ OpenFds \subseteq Fds
      BY <1>0, <2>1 DEF OpenFds
    <3>2. IsFiniteSet(Fds)
      BY <1>0, FS_Interval DEF Fds, maxfd
    <3>3. IsFiniteSet(OpenFds) /\ IsFiniteSet(OpenFds') /\ Cardinality(OpenFds') <= Cardinality(OpenFds)
      BY <3>1, <3>2, FS_Subset
    <3>4. Cardinality(OpenFds) \in Nat /\ Cardinality(OpenFds') \in Nat
      BY <3>3, FS_CardinalityType
    <3> QED
      BY <1>0, <3>3, <3>4
  <2>5. CommandsHaveTheirOwnPipe'
    BY <1>0, <1>a, <1>b, <2>1
  <2> QED
    BY <1>0, <2>1, <2>2, <2>3, <2>4, <2>5 DEF PopenInv
<1>4. ASSUME NEW k, NEW c, cmds' = [cmds EXCEPT ![k] = c], k \in Calls => c \in Cmds /\ c.pc # "run",
             UNCHANGED <<fdtab, childpid, npopen, lost>>
      PROVE  PopenInv'
  <2>1. cmds' \in [Calls -> Cmds] /\ \A j \in Calls : cmds'[j] = cmds[j] \/ cmds'[j].pc # "run"
    <3> HIDE DEF Cmds
    <3> QED
      BY <1>0, <1>4
  <2>2. CommandsHaveTheirOwnPipe'
    BY <1>0, <1>a, <1>b, <1>4, <2>1
  <2>3. OpenFds' = OpenFds
    BY <1>4 DEF OpenFds
  <2> QED
    BY <1>0, <1>4, <2>1, <2>2, <2>3 DEF PopenInv
<1>5. CASE WaitpidReturns
  <2>1. cmds' = [cmds EXCEPT ![pcloses] = [cmds[pcloses] EXCEPT !.pc = "waited"]]
        /\ UNCHANGED <<fdtab, childpid, npopen, lost>>
    BY <1>5 DEF WaitpidReturns
  <2>2. pcloses \in Calls => [cmds[pcloses] EXCEPT !.pc = "waited"] \in Cmds /\ [cmds[pcloses] EXCEPT !.pc = "waited"].pc # "run"
    BY <1>0
  <2> HIDE DEF Cmds
  <2> QED
    BY <1>4, <2>1, <2>2
<1>6. ASSUME NEW k \in Calls, CommandExits(k) PROVE PopenInv'
  <2> DEFINE c == [cmds[k] EXCEPT !.pc = "exit", !.fds = [fd \in Fds |-> Closed]]
  <2>1. cmds' = [cmds EXCEPT ![k] = c] /\ UNCHANGED <<fdtab, childpid, npopen, lost>>
    BY <1>6 DEF CommandExits
  <2>2. c \in Cmds /\ c.pc # "run"
    BY <1>0, <1>z
  <2> HIDE DEF c, Cmds
  <2> QED
    BY <1>4, <2>1, <2>2
<1> QED
    BY <1>1, <1>2, <1>3, <1>5, <1>6 DEF PopenNext

\* Every command popen starts has its own end of its own pipe and no end of
\* another stream's, whatever streams are open, were closed, or failed.
THEOREM PipesAreNotInherited == PopenSpec => []CommandsHaveTheirOwnPipe
<1>1. PopenInit => PopenInv
  <2> SUFFICES ASSUME PopenInit PROVE PopenInv
    OBVIOUS
  <2>0. MaxPopens \in Nat /\ maxfd \in Nat /\ maxfd = 3 + 2 * MaxPopens
    BY PopenAssumption DEF maxfd
  <2>1. Closed \in Ends /\ Std \in Ends /\ Closed.pipe = 0 /\ Std.pipe = 0 /\ Closed # Std
    BY DEF Ends, Closed, Std
  <2>2. /\ npopen = 0 /\ lost = {} /\ childpid = [fd \in Fds |-> 0]
        /\ fdtab = [fd \in Fds |-> IF fd < 3 THEN Std ELSE Closed]
        /\ cmds = [k \in Calls |-> [pc |-> "none", type |-> "none", fds |-> [fd \in Fds |-> Closed]]]
    BY DEF PopenInit
  <2>3. OpenFds = 0..2 /\ 0..2 \subseteq Fds
    BY <2>0, <2>1, <2>2 DEF OpenFds, Fds
  <2>4. Cardinality(OpenFds) = 3
    <3>1. Cardinality(0..2) = IF 0 > 2 THEN 0 ELSE 2 - 0 + 1
      <4>1. PICK a \in Int, b \in Int : a = 0 /\ b = 2
        OBVIOUS
      <4>2. Cardinality(a..b) = IF a > b THEN 0 ELSE b - a + 1
        BY FS_Interval
      <4> QED
        BY <4>1, <4>2
    <3> QED
      BY <2>3, <3>1
  <2>5. cmds \in [Calls -> [pc : {"none", "run", "exit", "waited"}, type : {"none", "r", "w"}, fds : [Fds -> Ends]]]
    BY <2>1, <2>2
  <2>6. CommandsHaveTheirOwnPipe
    BY <2>2 DEF CommandsHaveTheirOwnPipe
  <2>7. \A fd \in Fds : fdtab[fd].pipe = 0 /\ fdtab[fd] \in Ends
    BY <2>1, <2>2
  <2>8. \A fd \in 0..2 : fdtab[fd] = Std /\ childpid[fd] = 0
    BY <2>2, <2>3
  <2> QED
    BY <2>0, <2>2, <2>4, <2>5, <2>6, <2>7, <2>8 DEF PopenInv
<1>2. PopenInv => CommandsHaveTheirOwnPipe
    BY DEF PopenInv
<1> QED
    BY <1>1, <1>2, PopenInvStep, PTL DEF PopenSpec

-----------------------------------------------------------------------------
(* TellWait: tellwait.c, devzero.c, tellwait2.c and deadlock.c. *)

TellCalls == {"update", "tell", "wait", "putc", "lock0", "lock1"}
InTurns == {"devzero", "tellwait2"}

\* The call that a side makes after d calls, and how many calls it has in all.
CallAfter(name, s, d) ==
    LET op(d0, d1, d2) == IF d % 3 = 0 THEN d0 ELSE IF d % 3 = 1 THEN d1 ELSE d2
    IN  IF name = "devzero"
          THEN IF s = "parent" THEN op("update", "tell", "wait") ELSE op("wait", "update", "tell")
          ELSE IF s = "parent" THEN op("putc", "putc", "tell") ELSE op("wait", "putc", "putc")
Size(name, rounds) == IF name = "devzero" THEN 3 * rounds ELSE 3

\* How many of its first d calls are tell, wait and update.
Tells(name, s, d) == IF s = "parent" THEN IF name = "devzero" THEN (d + 1) \div 3 ELSE d \div 3
                                     ELSE IF name = "devzero" THEN d \div 3 ELSE 0
Waits(name, s, d) == IF s = "parent" THEN IF name = "devzero" THEN d \div 3 ELSE 0
                                     ELSE (d + 2) \div 3
Updates(name, s, d) == IF name # "devzero" THEN 0 ELSE IF s = "parent" THEN (d + 2) \div 3 ELSE (d + 1) \div 3

One(b) == IF b THEN 1 ELSE 0

\* What was told to s and s has not waited for.
Told(s) == pipes[s] + One(sig[s].pending) + One(sig[s].sigflag) + One(waiting[s] = "reset")
CallsDone(s) == Size(turns.name, turns.rounds) - Len(steps[s])

TellTypes ==
    /\ turns \in [name : {"none", "devzero", "tellwait2", "deadlock"}, by : {"none", "signals", "pipes"}, rounds : Nat]
    /\ steps \in [Sides -> Seq(TellCalls)]
    /\ waiting \in [Sides -> {"no", "reset", "suspend", "asleep"}]
    /\ sig \in [Sides -> [pending : BOOLEAN, masked : BOOLEAN, sigflag : BOOLEAN]]
    /\ pipes \in [Sides -> Nat]
    /\ area \in Nat /\ turnsOk \in BOOLEAN /\ output \in Seq(Sides)

\* Each side makes the calls of its program in their order.
Follows(s) ==
    /\ waiting[s] # "no" => steps[s] # <<>> /\ steps[s][1] = "wait"
    /\ turns.name = "none" => steps[s] = <<>>
    /\ turns.name \notin InTurns => Told(s) = 0 \/ turns.name = "deadlock"
    /\ turns.name = "deadlock" => \A i \in 1..Len(steps[s]) : steps[s][i] \notin {"update", "putc"}
    /\ turns.name \in InTurns =>
          /\ CallsDone(s) \in Nat
          /\ \A i \in 1..Len(steps[s]) : steps[s][i] = CallAfter(turns.name, s, CallsDone(s) + i - 1)

\* Nothing that was told is lost or counts twice.
Balance(s) == Told(s) = Tells(turns.name, Other(s), CallsDone(Other(s))) - Waits(turns.name, s, CallsDone(s))

InOrder ==
    turns.name \in InTurns =>
       /\ \A s \in Sides : Balance(s)
       /\ turns.name = "devzero" => area = Updates("devzero", "parent", CallsDone("parent"))
                                           + Updates("devzero", "child", CallsDone("child"))

\* The child writes only after its wait, when the parent has written everything.
ParentFirst ==
    /\ \A i \in 1..Len(output) : output[i] = "child" => turns.name = "tellwait2" /\ CallsDone("child") > 0
    /\ \A i, j \in 1..Len(output) : i < j /\ output[i] = "child" => output[j] = "child"
    /\ turns.name = "none" => output = <<>> /\ area = 0

TellInv == TellTypes /\ turnsOk /\ (\A s \in Sides : Follows(s)) /\ InOrder /\ ParentFirst

\* A call more is one tell, wait or update more, or none.
LEMMA CallCounts ==
    ASSUME NEW name \in InTurns, NEW s \in Sides, NEW d \in Nat, name = "tellwait2" => d < 3
    PROVE  /\ Tells(name, s, d) \in Nat /\ Waits(name, s, d) \in Nat /\ Updates(name, s, d) \in Nat
           /\ Tells(name, s, d + 1) = Tells(name, s, d) + One(CallAfter(name, s, d) = "tell")
           /\ Waits(name, s, d + 1) = Waits(name, s, d) + One(CallAfter(name, s, d) = "wait")
           /\ Updates(name, s, d + 1) = Updates(name, s, d) + One(CallAfter(name, s, d) = "update")
           /\ CallAfter(name, s, d) \notin {"lock0", "lock1"}
           /\ name = "devzero" => CallAfter(name, s, d) # "putc"
           /\ name = "tellwait2" => CallAfter(name, s, d) # "update"
<1> USE DEF Tells, Waits, Updates, One, CallAfter, InTurns, Sides
<1>1. CASE name = "devzero" /\ s = "parent"
    BY <1>1
<1>2. CASE name = "devzero" /\ s = "child"
    BY <1>2
<1>3. CASE name = "tellwait2" /\ s = "parent"
  <2>1. d \in 0..2
    BY <1>3
  <2> QED
    BY <1>3, <2>1
<1>4. CASE name = "tellwait2" /\ s = "child"
  <2>1. d \in 0..2
    BY <1>4
  <2> QED
    BY <1>4, <2>1
<1> QED
    BY <1>1, <1>2, <1>3, <1>4

\* If neither side waits more often than it was told, a side that tells has
\* nothing outstanding, and one that updates finds all earlier updates.
LEMMA TurnsAlternate ==
    ASSUME NEW name \in InTurns, NEW p \in Nat, NEW c \in Nat,
           name = "tellwait2" => p <= 3 /\ c <= 3,
           Waits(name, "child", c) <= Tells(name, "parent", p),
           Waits(name, "parent", p) <= Tells(name, "child", c)
    PROVE  /\ CallAfter(name, "parent", p) = "tell" /\ (name = "tellwait2" => p < 3) => Tells(name, "parent", p) = Waits(name, "child", c)
           /\ CallAfter(name, "child", c) = "tell" /\ (name = "tellwait2" => c < 3) => Tells(name, "child", c) = Waits(name, "parent", p)
           /\ name = "devzero" /\ CallAfter(name, "parent", p) = "update" =>
                 p % 3 = 0 /\ Updates(name, "parent", p) + Updates(name, "child", c) = 2 * (p \div 3)
           /\ name = "devzero" /\ CallAfter(name, "child", c) = "update" =>
                 c % 3 = 1 /\ Updates(name, "parent", p) + Updates(name, "child", c) = 2 * (c \div 3) + 1
           /\ name = "tellwait2" /\ c > 0 => p = 3
           /\ Tells(name, "parent", p) <= Waits(name, "child", c) + 1
           /\ Tells(name, "child", c) <= Waits(name, "parent", p) + 1
<1> USE DEF Tells, Waits, Updates, CallAfter, InTurns
<1>1. CASE name = "devzero"
    BY <1>1
<1>2. CASE name = "tellwait2"
  <2>1. p \in 0..3 /\ c \in 0..3
    BY <1>2
  <2> QED
    BY <1>2, <2>1
<1> QED
    BY <1>1, <1>2

\* What is left after a call.
LEMMA AfterACall ==
    ASSUME NEW s \in Seq(TellCalls), s # <<>>
    PROVE  /\ Len(s) \in Nat /\ Len(s) > 0 /\ Head(s) = s[1] /\ s[1] \in TellCalls
           /\ Tail(s) \in Seq(TellCalls) /\ Len(Tail(s)) = Len(s) - 1
           /\ \A i \in 1..Len(Tail(s)) : Tail(s)[i] = s[i + 1]
OBVIOUS

\* The calls of a side that are done, as the invariant has them.
LEMMA WhereASideIs ==
    ASSUME TellInv, turns.name \in InTurns, NEW s \in Sides
    PROVE  /\ CallsDone(s) \in Nat /\ Size(turns.name, turns.rounds) \in Nat
           /\ CallsDone(s) + Len(steps[s]) = Size(turns.name, turns.rounds)
           /\ turns.name = "tellwait2" => CallsDone(s) <= 3 /\ (steps[s] # <<>> => CallsDone(s) < 3)
           /\ turns.name = "devzero" => CallsDone(s) + Len(steps[s]) = 3 * turns.rounds
           /\ steps[s] # <<>> => steps[s][1] = CallAfter(turns.name, s, CallsDone(s))
           /\ Told(s) \in Nat
           /\ Waits(turns.name, s, CallsDone(s)) + Told(s) = Tells(turns.name, Other(s), CallsDone(Other(s)))
<1> DEFINE name == turns.name
           size == Size(turns.name, turns.rounds)
<1>1. size \in Nat /\ (name = "tellwait2" => size = 3) /\ (name = "devzero" => size = 3 * turns.rounds)
    BY DEF TellInv, TellTypes, Size, InTurns
<1>2. /\ steps[s] \in Seq(TellCalls) /\ Len(steps[s]) \in Nat /\ (steps[s] # <<>> => Len(steps[s]) > 0)
      /\ turns.rounds \in Nat
    BY DEF TellInv, TellTypes
<1>3. CallsDone(s) \in Nat /\ CallsDone(s) = size - Len(steps[s])
    BY DEF TellInv, Follows, CallsDone
<1>4. steps[s] # <<>> => steps[s][1] = CallAfter(name, s, CallsDone(s))
  <2>1. \A i \in 1..Len(steps[s]) : steps[s][i] = CallAfter(name, s, CallsDone(s) + i - 1)
    BY DEF TellInv, Follows
  <2>2. CallsDone(s) + 1 - 1 = CallsDone(s)
    BY <1>3
  <2> QED
    BY <2>1, <2>2, <1>2
<1>5. Told(s) \in Nat
  <2>1. pipes[s] \in Nat /\ \A b : One(b) \in {0, 1}
    BY DEF TellInv, TellTypes, One
  <2> QED
    BY <2>1 DEF Told
<1>6. Balance(s)
    BY DEF TellInv, InOrder
<1>7. /\ Tells(name, Other(s), CallsDone(Other(s))) \in Int /\ Waits(name, s, CallsDone(s)) \in Int
  <2>1. Other(s) \in Sides
    BY DEF Other, Sides
  <2>2. CallsDone(Other(s)) \in Nat
    BY <2>1 DEF TellInv, Follows
  <2> QED
    BY <2>2, <1>3 DEF Tells, Waits
<1> HIDE DEF name, size
<1> QED
    BY <1>1, <1>2, <1>3, <1>4, <1>5, <1>6, <1>7 DEF Balance, name, size

\* Whoever tells has been waited for, and whoever updates finds its number.
LEMMA WhoseTurnItIs ==
    ASSUME TellInv, turns.name \in InTurns, NEW s \in Sides, steps[s] # <<>>
    PROVE  /\ steps[s][1] = "tell" => Told(Other(s)) = 0
           /\ steps[s][1] = "update" => area = Expected(s)
           /\ turns.name = "tellwait2" /\ CallsDone("child") > 0 => CallsDone("parent") = 3
<1> DEFINE name == turns.name
           p == CallsDone("parent")
           c == CallsDone("child")
<1>1. "parent" \in Sides /\ "child" \in Sides /\ Other("parent") = "child" /\ Other("child") = "parent"
    BY DEF Sides, Other
<1>2. p \in Nat /\ c \in Nat /\ (name = "tellwait2" => p <= 3 /\ c <= 3)
    BY <1>1, WhereASideIs
<1>3. /\ Told("parent") \in Nat /\ Waits(name, "parent", p) + Told("parent") = Tells(name, "child", c)
      /\ Told("child") \in Nat /\ Waits(name, "child", c) + Told("child") = Tells(name, "parent", p)
    BY <1>1, WhereASideIs
<1>4. /\ Waits(name, "parent", p) \in Int /\ Waits(name, "child", c) \in Int
      /\ Tells(name, "parent", p) \in Int /\ Tells(name, "child", c) \in Int
    BY <1>2 DEF Waits, Tells
<1>5. Waits(name, "child", c) <= Tells(name, "parent", p) /\ Waits(name, "parent", p) <= Tells(name, "child", c)
    BY <1>3, <1>4
<1>6. /\ CallAfter(name, "parent", p) = "tell" /\ (name = "tellwait2" => p < 3) => Tells(name, "parent", p) = Waits(name, "child", c)
      /\ CallAfter(name, "child", c) = "tell" /\ (name = "tellwait2" => c < 3) => Tells(name, "child", c) = Waits(name, "parent", p)
      /\ name = "devzero" /\ CallAfter(name, "parent", p) = "update" =>
            p % 3 = 0 /\ Updates(name, "parent", p) + Updates(name, "child", c) = 2 * (p \div 3)
      /\ name = "devzero" /\ CallAfter(name, "child", c) = "update" =>
            c % 3 = 1 /\ Updates(name, "parent", p) + Updates(name, "child", c) = 2 * (c \div 3) + 1
      /\ name = "tellwait2" /\ c > 0 => p = 3
  <2> HIDE DEF p, c, name
  <2>1. name \in InTurns
    BY DEF name
  <2> QED
    BY <2>1, <1>2, <1>5, TurnsAlternate
<1>7. steps[s][1] = "tell" => Told(Other(s)) = 0
  <2>1. steps[s][1] = CallAfter(name, s, CallsDone(s)) /\ (name = "tellwait2" => CallsDone(s) < 3)
    BY WhereASideIs
  <2>2. CASE s = "parent"
    BY <2>1, <2>2, <1>1, <1>3, <1>4, <1>6
  <2>3. CASE s = "child"
    BY <2>1, <2>3, <1>1, <1>3, <1>4, <1>6
  <2> QED
    BY <2>2, <2>3 DEF Sides
<1>8. ASSUME steps[s][1] = "update" PROVE area = Expected(s)
  <2>1. steps[s][1] = CallAfter(name, s, CallsDone(s)) /\ (name = "tellwait2" => CallsDone(s) < 3)
    BY WhereASideIs
  <2>2. name = "devzero"
    <3>1. CallsDone(s) \in Nat /\ name \in InTurns
      BY WhereASideIs
    <3>2. name = "tellwait2" => CallAfter(name, s, CallsDone(s)) # "update"
      <4> HIDE DEF name
      <4> QED
        BY <3>1, <2>1, CallCounts
    <3> QED
      BY <3>1, <3>2, <1>8, <2>1 DEF InTurns
  <2>3. /\ CallsDone(s) + Len(steps[s]) = 3 * turns.rounds /\ CallsDone(s) \in Nat
        /\ Len(steps[s]) \in Nat /\ turns.rounds \in Nat
    BY <2>2, WhereASideIs DEF TellInv, TellTypes
  <2>4. area = Updates(name, "parent", p) + Updates(name, "child", c)
    BY <2>2 DEF TellInv, InOrder
  <2>5. ASSUME NEW d \in Nat, NEW n \in Nat, NEW r \in Nat, d + n = 3 * r, d % 3 = 0
        PROVE  2 * (r - ((n + 2) \div 3)) = 2 * (d \div 3)
    BY <2>5
  <2>6. ASSUME NEW d \in Nat, NEW n \in Nat, NEW r \in Nat, d + n = 3 * r, d % 3 = 1
        PROVE  2 * (r - ((n + 2) \div 3)) = 2 * (d \div 3)
    BY <2>6
  <2>7. CASE s = "parent"
    <3>1. p % 3 = 0 /\ area = 2 * (p \div 3)
      BY <2>1, <2>2, <2>4, <2>7, <1>8, <1>6
    <3>2. 2 * (turns.rounds - ((Len(steps[s]) + 2) \div 3)) = 2 * (p \div 3)
      BY <3>1, <2>3, <2>5, <2>7
    <3>3. Expected(s) = 2 * (turns.rounds - ((Len(steps[s]) + 2) \div 3)) + 0
      BY <2>7 DEF Expected
    <3>4. 2 * (p \div 3) + 0 = 2 * (p \div 3)
      BY <1>2
    <3> QED
      BY <3>1, <3>2, <3>3, <3>4
  <2>8. CASE s = "child"
    <3>1. c % 3 = 1 /\ area = 2 * (c \div 3) + 1
      BY <2>1, <2>2, <2>4, <2>8, <1>8, <1>6
    <3>2. 2 * (turns.rounds - ((Len(steps[s]) + 2) \div 3)) = 2 * (c \div 3)
      BY <3>1, <2>3, <2>6, <2>8
    <3> QED
      BY <3>1, <3>2, <2>8, <2>3 DEF Expected
  <2> QED
    BY <2>7, <2>8 DEF Sides
<1> QED
    BY <1>6, <1>7, <1>8

\* A step of the two sides' calls: s makes its next call, which tells the other
\* side, takes what it was told, adds one to the counter, or does neither.
Makes(s) ==
    /\ steps[s] # <<>> /\ turns' = turns /\ steps' = [steps EXCEPT ![s] = Tail(@)]
    /\ \A x \in Sides : waiting'[x] = IF x = s THEN "no" ELSE waiting[x]
    /\ \A x \in Sides : Told(x)' + One(steps[s][1] = "wait" /\ x = s) = Told(x) + One(steps[s][1] = "tell" /\ x # s)
    /\ area' = area + One(steps[s][1] = "update")

\* Such a step keeps the order of the calls and what is told and waited for.
LEMMA CallKeeps ==
    ASSUME TellInv, TellTypes', NEW s \in Sides, Makes(s)
    PROVE  (\A x \in Sides : Follows(x)') /\ InOrder' /\ (turns.name \in InTurns => CallsDone(s)' = CallsDone(s) + 1)
<1> DEFINE name == turns.name
           op == steps[s][1]
<1>1. /\ steps[s] \in Seq(TellCalls) /\ steps[s] # <<>> /\ turns' = turns
      /\ steps'[s] = Tail(steps[s]) /\ \A x \in Sides : x # s => steps'[x] = steps[x]
    BY DEF Makes, TellInv, TellTypes
<1>2. /\ Len(steps[s]) \in Nat /\ Len(steps'[s]) = Len(steps[s]) - 1
      /\ \A i \in 1..Len(steps'[s]) : steps'[s][i] = steps[s][i + 1] /\ i + 1 \in 1..Len(steps[s])
    BY <1>1, AfterACall
<1>3. \A x \in Sides : waiting'[x] # "no" => x # s /\ waiting'[x] = waiting[x]
    BY DEF Makes
<1>4. name # "none"
    BY <1>1 DEF TellInv, Follows
<1>5. ASSUME name \in InTurns
      PROVE  /\ CallsDone(s)' = CallsDone(s) + 1 /\ \A x \in Sides : x # s => CallsDone(x)' = CallsDone(x)
             /\ \A x \in Sides : CallsDone(x) \in Nat
  <2>1. /\ CallsDone(s) = Size(name, turns.rounds) - Len(steps[s]) /\ CallsDone(s)' = Size(name, turns.rounds) - Len(steps'[s])
        /\ Size(name, turns.rounds) \in Nat
    BY <1>1, <1>5, WhereASideIs DEF CallsDone
  <2>2. CallsDone(s)' = CallsDone(s) + 1
    BY <2>1, <1>2
  <2>3. \A x \in Sides : x # s => CallsDone(x)' = CallsDone(x)
    BY <1>1 DEF CallsDone
  <2>4. \A x \in Sides : CallsDone(x) \in Nat
    BY <1>5, WhereASideIs
  <2> QED
    BY <2>2, <2>3, <2>4
<1>6. ASSUME NEW x \in Sides PROVE Follows(x)'
  <2>1. waiting'[x] # "no" => steps'[x] # <<>> /\ steps'[x][1] = "wait"
    BY <1>1, <1>3 DEF TellInv, Follows
  <2>2. name = "deadlock" => \A i \in 1..Len(steps'[x]) : steps'[x][i] \notin {"update", "putc"}
    <3>1. CASE x = s
      BY <3>1, <1>2 DEF TellInv, Follows
    <3>2. CASE x # s
      BY <3>2, <1>1 DEF TellInv, Follows
    <3> QED
      BY <3>1, <3>2
  <2>3. ASSUME name \in InTurns
        PROVE  /\ CallsDone(x)' \in Nat
               /\ \A i \in 1..Len(steps'[x]) : steps'[x][i] = CallAfter(name, x, CallsDone(x)' + i - 1)
    <3>1. CASE x = s
      <4>1. \A i \in 1..Len(steps[s]) : steps[s][i] = CallAfter(name, s, CallsDone(s) + i - 1)
        BY <2>3 DEF TellInv, Follows
      <4>2. ASSUME NEW i \in 1..Len(steps'[s]) PROVE steps'[s][i] = CallAfter(name, s, CallsDone(s)' + i - 1)
        <5>1. steps'[s][i] = CallAfter(name, s, CallsDone(s) + (i + 1) - 1)
          BY <4>1, <1>2
        <5>2. CallsDone(s)' + i - 1 = CallsDone(s) + (i + 1) - 1
          BY <2>3, <1>5, <1>2
        <5> QED
          BY <5>1, <5>2
      <4>3. CallsDone(s)' \in Nat
        BY <2>3, <1>5
      <4> QED
        BY <4>2, <4>3, <3>1
    <3>2. CASE x # s
      <4>1. CallsDone(x)' = CallsDone(x) /\ steps'[x] = steps[x]
        BY <3>2, <2>3, <1>5, <1>1
      <4>2. CallsDone(x) \in Nat /\ \A i \in 1..Len(steps[x]) : steps[x][i] = CallAfter(name, x, CallsDone(x) + i - 1)
        BY <2>3 DEF TellInv, Follows
      <4> QED
        BY <4>1, <4>2
    <3> QED
      BY <3>1, <3>2
  <2>4. name \notin InTurns => name = "deadlock"
    BY <1>4 DEF TellInv, TellTypes, InTurns
  <2> QED
    BY <2>1, <2>2, <2>3, <2>4, <1>1, <1>4 DEF Follows
<1>7. ASSUME name \in InTurns PROVE \A x \in Sides : Balance(x)'
  <2> DEFINE d == CallsDone(s)
             o == Other(s)
  <2>1. o \in Sides /\ Other(o) = s /\ o # s /\ \A x \in Sides : x \in {s, o}
    BY DEF Sides, Other
  <2>2. d \in Nat /\ CallsDone(s)' = d + 1 /\ CallsDone(o) \in Nat /\ CallsDone(o)' = CallsDone(o)
    BY <1>7, <1>5, <2>1
  <2>3. op = CallAfter(name, s, d) /\ (name = "tellwait2" => d < 3)
    BY <1>1, <1>7, WhereASideIs
  <2>4. /\ Tells(name, s, d + 1) = Tells(name, s, d) + One(op = "tell")
        /\ Waits(name, s, d + 1) = Waits(name, s, d) + One(op = "wait")
        /\ Tells(name, s, d) \in Nat /\ Waits(name, s, d) \in Nat
    <3> HIDE DEF name, op, d
    <3> QED
      BY <2>2, <2>3, <1>7, CallCounts
  <2>5. /\ Told(s)' + One(op = "wait" /\ s = s) = Told(s) + One(op = "tell" /\ s # s)
        /\ Told(o)' + One(op = "wait" /\ o = s) = Told(o) + One(op = "tell" /\ o # s)
    BY <2>1 DEF Makes
  <2>6. /\ Told(s) = Tells(name, o, CallsDone(o)) - Waits(name, s, d) /\ Told(s) \in Nat
        /\ Told(o) = Tells(name, s, d) - Waits(name, o, CallsDone(o)) /\ Told(o) \in Nat
    BY <2>1, <1>7, WhereASideIs DEF TellInv, InOrder, Balance
  <2>7. Told(s)' \in Nat /\ Told(o)' \in Nat
    <3>1. \A b : One(b) \in {0, 1}
      BY DEF One
    <3>2. pipes'[s] \in Nat /\ pipes'[o] \in Nat
      BY <2>1 DEF TellTypes
    <3> QED
      BY <3>1, <3>2 DEF Told
  <2>8. Tells(name, o, CallsDone(o)) \in Int /\ Waits(name, o, CallsDone(o)) \in Int
    BY <2>2 DEF Tells, Waits
  <2>9. /\ Told(s)' = Tells(name, o, CallsDone(o)) - Waits(name, s, d + 1)
        /\ Told(o)' = Tells(name, s, d + 1) - Waits(name, o, CallsDone(o))
    <3>1. One(op = "wait" /\ s = s) = One(op = "wait") /\ One(op = "tell" /\ s # s) = 0
          /\ One(op = "wait" /\ o = s) = 0 /\ One(op = "tell" /\ o # s) = One(op = "tell")
      BY <2>1 DEF One
    <3>2. One(op = "wait") \in Nat /\ One(op = "tell") \in Nat
      BY DEF One
    <3> HIDE DEF op, d, o, name
    <3> QED
      BY <3>1, <3>2, <2>4, <2>5, <2>6, <2>7, <2>8
  <2>10. Balance(s)' /\ Balance(o)'
    BY <2>9, <2>2, <2>1, <1>1 DEF Balance
  <2> QED
    BY <2>10, <2>1
<1>8. ASSUME name = "devzero"
      PROVE  area' = Updates("devzero", "parent", CallsDone("parent")') + Updates("devzero", "child", CallsDone("child")')
  <2>1. /\ area = Updates("devzero", "parent", CallsDone("parent")) + Updates("devzero", "child", CallsDone("child"))
        /\ area' = area + One(op = "update")
    BY <1>8 DEF TellInv, InOrder, Makes, InTurns
  <2>2. /\ CallsDone(s)' = CallsDone(s) + 1 /\ \A x \in Sides : x # s => CallsDone(x)' = CallsDone(x)
        /\ \A x \in Sides : CallsDone(x) \in Nat
    BY <1>5, <1>8 DEF InTurns
  <2>3. op = CallAfter("devzero", s, CallsDone(s))
    BY <1>1, <1>8, WhereASideIs DEF InTurns
  <2>4. Updates("devzero", s, CallsDone(s) + 1) = Updates("devzero", s, CallsDone(s)) + One(op = "update")
    <3>1. "devzero" \in InTurns /\ CallsDone(s) \in Nat
      BY <2>2 DEF InTurns
    <3> QED
      BY <3>1, <2>3, CallCounts
  <2>5. One(op = "update") \in Nat /\ \A x \in Sides : Updates("devzero", x, CallsDone(x)) \in Nat
    BY <2>2 DEF One, Updates
  <2>6. CASE s = "parent"
    <3>1. CallsDone("child")' = CallsDone("child")
      BY <2>6, <2>2 DEF Sides
    <3> QED
      BY <2>1, <2>2, <2>4, <2>5, <2>6, <3>1 DEF Sides
  <2>7. CASE s = "child"
    <3>1. CallsDone("parent")' = CallsDone("parent")
      BY <2>7, <2>2 DEF Sides
    <3> QED
      BY <2>1, <2>2, <2>4, <2>5, <2>7, <3>1 DEF Sides
  <2> QED
    BY <2>6, <2>7 DEF Sides
<1>9. InOrder'
    BY <1>1, <1>7, <1>8 DEF InOrder
<1> QED
    BY <1>5, <1>6, <1>9

\* A step between two calls: what was told and what is waited for stay.
LEMMA BetweenCalls ==
    ASSUME TellInv, TellTypes', turns' = turns, steps' = steps, area' = area,
           turns.name # "deadlock" => \A x \in Sides : Told(x)' = Told(x),
           \A x \in Sides : waiting'[x] # "no" => steps[x] # <<>> /\ steps[x][1] = "wait"
    PROVE  (\A x \in Sides : Follows(x)') /\ InOrder' /\ \A x \in Sides : CallsDone(x)' = CallsDone(x)
<1>1. \A x \in Sides : CallsDone(x)' = CallsDone(x)
    BY DEF CallsDone
<1>2. \A x \in Sides : Other(x) \in Sides /\ "parent" \in Sides /\ "child" \in Sides
    BY DEF Other, Sides
<1>3. ASSUME NEW x \in Sides PROVE Follows(x)'
    BY <1>1 DEF TellInv, Follows
<1>4. ASSUME NEW x \in Sides, Balance(x), turns.name \in InTurns PROVE Balance(x)'
    BY <1>1, <1>2, <1>4 DEF Balance, InTurns
<1>5. CallsDone("parent")' = CallsDone("parent") /\ CallsDone("child")' = CallsDone("child")
    BY <1>1 DEF Sides
<1>6. ASSUME turns.name \in InTurns PROVE \A x \in Sides : Balance(x)'
    BY <1>4, <1>6 DEF TellInv, InOrder
<1>7. ASSUME turns.name = "devzero"
      PROVE  area' = Updates("devzero", "parent", CallsDone("parent")') + Updates("devzero", "child", CallsDone("child")')
    BY <1>5, <1>7 DEF TellInv, InOrder, InTurns
<1>8. InOrder'
    BY <1>6, <1>7 DEF InOrder
<1> QED
    BY <1>1, <1>3, <1>8

\* Told is a sum of small parts: what it is before and after a step of s that
\* changes one of them.
LEMMA ToldChanges ==
    ASSUME TellTypes, TellTypes', NEW s \in Sides
    PROVE  /\ pipes[s] \in Nat /\ pipes'[s] \in Nat /\ Told(s) \in Nat /\ Told(s)' \in Nat
           /\ Told(s) = pipes[s] + One(sig[s].pending) + One(sig[s].sigflag) + One(waiting[s] = "reset")
           /\ Told(s)' = pipes'[s] + One(sig'[s].pending) + One(sig'[s].sigflag) + One(waiting'[s] = "reset")
           /\ \A b : One(b) \in Nat /\ (b => One(b) = 1) /\ (~b => One(b) = 0)
<1>1. pipes[s] \in Nat /\ pipes'[s] \in Nat
    BY DEF TellTypes
<1>2. \A b : One(b) \in Nat /\ (b => One(b) = 1) /\ (~b => One(b) = 0)
    BY DEF One
<1> QED
    BY <1>1, <1>2 DEF Told

\* Each program makes its own calls.
LEMMA OwnCalls ==
    ASSUME TellInv, turns.name \in InTurns, NEW s \in Sides, steps[s] # <<>>
    PROVE  /\ steps[s][1] \notin {"lock0", "lock1"}
           /\ steps[s][1] = "update" => turns.name = "devzero"
           /\ steps[s][1] = "putc" => turns.name = "tellwait2"
<1> DEFINE name == turns.name
           d == CallsDone(s)
<1>1. d \in Nat /\ steps[s][1] = CallAfter(name, s, d) /\ (name = "tellwait2" => d < 3) /\ name \in InTurns
    BY WhereASideIs
<1>2. /\ CallAfter(name, s, d) \notin {"lock0", "lock1"}
      /\ name = "devzero" => CallAfter(name, s, d) # "putc"
      /\ name = "tellwait2" => CallAfter(name, s, d) # "update"
  <2> HIDE DEF name, d
  <2> QED
    BY <1>1, CallCounts
<1> QED
    BY <1>1, <1>2 DEF InTurns

\* update of devzero.c finds the number that is expected.
LEMMA update_Keeps == ASSUME TellInv, NEW s \in Sides, update(s) PROVE TellInv'
<1>1. /\ steps[s] # <<>> /\ steps[s] \in Seq(TellCalls) /\ steps[s][1] = "update" /\ waiting[s] = "no"
      /\ steps' = [steps EXCEPT ![s] = Tail(@)] /\ area' = area + 1 /\ turnsOk' = (turnsOk /\ area = Expected(s))
      /\ UNCHANGED <<turns, waiting, sig, pipes, output, bytes>>
    BY DEF update, Next1, Done1, TellInv, TellTypes
<1>2. TellTypes'
    BY <1>1, AfterACall DEF TellInv, TellTypes
<1>3. \A x \in Sides : Told(x)' = Told(x) /\ Told(x) \in Nat
    BY <1>1, <1>2, ToldChanges DEF TellInv
<1>4. Makes(s)
    BY <1>1, <1>3 DEF Makes, One
<1>5. turns.name \in InTurns
  <2>1. Len(steps[s]) > 0 /\ Len(steps[s]) \in Nat
    BY <1>1
  <2> QED
    BY <1>1, <2>1 DEF TellInv, TellTypes, Follows, InTurns
<1>6. turnsOk'
    BY <1>1, <1>5, WhoseTurnItIs DEF TellInv
<1>7. turns.name = "devzero"
    BY <1>1, <1>5, OwnCalls
<1>8. ParentFirst'
    BY <1>1, <1>7 DEF TellInv, ParentFirst
<1> QED
    BY <1>2, <1>4, <1>6, <1>8, CallKeeps DEF TellInv

\* charatatime of tellwait2.c: the child writes when the parent has written.
LEMMA charatatime_Keeps == ASSUME TellInv, NEW s \in Sides, charatatime(s) PROVE TellInv'
<1>1. /\ steps[s] # <<>> /\ steps[s] \in Seq(TellCalls) /\ steps[s][1] = "putc" /\ waiting[s] = "no"
      /\ steps' = [steps EXCEPT ![s] = Tail(@)] /\ output' = Append(output, s) /\ output \in Seq(Sides)
      /\ UNCHANGED <<turns, waiting, sig, pipes, area, turnsOk, bytes>>
    BY DEF charatatime, Next1, Done1, TellInv, TellTypes
<1>2. TellTypes'
    BY <1>1, AfterACall DEF TellInv, TellTypes
<1>3. \A x \in Sides : Told(x)' = Told(x) /\ Told(x) \in Nat
    BY <1>1, <1>2, ToldChanges DEF TellInv
<1>4. Makes(s)
    BY <1>1, <1>3 DEF Makes, One, TellInv, TellTypes
<1>5. turns.name \in InTurns
  <2>1. Len(steps[s]) > 0 /\ Len(steps[s]) \in Nat
    BY <1>1
  <2> QED
    BY <1>1, <2>1 DEF TellInv, TellTypes, Follows, InTurns
<1>6. CallsDone(s) \in Nat /\ steps[s][1] = CallAfter(turns.name, s, CallsDone(s)) /\ (turns.name = "tellwait2" => CallsDone(s) < 3)
    BY <1>1, <1>5, WhereASideIs
<1>7. turns.name = "tellwait2"
    BY <1>1, <1>5, OwnCalls
<1>8. s = "child" => CallsDone(s) > 0
  <2>1. CallsDone("child") = 0 => CallAfter("tellwait2", "child", CallsDone("child")) = "wait"
    BY DEF CallAfter
  <2> QED
    BY <2>1, <1>1, <1>6, <1>7
<1>9. s = "parent" => CallsDone("child") = 0
  <2>1. CallsDone("child") \in Nat
    BY <1>5, WhereASideIs DEF Sides
  <2> QED
    BY <2>1, <1>1, <1>5, <1>6, <1>7, WhoseTurnItIs
<1>10. /\ \A x \in Sides : Follows(x)' /\ InOrder'
      /\ CallsDone(s)' = CallsDone(s) + 1
    BY <1>2, <1>4, <1>5, CallKeeps
<1>11. ParentFirst'
  <2>1. /\ Len(output) \in Nat /\ Len(output') = Len(output) + 1 /\ output'[Len(output) + 1] = s
        /\ \A i \in 1..Len(output) : output'[i] = output[i]
    BY <1>1
  <2>2. s = "parent" => \A i \in 1..Len(output) : output[i] # "child"
    BY <1>9 DEF TellInv, ParentFirst
  <2>3. \A i \in 1..Len(output') : output'[i] = "child" => CallsDone("child")' > 0
    <3> SUFFICES ASSUME NEW i \in 1..Len(output'), output'[i] = "child" PROVE CallsDone("child")' > 0
      OBVIOUS
    <3>1. s = "child"
      BY <2>1, <2>2 DEF Sides
    <3> QED
      BY <3>1, <1>8, <1>10, <1>6
  <2>4. \A i, j \in 1..Len(output') : i < j /\ output'[i] = "child" => output'[j] = "child"
    <3> SUFFICES ASSUME NEW i \in 1..Len(output'), NEW j \in 1..Len(output'), i < j, output'[i] = "child"
                 PROVE  output'[j] = "child"
      OBVIOUS
    <3>1. i \in 1..Len(output) /\ output[i] = "child"
      BY <2>1
    <3>2. s = "child"
      BY <3>1, <2>2 DEF Sides
    <3>3. CASE j = Len(output) + 1
      BY <3>3, <3>2, <2>1
    <3>4. CASE j # Len(output) + 1
      <4>1. j \in 1..Len(output)
        BY <3>4, <2>1
      <4> QED
        BY <4>1, <3>1, <2>1 DEF TellInv, ParentFirst
    <3> QED
      BY <3>3, <3>4
  <2> QED
    BY <2>3, <2>4, <1>1, <1>7 DEF ParentFirst
<1> QED
    BY <1>1, <1>2, <1>10, <1>11 DEF TellInv

\* deadlock.c neither counts nor writes: only its calls matter.
LEMMA DeadlockKeeps ==
    ASSUME TellInv, turns.name = "deadlock", turns' = turns, TellTypes',
           UNCHANGED <<area, turnsOk, output>>, NEW s \in Sides,
           \A x \in Sides : x # s => steps'[x] = steps[x] /\ waiting'[x] = waiting[x],
           \/ steps'[s] = steps[s] /\ (waiting'[s] # "no" => steps[s] # <<>> /\ steps[s][1] = "wait")
           \/ steps'[s] \in {<<>>, Tail(steps[s])} /\ steps[s] # <<>> /\ waiting'[s] = "no"
    PROVE  TellInv'
<1>1. steps[s] \in Seq(TellCalls)
    BY DEF TellInv, TellTypes
<1>2. \A x \in Sides : Follows(x) /\ turns.name \notin InTurns
    BY DEF TellInv, InTurns
<1>3. ASSUME NEW x \in Sides, NEW i \in 1..Len(steps'[x]) PROVE steps'[x][i] \notin {"update", "putc"}
  <2>1. CASE steps'[x] = steps[x]
    BY <2>1, <1>2, <1>3 DEF Follows
  <2>2. CASE x = s /\ steps'[s] = Tail(steps[s]) /\ steps[s] # <<>>
    <3>1. steps'[x][i] = steps[s][i + 1] /\ i + 1 \in 1..Len(steps[s])
      BY <2>2, <1>1, <1>3, AfterACall
    <3> QED
      BY <3>1, <1>2 DEF Follows
  <2>3. CASE x = s /\ steps'[s] = <<>>
    BY <2>3, <1>3
  <2> QED
    BY <2>1, <2>2, <2>3
<1>4. ASSUME NEW x \in Sides PROVE waiting'[x] # "no" => steps'[x] # <<>> /\ steps'[x][1] = "wait"
    BY <1>2, <1>4 DEF Follows
<1>5. \A x \in Sides : Follows(x)'
    BY <1>2, <1>3, <1>4 DEF Follows
<1>6. InOrder'
    BY <1>2 DEF InOrder
<1>7. ParentFirst'
    BY DEF TellInv, ParentFirst
<1> QED
    BY <1>5, <1>6, <1>7 DEF TellInv

\* TELL_PARENT and TELL_CHILD keep it, as nothing was told before that was not
\* waited for: a second signal would not count.
LEMMA TellKeeps == ASSUME TellInv, NEW s \in Sides, TellSignal(s) \/ TellByte(s) PROVE TellInv'
<1> DEFINE o == Other(s)
<1>1. /\ steps[s] # <<>> /\ steps[s] \in Seq(TellCalls) /\ steps[s][1] = "tell" /\ waiting[s] = "no"
      /\ steps' = [steps EXCEPT ![s] = Tail(@)]
      /\ UNCHANGED <<turns, waiting, area, turnsOk, output, bytes>>
  <2>1. /\ Next1(s, "tell") /\ Done1(s) /\ UNCHANGED <<turns, waiting, area, turnsOk, output, bytes>>
    BY DEF TellSignal, TellByte
  <2>2. steps[s] \in Seq(TellCalls)
    BY DEF TellInv, TellTypes
  <2> QED
    BY <2>1, <2>2, AfterACall DEF Next1, Done1
<1>2. \/ sig' = [sig EXCEPT ![o].pending = TRUE] /\ pipes' = pipes
      \/ pipes' = [pipes EXCEPT ![o] = @ + 1] /\ sig' = sig
    BY DEF TellSignal, TellByte
<1>3. o \in Sides /\ o # s /\ \A x \in Sides : x \in {s, o}
    BY DEF Sides, Other
<1>4. /\ sig \in [Sides -> [pending : BOOLEAN, masked : BOOLEAN, sigflag : BOOLEAN]] /\ pipes \in [Sides -> Nat]
      /\ sig' \in [Sides -> [pending : BOOLEAN, masked : BOOLEAN, sigflag : BOOLEAN]] /\ pipes' \in [Sides -> Nat]
  <2>1. sig \in [Sides -> [pending : BOOLEAN, masked : BOOLEAN, sigflag : BOOLEAN]] /\ pipes \in [Sides -> Nat]
    BY DEF TellInv, TellTypes
  <2>2. [sig[o] EXCEPT !.pending = TRUE] \in [pending : BOOLEAN, masked : BOOLEAN, sigflag : BOOLEAN]
    BY <2>1, <1>3
  <2>3. sig' \in [Sides -> [pending : BOOLEAN, masked : BOOLEAN, sigflag : BOOLEAN]]
    BY <2>1, <2>2, <1>2
  <2>4. pipes' \in [Sides -> Nat]
    BY <2>1, <1>2, <1>3
  <2> QED
    BY <2>1, <2>3, <2>4
<1>5. TellTypes'
    BY <1>1, <1>4, AfterACall DEF TellInv, TellTypes
<1>6. sig'[s] = sig[s] /\ pipes'[s] = pipes[s] /\ sig'[o].sigflag = sig[o].sigflag
    BY <1>2, <1>3, <1>4
<1>7. Told(s)' = Told(s)
    BY <1>1, <1>6 DEF Told
<1>8. CASE turns.name \in InTurns
  <2>1. Told(o) = 0
    BY <1>1, <1>8, WhoseTurnItIs
  <2>2. pipes[o] = 0 /\ ~sig[o].pending
    <3>1. TellTypes
      BY DEF TellInv
    <3> QED
      BY <1>3, <1>5, <2>1, <3>1, ToldChanges
  <2>3. Told(o)' = 1
    <3>1. \/ pipes'[o] = 0 /\ sig'[o].pending
          \/ pipes'[o] = 1 /\ ~sig'[o].pending
      BY <1>2, <1>3, <1>4, <2>2
    <3>2. ~sig'[o].sigflag /\ waiting'[o] # "reset"
      <4>1. /\ Told(o) = pipes[o] + One(sig[o].pending) + One(sig[o].sigflag) + One(waiting[o] = "reset")
            /\ pipes[o] \in Nat /\ One(sig[o].pending) \in Nat
            /\ One(sig[o].sigflag) \in {0, 1} /\ One(waiting[o] = "reset") \in {0, 1}
        BY <1>3, <1>4 DEF Told, One
      <4>2. One(sig[o].sigflag) = 0 /\ One(waiting[o] = "reset") = 0
        BY <4>1, <2>1
      <4>3. ~sig[o].sigflag /\ waiting[o] # "reset"
        BY <4>2 DEF One
      <4> QED
        BY <4>3, <1>1, <1>6
    <3> QED
      BY <3>1, <3>2 DEF Told, One
  <2>4. Told(s) \in Nat
    BY <1>8, WhereASideIs
  <2>5. Makes(s)
    BY <1>1, <1>3, <1>7, <2>1, <2>3, <2>4 DEF Makes, One, TellInv, TellTypes
  <2>6. (\A x \in Sides : Follows(x)') /\ InOrder' /\ CallsDone(s)' = CallsDone(s) + 1
    BY <2>5, <1>5, <1>8, CallKeeps
  <2>7. CallsDone("child")' = CallsDone("child") \/ CallsDone("child")' = CallsDone("child") + 1
    BY <1>1, <2>6 DEF CallsDone, TellInv, TellTypes, Sides
  <2>8. CallsDone("child") \in Nat
    BY <1>8, WhereASideIs DEF Sides
  <2>9. ParentFirst'
    BY <1>1, <2>7, <2>8 DEF TellInv, ParentFirst
  <2> QED
    BY <1>1, <1>5, <2>6, <2>9 DEF TellInv
<1>9. CASE turns.name \notin InTurns
  <2>1. turns.name = "deadlock"
    BY <1>1, <1>9 DEF TellInv, TellTypes, Follows, InTurns
  <2> QED
    BY <1>1, <1>5, <2>1, DeadlockKeeps
<1> QED
    BY <1>8, <1>9

\* No side is told twice before it has waited.
LEMMA AtMostOneTold == ASSUME TellInv, turns.name # "deadlock", NEW s \in Sides PROVE Told(s) <= 1
<1> DEFINE name == turns.name
           p == CallsDone("parent")
           c == CallsDone("child")
<1>1. CASE name \in InTurns
  <2>1. "parent" \in Sides /\ "child" \in Sides /\ Other("parent") = "child" /\ Other("child") = "parent"
    BY DEF Sides, Other
  <2>2. p \in Nat /\ c \in Nat /\ (name = "tellwait2" => p <= 3 /\ c <= 3)
    BY <1>1, <2>1, WhereASideIs
  <2>3. /\ Told("parent") \in Nat /\ Waits(name, "parent", p) + Told("parent") = Tells(name, "child", c)
        /\ Told("child") \in Nat /\ Waits(name, "child", c) + Told("child") = Tells(name, "parent", p)
    BY <1>1, <2>1, WhereASideIs
  <2>4. /\ Waits(name, "parent", p) \in Int /\ Waits(name, "child", c) \in Int
        /\ Tells(name, "parent", p) \in Int /\ Tells(name, "child", c) \in Int
    BY <2>2 DEF Waits, Tells
  <2>5. Waits(name, "child", c) <= Tells(name, "parent", p) /\ Waits(name, "parent", p) <= Tells(name, "child", c)
    BY <2>3, <2>4
  <2>6. /\ Tells(name, "parent", p) <= Waits(name, "child", c) + 1
        /\ Tells(name, "child", c) <= Waits(name, "parent", p) + 1
    <3> HIDE DEF name, p, c
    <3> QED
      BY <1>1, <2>2, <2>5, TurnsAlternate
  <2> QED
    BY <2>3, <2>4, <2>6 DEF Sides
<1>2. CASE name \notin InTurns
    BY <1>2 DEF TellInv, Follows
<1> QED
    BY <1>1, <1>2

\* A wait that ends keeps it: it takes the byte or the signal.
LEMMA WaitKeeps == ASSUME TellInv, NEW s \in Sides, WaitByte(s) \/ WaitResets(s) PROVE TellInv'
<1>1. /\ steps[s] # <<>> /\ steps[s] \in Seq(TellCalls) /\ steps[s][1] = "wait"
      /\ steps' = [steps EXCEPT ![s] = Tail(@)]
      /\ UNCHANGED <<turns, area, turnsOk, output, bytes>>
  <2>1. steps[s] \in Seq(TellCalls)
    BY DEF TellInv, TellTypes
  <2>2. CASE WaitByte(s)
    BY <2>1, <2>2, AfterACall DEF WaitByte, Next1, Done1
  <2>3. CASE WaitResets(s)
    BY <2>1, <2>3 DEF WaitResets, Done1, TellInv, Follows
  <2> QED
    BY <2>2, <2>3
<1>2. TellTypes /\ TellTypes'
  <2>1. CASE WaitByte(s)
    BY <2>1, <1>1, AfterACall DEF WaitByte, TellInv, TellTypes
  <2>2. CASE WaitResets(s)
    <3>1. sig' = [sig EXCEPT ![s].masked = FALSE] /\ waiting' = [waiting EXCEPT ![s] = "no"] /\ pipes' = pipes
      BY <2>2 DEF WaitResets
    <3>2. sig \in [Sides -> [pending : BOOLEAN, masked : BOOLEAN, sigflag : BOOLEAN]]
      BY DEF TellInv, TellTypes
    <3>3. [sig[s] EXCEPT !.masked = FALSE] \in [pending : BOOLEAN, masked : BOOLEAN, sigflag : BOOLEAN]
      BY <3>2
    <3>4. sig' \in [Sides -> [pending : BOOLEAN, masked : BOOLEAN, sigflag : BOOLEAN]]
      BY <3>1, <3>2, <3>3
    <3> QED
      BY <3>1, <3>4, <1>1, AfterACall DEF TellInv, TellTypes
  <2> QED
    BY <2>1, <2>2
<1>3. \A x \in Sides : waiting'[x] = IF x = s THEN "no" ELSE waiting[x]
  <2>1. CASE WaitByte(s)
    BY <2>1 DEF WaitByte, Next1
  <2>2. CASE WaitResets(s)
    BY <2>2 DEF WaitResets, TellInv, TellTypes
  <2> QED
    BY <2>1, <2>2
<1>4. Told(s)' + 1 = Told(s)
  <2>1. CASE WaitByte(s)
    <3>1. pipes'[s] = pipes[s] - 1 /\ sig' = sig /\ waiting' = waiting
      BY <2>1 DEF WaitByte, TellInv, TellTypes
    <3>2. \A b : One(b) \in Nat
      BY DEF One
    <3>3. pipes[s] \in Nat
      BY <1>2 DEF TellTypes
    <3> QED
      BY <3>1, <3>2, <3>3 DEF Told
  <2>2. CASE WaitResets(s)
    <3>1. /\ pipes' = pipes /\ waiting[s] = "reset" /\ waiting'[s] = "no"
          /\ sig'[s].pending = sig[s].pending /\ sig'[s].sigflag = sig[s].sigflag
      BY <2>2 DEF WaitResets, TellInv, TellTypes
    <3>2. One(waiting[s] = "reset") = 1 /\ One(waiting'[s] = "reset") = 0 /\ \A b : One(b) \in Nat
      BY <3>1 DEF One
    <3>3. pipes[s] \in Nat
      BY <1>2 DEF TellTypes
    <3> QED
      BY <3>1, <3>2, <3>3 DEF Told
  <2> QED
    BY <2>1, <2>2
<1>5. \A x \in Sides : x # s => Told(x)' = Told(x)
  <2>1. CASE WaitByte(s)
    BY <2>1 DEF WaitByte, Told, TellInv, TellTypes
  <2>2. CASE WaitResets(s)
    BY <2>2 DEF WaitResets, Told, TellInv, TellTypes
  <2> QED
    BY <2>1, <2>2
<1>6. Makes(s)
  <2>1. ASSUME NEW x \in Sides
        PROVE  Told(x)' + One(steps[s][1] = "wait" /\ x = s) = Told(x) + One(steps[s][1] = "tell" /\ x # s)
    <3>1. /\ One(steps[s][1] = "wait" /\ x = s) = IF x = s THEN 1 ELSE 0
          /\ One(steps[s][1] = "tell" /\ x # s) = 0
      BY <1>1 DEF One
    <3>2. Told(x) \in Nat /\ Told(x)' \in Nat
      BY <1>2, ToldChanges
    <3> QED
      BY <3>1, <3>2, <1>4, <1>5
  <2>2. area' = area + One(steps[s][1] = "update")
    BY <1>1 DEF One, TellInv, TellTypes
  <2> QED
    BY <2>1, <2>2, <1>1, <1>3 DEF Makes
<1>7. (\A x \in Sides : Follows(x)') /\ InOrder' /\ (turns.name \in InTurns => CallsDone(s)' = CallsDone(s) + 1)
  <2>1. TellTypes'
    BY <1>2
  <2> QED
    BY <1>6, <2>1, CallKeeps
<1>8. ParentFirst'
  <2>1. turns.name \in InTurns => CallsDone("child") \in Nat /\ CallsDone(s) \in Nat
    BY WhereASideIs DEF Sides
  <2>2. s # "child" => CallsDone("child")' = CallsDone("child")
    BY <1>1 DEF CallsDone, TellInv, TellTypes, Sides
  <2>3. turns.name = "tellwait2" => CallsDone("child")' >= CallsDone("child") /\ CallsDone("child")' \in Nat
    BY <2>1, <2>2, <1>7 DEF InTurns
  <2> QED
    BY <1>1, <2>1, <2>3 DEF TellInv, ParentFirst, InTurns
<1> QED
    BY <1>1, <1>2, <1>7, <1>8 DEF TellInv

\* Between two calls the signal is on its way from pending to sigflag, and from
\* there to the end of the wait.
LEMMA SignalKeeps ==
    ASSUME TellInv, NEW s \in Sides, WaitTests(s) \/ Suspends(s) \/ sig_usr(s)
    PROVE  TellInv'
<1>1. UNCHANGED <<turns, steps, pipes, area, turnsOk, output, bytes>>
    BY DEF WaitTests, Suspends, sig_usr
<1>2. /\ sig \in [Sides -> [pending : BOOLEAN, masked : BOOLEAN, sigflag : BOOLEAN]]
      /\ waiting \in [Sides -> {"no", "reset", "suspend", "asleep"}]
      /\ pipes[s] \in Nat /\ steps[s] \in Seq(TellCalls)
    BY DEF TellInv, TellTypes
<1>3. /\ sig' \in [Sides -> [pending : BOOLEAN, masked : BOOLEAN, sigflag : BOOLEAN]]
      /\ waiting' \in [Sides -> {"no", "reset", "suspend", "asleep"}]
      /\ \A x \in Sides : x # s => sig'[x] = sig[x] /\ waiting'[x] = waiting[x]
      /\ waiting'[s] # "no" => steps[s] # <<>> /\ steps[s][1] = "wait"
      /\ turns.name # "deadlock" => Told(s)' = Told(s)
  <2>1. CASE WaitTests(s)
    <3>1. steps[s] # <<>> /\ steps[s][1] = "wait" /\ waiting[s] = "no"
      BY <2>1, <1>2, AfterACall DEF WaitTests, Next1
    <3>2. CASE sig[s].sigflag
      <4>1. /\ sig' = [sig EXCEPT ![s].sigflag = FALSE] /\ waiting' = [waiting EXCEPT ![s] = "reset"]
        BY <2>1, <3>2 DEF WaitTests
      <4>2. [sig[s] EXCEPT !.sigflag = FALSE] \in [pending : BOOLEAN, masked : BOOLEAN, sigflag : BOOLEAN]
        BY <1>2
      <4>3. /\ ~sig'[s].sigflag /\ sig'[s].pending = sig[s].pending /\ waiting'[s] = "reset"
        BY <4>1, <1>2
      <4>4. Told(s)' = Told(s)
        BY <4>3, <3>1, <3>2, <1>1, <1>2 DEF Told, One
      <4> QED
        BY <4>1, <4>2, <4>4, <3>1, <1>2
    <3>3. CASE ~sig[s].sigflag
      <4>1. sig' = sig /\ waiting' = [waiting EXCEPT ![s] = "suspend"]
        BY <2>1, <3>3 DEF WaitTests
      <4>2. Told(s)' = Told(s)
        BY <4>1, <3>1, <1>1, <1>2 DEF Told, One
      <4> QED
        BY <4>1, <4>2, <3>1, <1>2
    <3> QED
      BY <3>2, <3>3
  <2>2. CASE Suspends(s)
    <3>1. sig' = sig /\ waiting' = [waiting EXCEPT ![s] = "asleep"] /\ waiting[s] = "suspend"
      BY <2>2 DEF Suspends
    <3>2. Told(s)' = Told(s)
      BY <3>1, <1>1, <1>2 DEF Told, One
    <3> QED
      BY <3>1, <3>2, <1>2 DEF TellInv, Follows
  <2>3. CASE sig_usr(s)
    <3>1. /\ sig[s].pending /\ sig' = [sig EXCEPT ![s].pending = FALSE, ![s].sigflag = TRUE]
          /\ waiting' = [waiting EXCEPT ![s] = IF @ = "asleep" THEN "no" ELSE @]
      BY <2>3 DEF sig_usr
    <3>2. [pending |-> FALSE, masked |-> sig[s].masked, sigflag |-> TRUE] \in [pending : BOOLEAN, masked : BOOLEAN, sigflag : BOOLEAN]
      BY <1>2
    <3>3. sig'[s] = [pending |-> FALSE, masked |-> sig[s].masked, sigflag |-> TRUE] /\ \A x \in Sides : x # s => sig'[x] = sig[x]
      BY <3>1, <1>2
    <3>4. sig' \in [Sides -> [pending : BOOLEAN, masked : BOOLEAN, sigflag : BOOLEAN]]
      BY <3>1, <3>2, <3>3, <1>2
    <3>5. turns.name # "deadlock" => ~sig[s].sigflag
      <4>1. Told(s) = pipes[s] + One(sig[s].pending) + One(sig[s].sigflag) + One(waiting[s] = "reset")
        BY DEF Told
      <4>2. One(sig[s].pending) = 1 /\ One(sig[s].sigflag) \in {0, 1} /\ One(waiting[s] = "reset") \in {0, 1}
        BY <3>1 DEF One
      <4>3. turns.name # "deadlock" => Told(s) <= 1
        BY AtMostOneTold
      <4>4. turns.name # "deadlock" => One(sig[s].sigflag) = 0
        BY <4>1, <4>2, <4>3, <1>2
      <4> QED
        BY <4>4 DEF One
    <3>6. waiting'[s] = "reset" <=> waiting[s] = "reset"
      BY <3>1, <1>2
    <3>7. turns.name # "deadlock" => Told(s)' = Told(s)
      BY <3>1, <3>3, <3>5, <3>6, <1>1, <1>2 DEF Told, One
    <3>8. waiting'[s] # "no" => steps[s] # <<>> /\ steps[s][1] = "wait"
      BY <3>1, <1>2 DEF TellInv, Follows
    <3>9. /\ waiting' \in [Sides -> {"no", "reset", "suspend", "asleep"}]
          /\ \A x \in Sides : x # s => waiting'[x] = waiting[x]
      BY <3>1, <1>2
    <3> QED
      BY <3>3, <3>4, <3>7, <3>8, <3>9
  <2> QED
    BY <2>1, <2>2, <2>3
<1>4. TellTypes'
    BY <1>1, <1>3 DEF TellInv, TellTypes
<1>5. turns.name # "deadlock" => \A x \in Sides : Told(x)' = Told(x)
    BY <1>1, <1>3 DEF Told
<1>6. \A x \in Sides : waiting'[x] # "no" => steps[x] # <<>> /\ steps[x][1] = "wait"
    BY <1>3 DEF TellInv, Follows
<1>7. (\A x \in Sides : Follows(x)') /\ InOrder' /\ \A x \in Sides : CallsDone(x)' = CallsDone(x)
    BY <1>1, <1>4, <1>5, <1>6, BetweenCalls
<1>8. ParentFirst'
    BY <1>1, <1>7 DEF TellInv, ParentFirst, Sides
<1> QED
    BY <1>1, <1>4, <1>7, <1>8 DEF TellInv

\* lockabyte belongs to deadlock.c, and locks that a process leaves are not its.
LEMMA LocksKeep ==
    ASSUME TellInv, NEW s \in Sides, lockabyte(s, "lock0") \/ lockabyte(s, "lock1") \/ Unlock(s)
    PROVE  TellInv'
<1>1. CASE Unlock(s)
  <2>1. UNCHANGED <<turns, steps, waiting, sig, pipes, area, turnsOk, output>>
    BY <1>1 DEF Unlock
  <2>2. \A x \in Sides : Told(x)' = Told(x)
    BY <2>1 DEF Told
  <2>3. TellTypes'
    BY <2>1 DEF TellInv, TellTypes
  <2>4. \A x \in Sides : waiting'[x] # "no" => steps[x] # <<>> /\ steps[x][1] = "wait"
    BY <2>1 DEF TellInv, Follows
  <2>5. (\A x \in Sides : Follows(x)') /\ InOrder' /\ \A x \in Sides : CallsDone(x)' = CallsDone(x)
    BY <2>1, <2>2, <2>3, <2>4, BetweenCalls
  <2>6. ParentFirst'
    BY <2>1, <2>5 DEF TellInv, ParentFirst, Sides
  <2> QED
    BY <2>1, <2>3, <2>5, <2>6 DEF TellInv
<1>2. ASSUME NEW b \in {"lock0", "lock1"}, lockabyte(s, b) PROVE TellInv'
  <2>1. /\ Next1(s, b) /\ UNCHANGED <<turns, waiting, sig, pipes, area, turnsOk, output>>
        /\ steps' = [steps EXCEPT ![s] = Tail(@)] \/ steps' = [steps EXCEPT ![s] = <<>>]
    BY <1>2 DEF lockabyte, Done1
  <2>2. steps[s] \in Seq(TellCalls)
    BY DEF TellInv, TellTypes
  <2>3. /\ steps[s] # <<>> /\ steps[s][1] = b /\ waiting[s] = "no"
        /\ Tail(steps[s]) \in Seq(TellCalls) /\ <<>> \in Seq(TellCalls)
    BY <2>1, <2>2, AfterACall DEF Next1
  <2>4. turns.name = "deadlock"
    <3>1. turns.name \notin InTurns
      BY <2>3, OwnCalls
    <3> QED
      BY <3>1, <2>3 DEF TellInv, TellTypes, Follows, InTurns
  <2>5. TellTypes'
    <3>1. steps \in [Sides -> Seq(TellCalls)]
      BY DEF TellInv, TellTypes
    <3>2. steps' \in [Sides -> Seq(TellCalls)]
      BY <2>1, <2>3, <3>1
    <3> QED
      BY <2>1, <3>2 DEF TellInv, TellTypes
  <2>6. /\ steps'[s] \in {<<>>, Tail(steps[s])} /\ waiting'[s] = "no"
        /\ \A x \in Sides : x # s => steps'[x] = steps[x] /\ waiting'[x] = waiting[x]
    BY <2>1, <2>3 DEF TellInv, TellTypes
  <2> QED
    BY <2>1, <2>3, <2>4, <2>5, <2>6, DeadlockKeeps
<1> QED
    BY <1>1, <1>2

\* What Repeat gives: the calls of a round, over and over.
LEMMA RepeatedCalls ==
    ASSUME NEW n \in Nat, NEW a \in TellCalls, NEW b \in TellCalls, NEW c \in TellCalls
    PROVE  /\ Repeat(<<a, b, c>>, n) \in Seq(TellCalls) /\ Len(Repeat(<<a, b, c>>, n)) = 3 * n
           /\ \A i \in 1..(3 * n) : Repeat(<<a, b, c>>, n)[i] =
                 IF (i - 1) % 3 = 0 THEN a ELSE IF (i - 1) % 3 = 1 THEN b ELSE c
<1> DEFINE round == <<a, b, c>>
           seq == [i \in 1..(3 * n) |-> round[((i - 1) % 3) + 1]]
<1>1. Len(round) = 3 /\ round[1] = a /\ round[2] = b /\ round[3] = c
    OBVIOUS
<1>2. Repeat(round, n) = seq
    BY <1>1 DEF Repeat
<1>3. ASSUME NEW i \in 1..(3 * n)
      PROVE  /\ seq[i] = IF (i - 1) % 3 = 0 THEN a ELSE IF (i - 1) % 3 = 1 THEN b ELSE c
             /\ seq[i] \in TellCalls
  <2>1. (i - 1) % 3 \in 0..2
    BY <1>3
  <2>2. seq[i] = round[((i - 1) % 3) + 1]
    BY <1>3
  <2> QED
    BY <2>1, <2>2, <1>1
<1>4. 3 * n \in Nat
    OBVIOUS
<1>5. DOMAIN seq = 1..(3 * n)
    OBVIOUS
<1> HIDE DEF seq, round
<1>6. seq \in [1..(3 * n) -> TellCalls]
  <2>1. seq = [i \in 1..(3 * n) |-> seq[i]]
    BY <1>5 DEF seq
  <2> QED
    BY <2>1, <1>3
<1>7. seq \in Seq(TellCalls) /\ Len(seq) = 3 * n
    BY <1>4, <1>5, <1>6
<1> QED
    BY <1>2, <1>3, <1>7 DEF round

\* TELL_WAIT and fork: nobody has done or told anything.
LEMMA TELL_WAIT_Keeps == ASSUME TellInv, TELL_WAIT PROVE TellInv'
<1>1. PICK name \in {"devzero", "tellwait2", "deadlock"}, by \in {"signals", "pipes"}, rounds \in 1..MaxRounds :
         /\ turns' = [name |-> name, by |-> by, rounds |-> rounds]
         /\ steps' = Body(name, rounds)
         /\ sig' = [s \in Sides |-> [sig[s] EXCEPT !.masked = (by = "signals")]]
    BY DEF TELL_WAIT
<1>2. turns.name = "none" /\ UNCHANGED <<waiting, pipes, area, turnsOk, output, bytes>>
    BY DEF TELL_WAIT
<1>3. rounds \in Nat
    BY <1>1, TellWaitAssumption
<1>4. \A s \in Sides : steps[s] = <<>> /\ waiting[s] = "no" /\ Told(s) = 0
    BY <1>2 DEF TellInv, Follows, InTurns
<1>5. output = <<>> /\ area = 0
    BY <1>2 DEF TellInv, ParentFirst
<1>6. \A s \in Sides : sig'[s].pending = sig[s].pending /\ sig'[s].sigflag = sig[s].sigflag
    BY <1>1 DEF TellInv, TellTypes
<1>7. sig' \in [Sides -> [pending : BOOLEAN, masked : BOOLEAN, sigflag : BOOLEAN]]
  <2>1. ASSUME NEW s \in Sides PROVE [sig[s] EXCEPT !.masked = (by = "signals")] \in [pending : BOOLEAN, masked : BOOLEAN, sigflag : BOOLEAN]
    BY DEF TellInv, TellTypes
  <2> QED
    BY <2>1, <1>1
<1>8. \A s \in Sides : Told(s)' = 0
    BY <1>2, <1>4, <1>6 DEF Told
<1>9. /\ steps' \in [Sides -> Seq(TellCalls)]
      /\ name \in InTurns => \A s \in Sides : /\ Len(steps'[s]) = Size(name, rounds)
                                              /\ \A i \in 1..Len(steps'[s]) : steps'[s][i] = CallAfter(name, s, i - 1)
      /\ name = "deadlock" => \A s \in Sides : \A i \in 1..Len(steps'[s]) : steps'[s][i] \notin {"update", "putc"}
  <2>1. CASE name = "devzero"
    <3>1. /\ "parent" \in Sides /\ "child" \in Sides /\ \A s \in Sides : s \in {"parent", "child"}
          /\ "update" \in TellCalls /\ "tell" \in TellCalls /\ "wait" \in TellCalls
      BY DEF Sides, TellCalls
    <3>2. steps' = DevzeroBody(rounds)
      BY <1>1, <2>1 DEF Body
    <3>3. /\ steps' = [parent |-> steps'["parent"], child |-> steps'["child"]]
          /\ steps'["parent"] = Repeat(<<"update", "tell", "wait">>, rounds)
          /\ steps'["child"] = Repeat(<<"wait", "update", "tell">>, rounds)
      BY <3>2 DEF DevzeroBody
    <3>4. /\ steps'["parent"] \in Seq(TellCalls) /\ Len(steps'["parent"]) = 3 * rounds
          /\ \A i \in 1..(3 * rounds) : steps'["parent"][i] =
                IF (i - 1) % 3 = 0 THEN "update" ELSE IF (i - 1) % 3 = 1 THEN "tell" ELSE "wait"
      BY <1>3, <3>1, <3>3, RepeatedCalls
    <3>5. /\ steps'["child"] \in Seq(TellCalls) /\ Len(steps'["child"]) = 3 * rounds
          /\ \A i \in 1..(3 * rounds) : steps'["child"][i] =
                IF (i - 1) % 3 = 0 THEN "wait" ELSE IF (i - 1) % 3 = 1 THEN "update" ELSE "tell"
      BY <1>3, <3>1, <3>3, RepeatedCalls
    <3>6. steps' \in [Sides -> Seq(TellCalls)]
      BY <3>3, <3>4, <3>5 DEF Sides
    <3>7. ASSUME NEW s \in Sides
          PROVE  Len(steps'[s]) = Size(name, rounds) /\ \A i \in 1..Len(steps'[s]) : steps'[s][i] = CallAfter(name, s, i - 1)
      <4>1. CASE s = "parent"
        BY <4>1, <3>4, <2>1 DEF Size, CallAfter
      <4>2. CASE s = "child"
        BY <4>2, <3>5, <2>1 DEF Size, CallAfter
      <4> QED
        BY <4>1, <4>2 DEF Sides
    <3> QED
      BY <3>6, <3>7, <2>1
  <2>2. CASE name = "tellwait2"
    <3>1. steps' = [parent |-> <<"putc", "putc", "tell">>, child |-> <<"wait", "putc", "putc">>]
      BY <1>1, <2>2 DEF Body, Tellwait2Body
    <3>2. /\ steps'["parent"] = <<"putc", "putc", "tell">> /\ steps'["child"] = <<"wait", "putc", "putc">>
          /\ <<"putc", "putc", "tell">> \in Seq(TellCalls) /\ <<"wait", "putc", "putc">> \in Seq(TellCalls)
      BY <3>1 DEF TellCalls
    <3>3. steps' \in [Sides -> Seq(TellCalls)]
      BY <3>1, <3>2 DEF Sides
    <3>4. ASSUME NEW s \in Sides
          PROVE  Len(steps'[s]) = Size(name, rounds) /\ \A i \in 1..Len(steps'[s]) : steps'[s][i] = CallAfter(name, s, i - 1)
      <4>1. Len(steps'[s]) = 3 /\ 0 % 3 = 0 /\ 1 % 3 = 1 /\ 2 % 3 = 2
        BY <3>2 DEF Sides
      <4>2. ASSUME NEW i \in 1..3 PROVE steps'[s][i] = CallAfter(name, s, i - 1)
        <5>1. CASE i = 1
          BY <5>1, <3>2, <4>1, <2>2 DEF Sides, CallAfter
        <5>2. CASE i = 2
          BY <5>2, <3>2, <4>1, <2>2 DEF Sides, CallAfter
        <5>3. CASE i = 3
          BY <5>3, <3>2, <4>1, <2>2 DEF Sides, CallAfter
        <5> QED
          BY <5>1, <5>2, <5>3
      <4> QED
        BY <4>1, <4>2, <2>2 DEF Size
    <3> QED
      BY <3>3, <3>4, <2>2
  <2>3. CASE name = "deadlock"
    <3>1. steps' = [parent |-> <<"lock1", "tell", "wait", "lock0">>, child |-> <<"lock0", "tell", "wait", "lock1">>]
      BY <1>1, <2>3 DEF Body, DeadlockBody
    <3>2. /\ <<"lock1", "tell", "wait", "lock0">> \in Seq(TellCalls \ {"update", "putc"})
          /\ <<"lock0", "tell", "wait", "lock1">> \in Seq(TellCalls \ {"update", "putc"})
      BY DEF TellCalls
    <3>3. \A t \in Seq(TellCalls \ {"update", "putc"}) : t \in Seq(TellCalls) /\ \A i \in 1..Len(t) : t[i] \notin {"update", "putc"}
      OBVIOUS
    <3>4. \A s \in Sides : /\ steps'[s] \in Seq(TellCalls)
                           /\ \A i \in 1..Len(steps'[s]) : steps'[s][i] \notin {"update", "putc"}
      <4> SUFFICES ASSUME NEW s \in Sides
                   PROVE  steps'[s] \in Seq(TellCalls) /\ \A i \in 1..Len(steps'[s]) : steps'[s][i] \notin {"update", "putc"}
        OBVIOUS
      <4>1. steps'[s] \in Seq(TellCalls \ {"update", "putc"})
        <5>1. CASE s = "parent"
          <6>1. steps'[s] = <<"lock1", "tell", "wait", "lock0">>
            BY <5>1, <3>1
          <6> QED
            BY <6>1, <3>2
        <5>2. CASE s = "child"
          <6>1. steps'[s] = <<"lock0", "tell", "wait", "lock1">>
            BY <5>2, <3>1
          <6> QED
            BY <6>1, <3>2
        <5> QED
          BY <5>1, <5>2 DEF Sides
      <4> QED
        BY <4>1, <3>3
    <3>5. steps' \in [Sides -> Seq(TellCalls)]
      BY <3>1, <3>4 DEF Sides
    <3> QED
      BY <3>4, <3>5, <2>3 DEF InTurns
  <2> QED
    BY <2>1, <2>2, <2>3
<1>10. TellTypes'
    BY <1>1, <1>2, <1>3, <1>7, <1>9 DEF TellInv, TellTypes
<1>11. turns'.name = name /\ turns'.rounds = rounds
    BY <1>1
<1>12. name \in InTurns => \A s \in Sides : CallsDone(s)' = 0
  <2>1. name \in InTurns => Size(name, rounds) \in Nat
    BY <1>3 DEF Size
  <2> QED
    BY <2>1, <1>9, <1>11 DEF CallsDone
<1>13. \A s \in Sides : Follows(s)'
  <2> SUFFICES ASSUME NEW s \in Sides PROVE Follows(s)'
    OBVIOUS
  <2>1. ASSUME name \in InTurns PROVE \A i \in 1..Len(steps'[s]) : steps'[s][i] = CallAfter(name, s, CallsDone(s)' + i - 1)
    <3>1. \A i \in 1..Len(steps'[s]) : CallsDone(s)' + i - 1 = i - 1
      BY <2>1, <1>12
    <3> QED
      BY <2>1, <3>1, <1>9
  <2> QED
    BY <2>1, <1>2, <1>4, <1>8, <1>9, <1>11, <1>12 DEF Follows
<1>14. InOrder'
  <2>1. /\ \A s \in Sides : Other(s) \in Sides
        /\ \A s \in Sides : Tells(name, s, 0) = 0 /\ Waits(name, s, 0) = 0 /\ Updates(name, s, 0) = 0
    BY DEF Other, Sides, Tells, Waits, Updates
  <2>2. "parent" \in Sides /\ "child" \in Sides
    BY DEF Sides
  <2> QED
    BY <2>1, <2>2, <1>2, <1>5, <1>8, <1>11, <1>12 DEF InOrder, Balance, InTurns
<1>15. ParentFirst'
    BY <1>2, <1>5, <1>11 DEF ParentFirst
<1> QED
    BY <1>2, <1>10, <1>13, <1>14, <1>15 DEF TellInv

\* Every step of the two sides keeps the invariant.
LEMMA TellInvStep == TellInv /\ [TellNext]_tellVars => TellInv'
<1> SUFFICES ASSUME TellInv, [TellNext]_tellVars PROVE TellInv'
    OBVIOUS
<1>1. CASE TELL_WAIT
    BY <1>1, TELL_WAIT_Keeps
<1>2. ASSUME NEW s \in Sides, TellStep(s) \/ sig_usr(s) PROVE TellInv'
    BY <1>2, update_Keeps, charatatime_Keeps, LocksKeep, TellKeeps, WaitKeeps, SignalKeeps DEF TellStep
<1>3. CASE UNCHANGED tellVars
    BY <1>3 DEF tellVars, TellInv, TellTypes, Follows, InOrder, Balance, Told, CallsDone, ParentFirst
<1> QED
    BY <1>1, <1>2, <1>3 DEF TellNext

\* Parent and child take turns: the checks of devzero.c hold in every round, and
\* the parent's line of tellwait2.c comes first and whole.
THEOREM TurnsAreTaken == TellSpec => []TheyTakeTurns
<1>1. TellInit => TellInv
  <2> SUFFICES ASSUME TellInit PROVE TellInv
    OBVIOUS
  <2>1. TellTypes
    BY DEF TellInit, TellTypes
  <2>2. \A s \in Sides : Told(s) = 0
    BY DEF TellInit, Told, One
  <2> QED
    BY <2>1, <2>2 DEF TellInit, TellInv, Follows, InTurns, InOrder, ParentFirst
<1>2. TellInv => TheyTakeTurns
  <2>1. TellInv => DOMAIN output = 1..Len(output)
    BY DEF TellInv, TellTypes
  <2> QED
    BY <2>1 DEF TellInv, ParentFirst, TheyTakeTurns
<1> QED
    BY <1>1, <1>2, TellInvStep, PTL DEF TellSpec

-----------------------------------------------------------------------------
(* MemStream: fmemopen.c. *)

Opened(fl) == "READ" \in fl /\ fl \cap {"APPEND", "WRITE"} # {} => Update(fl)

\* What is so of a stream that is open: the buffer has its bytes and one more,
\* and the positions are those of the file.
StreamShape ==
    /\ ms.rsize \in Nat \ {0} /\ ms.vsize \in Nat /\ ms.curpos \in Nat
    /\ ms.curpos <= ms.vsize /\ ms.vsize <= ms.rsize
    /\ ms = [rsize |-> ms.rsize, vsize |-> ms.vsize, curpos |-> ms.curpos, flags |-> ms.flags]
    /\ file = [data |-> file.data, pos |-> file.pos]
    /\ memory \in Seq(Nat) /\ Len(memory) = ms.rsize + 1
    /\ file.data \in Seq(Nat) /\ file.pos \in Nat
    /\ Opened(ms.flags)

MemInv ==
    /\ streamCalls \in Nat /\ (streamCalls = 0 => ~grown) /\ grown \in BOOLEAN
    /\ got.bytes = got.want
    /\ Open => StreamShape /\ StreamIsSound

\* The flags after each character of a mode string.
FlagsOf(type, n, w) == w = [i \in 0..n |-> IF i = 0 THEN {} ELSE Flag(w[i - 1], type[i])]

\* The loop of type_to_flags reaches every character.
LEMMA FlagsAreThere == ASSUME NEW type, NEW n \in Nat PROVE \E w : FlagsOf(type, n, w)
<1> DEFINE T == {k \in Nat : ~\E w : FlagsOf(type, k, w)}
<1>1. SUFFICES ASSUME T # {} PROVE FALSE
  OBVIOUS
<1>2. T \in SUBSET Nat
  OBVIOUS
<1>3. PICK k \in T : \A m \in T : k <= m
  BY <1>1, <1>2, LeastNumber
<1>4. k \in Nat /\ ~\E w : FlagsOf(type, k, w)
  BY <1>3
<1>5. CASE k = 0
  <2>1. FlagsOf(type, k, [i \in 0..0 |-> {}])
    BY <1>5 DEF FlagsOf
  <2> QED
    BY <1>4, <2>1
<1>6. CASE k # 0
  <2>1. k - 1 \in Nat /\ k - 1 \notin T
    BY <1>3, <1>4, <1>6
  <2>2. PICK w : FlagsOf(type, k - 1, w)
    BY <2>1
  <2> DEFINE v == [i \in 0..k |-> IF i = k THEN Flag(w[k - 1], type[k]) ELSE w[i]]
  <2>3. \A i \in 0..(k - 1) : w[i] = IF i = 0 THEN {} ELSE Flag(w[i - 1], type[i])
    BY <2>2 DEF FlagsOf
  <2>4. ASSUME NEW i \in 0..k PROVE v[i] = IF i = 0 THEN {} ELSE Flag(v[i - 1], type[i])
    <3>1. CASE i = k
      <4>1. v[i] = Flag(w[k - 1], type[k]) /\ v[k - 1] = w[k - 1]
        BY <3>1, <1>4, <1>6
      <4> QED
        BY <3>1, <4>1, <1>6
    <3>2. CASE i # k
      <4>1. i \in 0..(k - 1) /\ v[i] = w[i] /\ (i # 0 => v[i - 1] = w[i - 1])
        BY <3>2, <1>4, <1>6
      <4> QED
        BY <4>1, <2>3
    <3> QED
      BY <3>1, <3>2
  <2>5. v = [i \in 0..k |-> IF i = 0 THEN {} ELSE Flag(v[i - 1], type[i])]
    <3> DEFINE u == [i \in 0..k |-> IF i = 0 THEN {} ELSE Flag(v[i - 1], type[i])]
    <3>1. \A i \in 0..k : v[i] = u[i]
      BY <2>4
    <3> QED
      BY <3>1
  <2>6. FlagsOf(type, k, v)
    BY <2>5 DEF FlagsOf
  <2> QED
    BY <1>4, <2>6
<1> QED
  BY <1>5, <1>6

\* A stream for reading that can be written is one for update (type_to_flags).
LEMMA ModesAreSound == ASSUME NEW type, Len(type) \in Nat PROVE Opened(type_to_flags(type))
<1> DEFINE N == Len(type)
           F == CHOOSE w : FlagsOf(type, N, w)
           T == {k \in 0..N : ~("bad" \in F[k] \/ Opened(F[k]))}
<1>1. FlagsOf(type, N, F)
  BY FlagsAreThere
<1>2. type_to_flags(type) = IF "bad" \in F[N] THEN {} ELSE F[N]
  BY DEF type_to_flags, FlagsOf
<1> HIDE DEF F
<1>3. \A k \in 0..N : F[k] = IF k = 0 THEN {} ELSE Flag(F[k - 1], type[k])
  BY <1>1 DEF FlagsOf
<1>4. T = {}
  <2> SUFFICES ASSUME T # {} PROVE FALSE
    OBVIOUS
  <2>1. T \in SUBSET Nat
    OBVIOUS
  <2>2. PICK k \in T : \A m \in T : k <= m
    BY <2>1, LeastNumber
  <2>3. k \in 0..N /\ ~("bad" \in F[k] \/ Opened(F[k]))
    BY <2>2
  <2>4. CASE k = 0
    BY <2>3, <2>4, <1>3 DEF Opened
  <2>5. CASE k # 0
    <3>1. k - 1 \in 0..N /\ ~(k <= k - 1)
      BY <2>3, <2>5
    <3>2. "bad" \in F[k - 1] \/ Opened(F[k - 1])
      BY <2>2, <3>1
    <3>3. F[k] = Flag(F[k - 1], type[k])
      BY <2>3, <2>5, <1>3
    <3> QED
      BY <2>3, <3>2, <3>3 DEF Flag, Opened, Update
  <2> QED
    BY <2>4, <2>5
<1>5. "bad" \in F[N] \/ Opened(F[N])
  <2>1. N \in 0..N
    OBVIOUS
  <2> QED
    BY <2>1, <1>4
<1> QED
  BY <1>2, <1>5 DEF Opened

\* find_end stops within the buffer.
LEMMA EndIsFound ==
    ASSUME NEW buf, NEW len \in Nat
    PROVE  find_end(buf, len) \in 0..len
<1> DEFINE T == {n \in 0..len : n = len \/ buf[n + 1] = 0}
<1>1. len \in T /\ T \in SUBSET Nat
  OBVIOUS
<1>2. PICK n \in T : \A m \in T : n <= m
  BY <1>1, LeastNumber
<1>3. ASSUME NEW m \in 1..n PROVE buf[m] # 0
  <2>1. m - 1 \notin T /\ m - 1 \in 0..len
    BY <1>2, <1>3
  <2> QED
    BY <2>1
<1> QED
  BY <1>2, <1>3 DEF find_end

\* What SubSeq gives, counted from the offset before it.
LEMMA Slice ==
    ASSUME NEW s, NEW c \in Nat, NEW n \in Nat, \A k \in (c + 1)..(c + n) : s[k] \in Nat
    PROVE  /\ SubSeq(s, c + 1, c + n) \in Seq(Nat) /\ Len(SubSeq(s, c + 1, c + n)) = n
           /\ \A k \in 1..n : SubSeq(s, c + 1, c + n)[k] = s[c + k]
<1> DEFINE r == SubSeq(s, c + 1, c + n)
<1>1. c + 1 \in Int /\ c + n \in Int
  OBVIOUS
<1>2. /\ r \in Seq(Nat) /\ Len(r) = IF c + 1 <= c + n THEN c + n - (c + 1) + 1 ELSE 0
      /\ \A k \in 1..(c + n - (c + 1) + 1) : r[k] = s[c + 1 + k - 1]
  BY <1>1, SubSeqProperties
<1> HIDE DEF r
<1>3. c + n - (c + 1) + 1 = n /\ \A k \in 1..n : c + 1 + k - 1 = c + k
  OBVIOUS
<1>4. r \in Seq(Nat) /\ Len(r) = n /\ \A k \in 1..n : r[k] = s[c + k]
  BY <1>2, <1>3
<1> QED
  BY <1>4 DEF r

\* fmemopen: the stream has the bytes of its buffer, up to the end that its mode
\* gives it.
LEMMA FmemopenKeeps ==
    ASSUME MemInv, NEW size \in BufSizes, NEW type \in Types, NEW own \in BOOLEAN, Fmemopen(size, type, own)
    PROVE  MemInv'
<1> DEFINE flags == type_to_flags(type)
           Pos(m) == IF "APPEND" \in flags /\ ~own THEN find_end(m, size) ELSE 0
           Vsize(m) == IF "APPEND" \in flags THEN Pos(m) ELSE IF "TRUNCATE" \in flags THEN 0 ELSE size
           fl == flags \cup (IF own THEN {"MYBUF"} ELSE {})
<1>1. PICK m \in [1..size -> Bytes] :
            /\ memory' = Append(m, 99)
            /\ ms' = [rsize |-> size, vsize |-> Vsize(m), curpos |-> Pos(m), flags |-> fl]
            /\ file' = [data |-> SubSeq(m, 1, Vsize(m)), pos |-> Pos(m)]
  BY DEF Fmemopen
<1>2. /\ streamCalls = 0 /\ size # 0 /\ streamCalls' = 1 /\ got' = got /\ grown' = grown
  BY DEF Fmemopen
<1>3. size \in Nat \ {0} /\ Bytes \subseteq Nat /\ type \in Seq(STRING)
  BY <1>2, StreamAssumption
<1>4. find_end(m, size) \in 0..size
  BY <1>3, EndIsFound
<1>5. Opened(flags)
  BY <1>3, ModesAreSound
<1> HIDE DEF flags
<1>6. Opened(fl)
  BY <1>5 DEF Opened, Update
<1> DEFINE p == Pos(m)
           v == Vsize(m)
<1>7. p \in Nat /\ v \in Nat /\ p <= v /\ v <= size
  <2>1. CASE "APPEND" \in flags /\ ~own
    <3>0. p = find_end(m, size)
      BY <2>1
    <3>1. v = p
      BY <2>1
    <3> HIDE DEF p, v
    <3> QED
      BY <3>0, <3>1, <1>3, <1>4
  <2>2. CASE ~("APPEND" \in flags /\ ~own)
    <3>1. p = 0 /\ v \in {0, size}
      BY <2>2
    <3> HIDE DEF p, v
    <3> QED
      BY <3>1, <1>3
  <2> QED
    BY <2>1, <2>2
<1> HIDE DEF p, v, fl
<1>8. m \in Seq(Nat) /\ Len(m) = size /\ 99 \in Nat
  <2>1. m \in [1..size -> Nat]
    BY <1>3
  <2> QED
    BY <2>1, <1>3, SeqDef
<1>9. /\ memory' \in Seq(Nat) /\ Len(memory') = size + 1 /\ memory'[size + 1] = 99
      /\ \A k \in 1..size : memory'[k] = m[k]
  BY <1>1, <1>8, AppendProperties
<1>10. /\ SubSeq(m, 1, v) \in Seq(Nat) /\ Len(SubSeq(m, 1, v)) = v
       /\ \A k \in 1..v : SubSeq(m, 1, v)[k] = m[k]
  <2>1. \A k \in 1..v : m[k] \in Nat
    BY <1>3, <1>7, <1>8
  <2>2. /\ SubSeq(m, 1, v) \in Seq(Nat) /\ Len(SubSeq(m, 1, v)) = IF 1 <= v THEN v - 1 + 1 ELSE 0
        /\ \A k \in 1..(v - 1 + 1) : SubSeq(m, 1, v)[k] = m[1 + k - 1]
    BY <2>1, <1>7, SubSeqProperties
  <2> QED
    BY <2>2, <1>7
<1>11. /\ ms'.rsize = size /\ ms'.vsize = v /\ ms'.curpos = p /\ ms'.flags = fl
       /\ file'.data = SubSeq(m, 1, v) /\ file'.pos = p
       /\ ms' = [rsize |-> size, vsize |-> v, curpos |-> p, flags |-> fl]
       /\ file' = [data |-> SubSeq(m, 1, v), pos |-> p]
  BY <1>1 DEF p, v, fl
<1>12. StreamShape'
  BY <1>3, <1>6, <1>7, <1>9, <1>10, <1>11 DEF StreamShape
<1>13. StreamIsSound'
  <2>1. StaysInTheBuffer'
    BY <1>7, <1>9, <1>11 DEF StaysInTheBuffer
  <2>2. got'.bytes = got'.want
    BY <1>2 DEF MemInv
  <2>3. \A k \in 1..v : memory'[k] = file'.data[k]
    BY <1>7, <1>3, <1>9, <1>10, <1>11
  <2>4. StreamIsAFile'
    BY <1>10, <1>11, <2>2, <2>3 DEF StreamIsAFile
  <2>5. BufferIsAString'
    BY <1>2 DEF BufferIsAString, MemInv
  <2> QED
    BY <2>1, <2>4, <2>5 DEF StreamIsSound
<1> QED
  BY <1>2, <1>12, <1>13 DEF MemInv

\* mstream_read gives the bytes of the file.
LEMMA ReadKeeps ==
    ASSUME MemInv, NEW len \in Nat, mstream_read(len)
    PROVE  MemInv'
<1> DEFINE c == ms.curpos
           nr == IF c >= ms.vsize THEN 0 ELSE MIN(len, ms.vsize - c)
           e == MIN(file.pos + len, Len(file.data))
           want == SubSeq(file.data, file.pos + 1, e)
           ret == SubSeq(memory, c + 1, c + nr)
<1>1. /\ Open /\ "READ" \in ms.flags /\ streamCalls' = streamCalls + 1
      /\ got' = [bytes |-> ret, want |-> want]
      /\ ms' = [ms EXCEPT !.curpos = @ + nr]
      /\ file' = [file EXCEPT !.pos = @ + Len(want)]
      /\ memory' = memory /\ grown' = grown
  BY DEF mstream_read, CallOn
<1>2. StreamShape /\ StreamIsSound
  BY <1>1 DEF MemInv
<1>3. /\ ms.rsize \in Nat /\ ms.vsize \in Nat /\ c \in Nat /\ c <= ms.vsize /\ ms.vsize <= ms.rsize
      /\ memory \in Seq(Nat) /\ Len(memory) = ms.rsize + 1 /\ file.data \in Seq(Nat)
  BY <1>2 DEF StreamShape
<1>31. /\ ms = [rsize |-> ms.rsize, vsize |-> ms.vsize, curpos |-> ms.curpos, flags |-> ms.flags]
       /\ file = [data |-> file.data, pos |-> file.pos]
  BY <1>2 DEF StreamShape
<1>4. /\ ms.vsize = Len(file.data) /\ c = file.pos
      /\ \A k \in 1..ms.vsize : memory[k] = file.data[k]
  BY <1>1, <1>2 DEF StreamIsSound, StreamIsAFile
<1>5. nr \in Nat /\ c + nr <= ms.vsize /\ e = c + nr
  <2>1. e = MIN(c + len, ms.vsize)
    BY <1>4
  <2>2. CASE c >= ms.vsize
    <3>1. nr = 0
      BY <2>2
    <3> HIDE DEF nr, e, c
    <3> QED
      BY <2>1, <2>2, <3>1, <1>3 DEF MIN
  <2>3. CASE ~(c >= ms.vsize)
    <3>1. nr = MIN(len, ms.vsize - c)
      BY <2>3
    <3> HIDE DEF nr, e, c
    <3> QED
      <4>1. c \in Nat /\ ms.vsize \in Nat /\ c < ms.vsize
        BY <1>3, <2>3
      <4>2. nr = IF len < ms.vsize - c THEN len ELSE ms.vsize - c
        BY <3>1 DEF MIN
      <4>3. e = IF c + len < ms.vsize THEN c + len ELSE ms.vsize
        BY <2>1 DEF MIN
      <4> QED
        BY <4>1, <4>2, <4>3
  <2> QED
    BY <2>2, <2>3
<1> HIDE DEF nr, e, c
<1>6. \A k \in (c + 1)..(c + nr) : memory[k] = file.data[k] /\ memory[k] \in Nat
  <2> SUFFICES ASSUME NEW k \in (c + 1)..(c + nr) PROVE memory[k] = file.data[k] /\ memory[k] \in Nat
    OBVIOUS
  <2>1. k \in 1..ms.vsize /\ k \in 1..Len(memory)
    BY <1>3, <1>5
  <2>2. memory[k] = file.data[k]
    BY <2>1, <1>4
  <2>3. memory[k] \in Nat
    BY <2>1, <1>3
  <2> QED
    BY <2>2, <2>3
<1>7. /\ ret \in Seq(Nat) /\ Len(ret) = nr /\ \A k \in 1..nr : ret[k] = memory[c + k]
  BY <1>3, <1>5, <1>6, Slice
<1>8. /\ want \in Seq(Nat) /\ Len(want) = nr /\ \A k \in 1..nr : want[k] = file.data[c + k]
  <2>1. want = SubSeq(file.data, c + 1, c + nr)
    BY <1>4, <1>5
  <2>2. \A k \in (c + 1)..(c + nr) : file.data[k] \in Nat
    BY <1>6
  <2>3. /\ SubSeq(file.data, c + 1, c + nr) \in Seq(Nat) /\ Len(SubSeq(file.data, c + 1, c + nr)) = nr
        /\ \A k \in 1..nr : SubSeq(file.data, c + 1, c + nr)[k] = file.data[c + k]
    BY <2>2, <1>3, <1>5, Slice
  <2> HIDE DEF want
  <2> QED
    BY <2>1, <2>3
<1>9. ret = want
  <2> HIDE DEF ret, want
  <2>1. ASSUME NEW k \in 1..nr PROVE ret[k] = want[k]
    <3>1. c + k \in (c + 1)..(c + nr)
      BY <1>3, <1>5
    <3> QED
      BY <3>1, <1>6, <1>7, <1>8
  <2> QED
    BY <2>1, <1>7, <1>8, SeqEqual
<1> HIDE DEF ret, want
<1>10. /\ ms'.rsize = ms.rsize /\ ms'.vsize = ms.vsize /\ ms'.flags = ms.flags /\ ms'.curpos = c + nr
       /\ file'.data = file.data /\ file'.pos = c + nr
       /\ ms' = [rsize |-> ms.rsize, vsize |-> ms.vsize, curpos |-> c + nr, flags |-> ms.flags]
       /\ file' = [data |-> file.data, pos |-> c + nr]
  <2>1. ms' = [rsize |-> ms.rsize, vsize |-> ms.vsize, curpos |-> c + nr, flags |-> ms.flags]
    BY <1>1, <1>31 DEF c
  <2>2. file' = [data |-> file.data, pos |-> c + nr]
    BY <1>1, <1>31, <1>4, <1>8
  <2> QED
    BY <2>1, <2>2
<1>11. StreamShape'
  <2>1. ms.rsize # 0 /\ Opened(ms.flags)
    BY <1>2 DEF StreamShape
  <2>2. c + nr \in Nat
    BY <1>3, <1>5
  <2> HIDE DEF Opened
  <2> QED
    BY <1>1, <1>3, <1>5, <1>10, <2>1, <2>2 DEF StreamShape
<1>12. StreamIsSound'
  <2>1. StaysInTheBuffer'
    BY <1>1, <1>2, <1>3, <1>5, <1>10 DEF StaysInTheBuffer, StreamIsSound
  <2>2. StreamIsAFile'
    BY <1>1, <1>4, <1>9, <1>10 DEF StreamIsAFile
  <2>3. BufferIsAString'
    BY <1>1, <1>2, <1>10 DEF BufferIsAString, StreamIsSound
  <2> QED
    BY <2>1, <2>2, <2>3 DEF StreamIsSound
<1> QED
  BY <1>1, <1>9, <1>11, <1>12 DEF MemInv

\* What Terminate makes of the buffer.
Terminated(m, c, v, r) ==
    /\ r \in Seq(Nat) /\ Len(r) = Len(m) /\ r[ms.rsize + 1] = m[ms.rsize + 1]
    /\ "READ" \in ms.flags =>
          /\ \A k \in 1..v : r[k] = m[k]
          /\ c > ms.vsize /\ Update(ms.flags) /\ v < ms.rsize => r[v + 1] = 0
          /\ c <= ms.vsize => r = m
    /\ "READ" \notin ms.flags =>
          /\ \A k \in 1..v : r[k] \in {m[k], 0}
          /\ \E k \in 1..ms.rsize : r[k] = 0

\* The null byte goes behind the data, or into the last byte of a stream that is
\* only written (mstream_write).
LEMMA NullByte ==
    ASSUME NEW m \in Seq(Nat), Len(m) = ms.rsize + 1, ms.rsize \in Nat \ {0}, ms.vsize \in Nat,
           NEW c \in Nat, NEW v \in Nat, c <= v, v <= ms.rsize
    PROVE  Terminated(m, c, v, Terminate(m, c, v))
<1> DEFINE ended == IF c > ms.vsize /\ Update(ms.flags) /\ v < ms.rsize THEN [m EXCEPT ![v + 1] = 0] ELSE m
           i == IF c < ms.rsize THEN c + 1 ELSE ms.rsize
           r == Terminate(m, c, v)
<1>1. r = IF "READ" \in ms.flags THEN ended ELSE [ended EXCEPT ![i] = 0]
  BY DEF Terminate
<1>2. /\ ended \in Seq(Nat) /\ Len(ended) = Len(m) /\ ended[ms.rsize + 1] = m[ms.rsize + 1]
      /\ \A k \in 1..v : ended[k] = m[k]
      /\ c > ms.vsize /\ Update(ms.flags) /\ v < ms.rsize => ended[v + 1] = 0
      /\ c <= ms.vsize => ended = m
  <2>1. CASE c > ms.vsize /\ Update(ms.flags) /\ v < ms.rsize
    <3>1. ended = [m EXCEPT ![v + 1] = 0] /\ v + 1 \in 1..Len(m) /\ v + 1 # ms.rsize + 1 /\ \A k \in 1..v : k # v + 1
      BY <2>1
    <3>2. ~(c <= ms.vsize)
      BY <2>1
    <3> HIDE DEF ended
    <3> QED
      BY <3>1, <3>2
  <2>2. CASE ~(c > ms.vsize /\ Update(ms.flags) /\ v < ms.rsize)
    <3>1. ended = m
      BY <2>2
    <3> HIDE DEF ended
    <3> QED
      BY <3>1, <2>2
  <2> QED
    BY <2>1, <2>2
<1>3. i \in 1..ms.rsize
  OBVIOUS
<1> HIDE DEF ended, i, r
<1>4. CASE "READ" \in ms.flags
  <2>1. r = ended
    BY <1>1, <1>4
  <2> QED
    BY <1>2, <1>4, <2>1 DEF r, Terminated
<1>5. CASE "READ" \notin ms.flags
  <2>1. r = [ended EXCEPT ![i] = 0]
    BY <1>1, <1>5
  <2>2. i \in 1..Len(ended) /\ i # ms.rsize + 1 /\ ms.rsize + 1 \in 1..Len(ended) /\ \A k \in 1..v : k \in 1..Len(ended)
    <3>1. Len(ended) = ms.rsize + 1
      BY <1>2
    <3> QED
      BY <3>1, <1>3
  <2>3. r \in Seq(Nat) /\ Len(r) = Len(ended) /\ r[i] = 0 /\ \A k \in 1..Len(ended) : k # i => r[k] = ended[k]
    BY <1>2, <2>1, <2>2
  <2>4. \A k \in 1..v : r[k] \in {m[k], 0}
    BY <1>2, <2>2, <2>3
  <2>5. r[ms.rsize + 1] = m[ms.rsize + 1]
    BY <1>2, <2>2, <2>3
  <2>6. \E k \in 1..ms.rsize : r[k] = 0
    BY <1>3, <2>3
  <2> QED
    BY <1>2, <1>5, <2>3, <2>4, <2>5, <2>6 DEF r, Terminated
<1> QED
  BY <1>4, <1>5

\* A write into a file: before, in and behind the bytes that fit.
Splice(d, text, a, n) == SubSeq(d, 1, a) \o SubSeq(text, 1, n) \o SubSeq(d, a + n + 1, Len(d))

\* What a write makes of the file: the bytes of the text where it was put, the old
\* ones around it, and longer only if it went over the end (FileWrite).
LEMMA SpliceFacts ==
    ASSUME NEW d \in Seq(Nat), NEW text \in Seq(Nat), NEW a \in Nat, a <= Len(d), NEW n \in Nat, n <= Len(text)
    PROVE  /\ Splice(d, text, a, n) \in Seq(Nat) /\ Len(SubSeq(text, 1, n)) = n
           /\ Len(Splice(d, text, a, n)) = IF a + n > Len(d) THEN a + n ELSE Len(d)
           /\ \A k \in 1..(IF a + n > Len(d) THEN a + n ELSE Len(d)) :
                 Splice(d, text, a, n)[k] = IF k > a /\ k <= a + n THEN text[k - a] ELSE d[k]
<1> DEFINE l == Len(d)
           e == Splice(d, text, a, n)
           r == IF a + n > l THEN 0 ELSE l - (a + n)
           x == SubSeq(d, 1, a)
           y == SubSeq(text, 1, n)
           z == SubSeq(d, a + n + 1, l)
<1>0. l \in Nat /\ a <= l
  OBVIOUS
<1> HIDE DEF l
<1>2. l \in Nat /\ r \in Nat /\ a + n + r = IF a + n > l THEN a + n ELSE l
  <2>1. CASE a + n > l
    <3>1. r = 0
      BY <2>1
    <3> HIDE DEF r
    <3> QED
      BY <1>0, <2>1, <3>1
  <2>2. CASE ~(a + n > l)
    <3>1. r = l - (a + n)
      BY <2>2
    <3> HIDE DEF r
    <3> QED
      BY <1>0, <2>2, <3>1
  <2> QED
    BY <2>1, <2>2
<1> HIDE DEF r
<1>3. x \in Seq(Nat) /\ Len(x) = a /\ \A k \in 1..a : x[k] = d[k]
  <2>1. \A k \in (0 + 1)..(0 + a) : d[k] \in Nat
    BY <1>2
  <2>2. /\ SubSeq(d, 0 + 1, 0 + a) \in Seq(Nat) /\ Len(SubSeq(d, 0 + 1, 0 + a)) = a
        /\ \A k \in 1..a : SubSeq(d, 0 + 1, 0 + a)[k] = d[0 + k]
    BY <2>1, Slice
  <2> QED
    BY <2>2
<1>4. y \in Seq(Nat) /\ Len(y) = n /\ \A k \in 1..n : y[k] = text[k]
  <2>1. \A k \in (0 + 1)..(0 + n) : text[k] \in Nat
    OBVIOUS
  <2>2. /\ SubSeq(text, 0 + 1, 0 + n) \in Seq(Nat) /\ Len(SubSeq(text, 0 + 1, 0 + n)) = n
        /\ \A k \in 1..n : SubSeq(text, 0 + 1, 0 + n)[k] = text[0 + k]
    BY <2>1, Slice
  <2> QED
    BY <2>2
<1>5. z \in Seq(Nat) /\ Len(z) = r /\ \A k \in 1..r : z[k] = d[a + n + k]
  <2>1. CASE a + n > l
    <3>1. r = 0 /\ z = <<>>
      <4>1. a + n + 1 \in Int /\ l \in Int /\ l < a + n + 1
        BY <1>2, <2>1
      <4> QED
        BY <4>1, <2>1, SubSeqEmpty DEF r
    <3> HIDE DEF z
    <3> QED
      BY <3>1
  <2>2. CASE a + n <= l
    <3>1. a + n \in Nat /\ l = a + n + r
      BY <1>2, <2>2
    <3>2. \A k \in (a + n + 1)..(a + n + r) : d[k] \in Nat
      BY <1>2, <3>1 DEF l
    <3>3. /\ SubSeq(d, a + n + 1, a + n + r) \in Seq(Nat) /\ Len(SubSeq(d, a + n + 1, a + n + r)) = r
          /\ \A k \in 1..r : SubSeq(d, a + n + 1, a + n + r)[k] = d[a + n + k]
      BY <1>2, <3>1, <3>2, Slice
    <3> QED
      BY <3>1, <3>3
  <2> QED
    BY <2>1, <2>2, <1>2
<1>6. e = (x \o y) \o z
  BY DEF Splice, l
<1> HIDE DEF e, x, y, z
<1>7. /\ x \o y \in Seq(Nat) /\ Len(x \o y) = a + n
      /\ \A k \in 1..(a + n) : (x \o y)[k] = IF k <= a THEN x[k] ELSE y[k - a]
  BY <1>3, <1>4, ConcatProperties, ZenonT(30)
<1>8. /\ e \in Seq(Nat) /\ Len(e) = a + n + r
      /\ \A k \in 1..(a + n + r) : e[k] = IF k <= a + n THEN (x \o y)[k] ELSE z[k - (a + n)]
  <2>0. PICK w : w = x \o y
    OBVIOUS
  <2>1. w \in Seq(Nat) /\ z \in Seq(Nat)
    BY <1>5, <1>7, <2>0
  <2>2. /\ w \o z \in Seq(Nat) /\ Len(w \o z) = Len(w) + Len(z)
        /\ \A k \in 1..(Len(w) + Len(z)) : (w \o z)[k] = IF k <= Len(w) THEN w[k] ELSE z[k - Len(w)]
    BY <2>1, ConcatProperties
  <2>3. Len(w) = a + n /\ Len(z) = r /\ e = w \o z
    BY <1>5, <1>6, <1>7, <2>0
  <2> QED
    BY <2>0, <2>2, <2>3
<1>10. ASSUME NEW k \in 1..(a + n + r) PROVE e[k] = IF k > a /\ k <= a + n THEN text[k - a] ELSE d[k]
  <2>1. k \in Nat /\ a \in Nat /\ n \in Nat /\ r \in Nat /\ k >= 1
    BY <1>2
  <2>2. CASE k <= a
    <3>1. k \in 1..a /\ k \in 1..(a + n) /\ k <= a + n
      BY <2>1, <2>2
    <3> QED
      BY <2>1, <2>2, <3>1, <1>3, <1>7, <1>8, SMTT(30)
  <2>3. CASE k > a /\ k <= a + n
    <3>1. k - a \in 1..n /\ k \in 1..(a + n) /\ ~(k <= a)
      BY <2>1, <2>3
    <3>2. e[k] = (x \o y)[k]
      BY <2>3, <1>8
    <3>3. (x \o y)[k] = y[k - a]
      BY <3>1, <1>7
    <3> QED
      BY <2>3, <3>1, <3>2, <3>3, <1>4
  <2>4. CASE k > a + n
    <3>1. k - (a + n) \in 1..r /\ a + n + (k - (a + n)) = k /\ ~(k <= a + n)
      BY <2>1, <2>4
    <3>2. e[k] = z[k - (a + n)]
      BY <3>1, <1>8
    <3>3. z[k - (a + n)] = d[a + n + (k - (a + n))]
      BY <3>1, <1>5
    <3> QED
      BY <3>1, <3>2, <3>3
  <2> QED
    BY <2>1, <2>2, <2>3, <2>4
<1>11. Len(y) = n /\ y = SubSeq(text, 1, n)
  BY <1>4 DEF y
<1> QED
  BY <1>2, <1>8, <1>10, <1>11 DEF e, l

\* mstream_write: the bytes that fit go where the file has them, and the null byte
\* overwrites none.
LEMMA WriteKeeps ==
    ASSUME MemInv, NEW text \in Seq(Nat), mstream_write(text)
    PROVE  MemInv'
<1> DEFINE off == WriteAt
           nw == MIN(Len(text), ms.rsize - off)
           copied == [k \in DOMAIN memory |-> IF k > off /\ k <= off + nw THEN text[k - off] ELSE memory[k]]
           v == IF off + nw > ms.vsize THEN off + nw ELSE ms.vsize
           d == file.data
           w == off + nw
<1>1. /\ Open /\ streamCalls' = streamCalls + 1
      /\ ms.flags \cap {"APPEND", "WRITE"} # {}
      /\ memory' = Terminate(copied, w, v)
      /\ ms' = [ms EXCEPT !.curpos = w, !.vsize = v]
      /\ grown' = (grown \/ "READ" \notin ms.flags \/ v > ms.vsize)
      /\ file' = FileWrite(file, text, "APPEND" \in ms.flags, ms.rsize)
      /\ got' = got
  BY DEF mstream_write, CallOn
<1>2. StreamShape /\ StreamIsSound
  BY <1>1 DEF MemInv
<1>3. /\ ms.rsize \in Nat \ {0} /\ ms.vsize \in Nat /\ ms.curpos \in Nat /\ ms.curpos <= ms.vsize /\ ms.vsize <= ms.rsize
      /\ memory \in Seq(Nat) /\ Len(memory) = ms.rsize + 1 /\ d \in Seq(Nat)
      /\ ms = [rsize |-> ms.rsize, vsize |-> ms.vsize, curpos |-> ms.curpos, flags |-> ms.flags]
      /\ Opened(ms.flags)
  BY <1>2 DEF StreamShape
<1>4. /\ ms.vsize = Len(d) /\ ms.curpos = file.pos
      /\ \A k \in 1..ms.vsize : memory[k] = d[k] \/ (memory[k] = 0 /\ "READ" \notin ms.flags)
      /\ memory[ms.rsize + 1] = 99
  BY <1>1, <1>2 DEF StreamIsSound, StreamIsAFile, StaysInTheBuffer
<1>5. off \in Nat /\ off <= ms.vsize
  BY <1>3 DEF WriteAt
<1>6. off = IF "APPEND" \in ms.flags THEN Len(d) ELSE file.pos
  BY <1>4 DEF WriteAt
<1>7. nw \in Nat /\ nw <= Len(text) /\ off + nw <= ms.rsize
  <2> HIDE DEF off
  <2> QED
    BY <1>3, <1>5, SMTT(30) DEF MIN
<1> HIDE DEF off
<1>71. d \in Seq(Nat) /\ off \in Nat /\ off <= Len(d) /\ nw \in Nat /\ nw <= Len(text)
  BY <1>3, <1>4, <1>5, <1>7
<1>72. /\ Splice(d, text, off, nw) \in Seq(Nat) /\ Len(SubSeq(text, 1, nw)) = nw
       /\ Len(Splice(d, text, off, nw)) = IF off + nw > Len(d) THEN off + nw ELSE Len(d)
       /\ \A k \in 1..(IF off + nw > Len(d) THEN off + nw ELSE Len(d)) :
             Splice(d, text, off, nw)[k] = IF k > off /\ k <= off + nw THEN text[k - off] ELSE d[k]
  <2> HIDE DEF d, nw
  <2> QED
    BY <1>71, SpliceFacts
<1>8. /\ file'.data = Splice(d, text, off, nw) /\ file' = [data |-> Splice(d, text, off, nw), pos |-> w]
  <2> DEFINE fit == SubSeq(text, 1, nw)
  <2>1. Len(fit) = nw
    BY <1>72
  <2>2. file' = [data |-> SubSeq(d, 1, off) \o fit \o SubSeq(d, off + Len(fit) + 1, Len(d)), pos |-> off + Len(fit)]
    BY <1>1, <1>6 DEF FileWrite
  <2> HIDE DEF fit
  <2>3. file' = [data |-> SubSeq(d, 1, off) \o fit \o SubSeq(d, off + nw + 1, Len(d)), pos |-> w]
    BY <2>1, <2>2
  <2> QED
    BY <2>3 DEF Splice, fit
<1> DEFINE e == Splice(d, text, off, nw)
<1> HIDE DEF nw
<1>9. /\ e \in Seq(Nat) /\ Len(e) = v
      /\ \A k \in 1..v : e[k] = IF k > off /\ k <= w THEN text[k - off] ELSE d[k]
  <2>1. /\ e \in Seq(Nat) /\ Len(e) = IF w > Len(d) THEN w ELSE Len(d)
        /\ \A k \in 1..(IF w > Len(d) THEN w ELSE Len(d)) : e[k] = IF k > off /\ k <= w THEN text[k - off] ELSE d[k]
    BY <1>72
  <2>2. v = IF w > Len(d) THEN w ELSE Len(d)
    BY <1>4
  <2> HIDE DEF v, e, w
  <2> QED
    BY <2>1, <2>2
<1>10. v \in Nat /\ w \in Nat /\ w <= v /\ v <= ms.rsize /\ ms.vsize <= v
  BY <1>3, <1>5, <1>7
<1> HIDE DEF e, v, w
<1>11. /\ copied \in Seq(Nat) /\ Len(copied) = ms.rsize + 1 /\ copied[ms.rsize + 1] = 99
       /\ \A k \in 1..v : copied[k] = e[k] \/ (copied[k] = 0 /\ "READ" \notin ms.flags)
       /\ \A k \in 1..(ms.rsize + 1) : k > w => copied[k] = memory[k]
  <2>1. DOMAIN memory = 1..(ms.rsize + 1)
    BY <1>3
  <2>2. \A k \in 1..(ms.rsize + 1) : copied[k] = IF k > off /\ k <= w THEN text[k - off] ELSE memory[k]
    BY <2>1 DEF w
  <2>3. ASSUME NEW k \in 1..(ms.rsize + 1) PROVE copied[k] \in Nat
    <3>1. CASE k > off /\ k <= w
      <4>1. k - off \in 1..Len(text)
        BY <1>5, <1>7, <3>1 DEF w
      <4>2. text[k - off] \in Nat
        BY <4>1
      <4> QED
        BY <4>2, <3>1, <2>2
    <3>2. CASE ~(k > off /\ k <= w)
      BY <3>2, <2>2, <1>3
    <3> QED
      BY <3>1, <3>2
  <2>4. copied \in [1..(ms.rsize + 1) -> Nat]
    BY <2>1, <2>3
  <2>5. ms.rsize + 1 \in Nat
    BY <1>3
  <2> HIDE DEF copied
  <2>6. copied \in Seq(Nat) /\ Len(copied) = ms.rsize + 1
    BY <2>4, <2>5, SeqDef
  <2>7. copied[ms.rsize + 1] = 99
    <3>1. ms.rsize + 1 \in 1..(ms.rsize + 1) /\ ~(ms.rsize + 1 <= w)
      BY <1>3, <1>10
    <3> QED
      BY <3>1, <2>2, <1>4
  <2>8. ASSUME NEW k \in 1..v PROVE copied[k] = e[k] \/ (copied[k] = 0 /\ "READ" \notin ms.flags)
    <3>1. k \in 1..(ms.rsize + 1)
      BY <1>3, <1>10
    <3>2. CASE k > off /\ k <= w
      BY <3>1, <3>2, <2>2, <1>9
    <3>3. CASE ~(k > off /\ k <= w)
      <4>1. k \in 1..ms.vsize
        BY <3>3, <1>3, <1>5, <1>7, <1>10 DEF v, w
      <4>2. copied[k] = memory[k] /\ e[k] = d[k]
        BY <3>1, <3>3, <2>2, <1>9
      <4> QED
        BY <4>1, <4>2, <1>4
    <3> QED
      BY <3>2, <3>3
  <2>9. ASSUME NEW k \in 1..(ms.rsize + 1), k > w PROVE copied[k] = memory[k]
    <3>1. ~(k <= w)
      BY <2>9, <1>10
    <3> QED
      BY <3>1, <2>2
  <2> QED
    BY <2>6, <2>7, <2>8, <2>9
<1> HIDE DEF copied
<1> DEFINE r == Terminate(copied, w, v)
<1>12. /\ r \in Seq(Nat) /\ Len(r) = ms.rsize + 1 /\ r[ms.rsize + 1] = 99
       /\ "READ" \in ms.flags =>
             /\ \A k \in 1..v : r[k] = copied[k]
             /\ w > ms.vsize /\ Update(ms.flags) /\ v < ms.rsize => r[v + 1] = 0
             /\ w <= ms.vsize => r = copied
       /\ "READ" \notin ms.flags =>
             /\ \A k \in 1..v : r[k] \in {copied[k], 0}
             /\ \E k \in 1..ms.rsize : r[k] = 0
  <2>1. Terminated(copied, w, v, r)
    <3>1. copied \in Seq(Nat) /\ Len(copied) = ms.rsize + 1
      BY <1>11
    <3>2. ms.rsize \in Nat \ {0} /\ ms.vsize \in Nat /\ w \in Nat /\ v \in Nat /\ w <= v /\ v <= ms.rsize
      BY <1>3, <1>10
    <3> QED
      BY <3>1, <3>2, NullByte
  <2> HIDE DEF r
  <2> QED
    BY <2>1, <1>11 DEF Terminated
<1> HIDE DEF r
<1>13. /\ memory' = r /\ ms' = [rsize |-> ms.rsize, vsize |-> v, curpos |-> w, flags |-> ms.flags]
       /\ file' = [data |-> e, pos |-> w]
  BY <1>1, <1>3, <1>8 DEF r, e
<1>14. /\ ms'.rsize = ms.rsize /\ ms'.vsize = v /\ ms'.curpos = w /\ ms'.flags = ms.flags
       /\ file'.data = e /\ file'.pos = w
  BY <1>13
<1>15. StreamShape'
  <2> HIDE DEF Opened
  <2> QED
    BY <1>3, <1>9, <1>10, <1>12, <1>13, <1>14 DEF StreamShape
<1>16. StaysInTheBuffer'
  BY <1>10, <1>12, <1>13, <1>14 DEF StaysInTheBuffer
<1>17. StreamIsAFile'
  <2>1. ASSUME NEW k \in 1..v PROVE r[k] = e[k] \/ (r[k] = 0 /\ "READ" \notin ms.flags)
    BY <1>11, <1>12
  <2>2. got'.bytes = got'.want
    BY <1>1 DEF MemInv
  <2> QED
    BY <2>1, <2>2, <1>9, <1>13, <1>14 DEF StreamIsAFile
<1>18. BufferIsAString'
  <2> SUFFICES ASSUME grown'
               PROVE  IF "READ" \in ms.flags THEN v < ms.rsize => r[v + 1] = 0 ELSE \E k \in 1..ms.rsize : r[k] = 0
    BY <1>13, <1>14 DEF BufferIsAString
  <2>1. CASE "READ" \notin ms.flags
    BY <2>1, <1>12
  <2>2. CASE "READ" \in ms.flags /\ w > ms.vsize
    <3>1. Update(ms.flags)
      BY <1>1, <1>3, <2>2 DEF Opened
    <3> QED
      BY <2>2, <3>1, <1>12
  <2>3. CASE "READ" \in ms.flags /\ w <= ms.vsize
    <3>1. v = ms.vsize
      BY <2>3, <1>3, <1>10 DEF v, w
    <3>2. grown
      <4>1. ~(v > ms.vsize) /\ ~("READ" \notin ms.flags)
        BY <2>3, <3>1, <1>3
      <4>2. grown \/ "READ" \notin ms.flags \/ v > ms.vsize
        BY <1>1, Zenon
      <4> QED
        BY <4>1, <4>2
    <3>3. v < ms.rsize => memory[v + 1] = 0
      BY <1>1, <1>2, <2>3, <3>1, <3>2 DEF StreamIsSound, BufferIsAString
    <3>4. v < ms.rsize => v + 1 \in 1..(ms.rsize + 1) /\ v + 1 > w
      BY <1>3, <1>10
    <3> QED
      BY <2>3, <3>3, <3>4, <1>11, <1>12
  <2> QED
    BY <2>1, <2>2, <2>3, <1>3, <1>10
<1> QED
  BY <1>1, <1>15, <1>16, <1>17, <1>18 DEF MemInv, StreamIsSound

\* mstream_seek leaves the data alone.
LEMMA SeekKeeps ==
    ASSUME MemInv, NEW pos \in Int, NEW whence, mstream_seek(pos, whence)
    PROVE  MemInv'
<1> DEFINE off == pos + (CASE whence = "SET" -> 0 [] whence = "END" -> ms.vsize [] OTHER -> ms.curpos)
<1>1. /\ Open /\ streamCalls' = streamCalls + 1
      /\ off >= 0 /\ off <= ms.vsize
      /\ ms' = [ms EXCEPT !.curpos = off]
      /\ file' = [file EXCEPT !.pos = off]
      /\ memory' = memory /\ got' = got /\ grown' = grown
  BY DEF mstream_seek, CallOn
<1>2. StreamShape /\ StreamIsSound
  BY <1>1 DEF MemInv
<1>3. off \in Nat
  <2>1. ms.vsize \in Nat /\ ms.curpos \in Nat
    BY <1>2 DEF StreamShape
  <2>2. \E n \in {0, ms.vsize, ms.curpos} : off = pos + n
    <3>1. CASE whence = "SET"
      BY <3>1
    <3>2. CASE whence = "END"
      BY <3>2
    <3>3. CASE whence # "SET" /\ whence # "END"
      BY <3>3
    <3> QED
      BY <3>1, <3>2, <3>3
  <2> HIDE DEF off
  <2> QED
    BY <1>1, <2>1, <2>2
<1> HIDE DEF off
<1>4. /\ ms' = [rsize |-> ms.rsize, vsize |-> ms.vsize, curpos |-> off, flags |-> ms.flags]
      /\ file' = [data |-> file.data, pos |-> off]
  <2>1. /\ ms = [rsize |-> ms.rsize, vsize |-> ms.vsize, curpos |-> ms.curpos, flags |-> ms.flags]
        /\ file = [data |-> file.data, pos |-> file.pos]
    BY <1>2 DEF StreamShape
  <2> QED
    BY <1>1, <2>1
<1>5. /\ ms'.rsize = ms.rsize /\ ms'.vsize = ms.vsize /\ ms'.curpos = off /\ ms'.flags = ms.flags
      /\ file'.data = file.data /\ file'.pos = off
  BY <1>4
<1>6. StreamShape'
  <2> HIDE DEF Opened
  <2> QED
    BY <1>1, <1>2, <1>3, <1>4, <1>5 DEF StreamShape
<1>7. StaysInTheBuffer' /\ BufferIsAString'
  BY <1>1, <1>2, <1>5 DEF StreamIsSound, StaysInTheBuffer, BufferIsAString
<1>8. StreamIsAFile'
  BY <1>1, <1>2, <1>5 DEF StreamIsSound, StreamIsAFile
<1> QED
  BY <1>1, <1>6, <1>7, <1>8 DEF MemInv, StreamIsSound

\* After any calls on a stream of any size, in any mode, it is as its file, within
\* its buffer, and has left a string there (fmemopen.c).
THEOREM TheStreamIsAFile == MemSpec => []StreamIsSound
<1>1. MemInit => MemInv
  <2> SUFFICES ASSUME MemInit PROVE MemInv
    OBVIOUS
  <2>1. ~Open /\ streamCalls = 0 /\ grown = FALSE
    BY DEF MemInit, Open
  <2>2. got.bytes = got.want
    BY DEF MemInit
  <2> QED
    BY <2>1, <2>2 DEF MemInv
<1>2. MemInv /\ [MemNext]_streamVars => MemInv'
  <2> SUFFICES ASSUME MemInv, [MemNext]_streamVars PROVE MemInv'
    OBVIOUS
  <2>1. ASSUME NEW size \in BufSizes, NEW type \in Types, NEW own \in BOOLEAN, Fmemopen(size, type, own) PROVE MemInv'
    BY <2>1, FmemopenKeeps
  <2>2. ASSUME NEW len \in 1..2, mstream_read(len) PROVE MemInv'
    BY <2>2, ReadKeeps
  <2>3. ASSUME NEW text \in Texts, mstream_write(text) PROVE MemInv'
    <3>1. text \in Seq(Nat)
      <4>1. CASE \E a \in Bytes : text = <<a>>
        BY <4>1, StreamAssumption
      <4>2. CASE \E a, b \in Bytes : text = <<a, b>>
        BY <4>2, StreamAssumption
      <4> QED
        BY <4>1, <4>2 DEF Texts
    <3> QED
      BY <2>3, <3>1, WriteKeeps
  <2>4. ASSUME NEW pos \in -1..1, NEW whence \in {"SET", "END", "CUR"}, mstream_seek(pos, whence) PROVE MemInv'
    <3>1. pos \in Int
      OBVIOUS
    <3> QED
      BY <2>4, <3>1, SeekKeeps
  <2>5. CASE mstream_close
    <3>1. ms' = NoStream /\ got' = got /\ grown' = grown /\ streamCalls' = streamCalls
      BY <2>5 DEF mstream_close
    <3> QED
      BY <3>1 DEF MemInv, Open
  <2>6. CASE UNCHANGED streamVars
    BY <2>6 DEF streamVars, MemInv, Open, StreamShape, StreamIsSound, StaysInTheBuffer, StreamIsAFile, BufferIsAString
  <2> QED
    BY <2>1, <2>2, <2>3, <2>4, <2>5, <2>6 DEF MemNext
<1>3. MemInv => StreamIsSound
  BY DEF MemInv, StreamIsSound, StaysInTheBuffer, StreamIsAFile, BufferIsAString
<1> QED
  BY <1>1, <1>2, <1>3, PTL DEF MemSpec
=============================================================================
