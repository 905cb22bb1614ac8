---------------------------- MODULE PrintdConfig ----------------------------
(***************************************************************************)
(* How printd follows its configuration file: SIGHUP, the reread flag      *)
(* under configlock, and printer_thread, which looks at the flag once per  *)
(* job (printer/printd.c, printer/util.c).  The file is abstracted to the  *)
(* number of times it was edited and whether it names a printer that       *)
(* resolves; a printer is known by the edit that put it in the file.       *)
(***************************************************************************)
EXTENDS Naturals

CONSTANT MaxEdits      \* bound: edits of the file

ASSUME MaxEditsAssumption == MaxEdits \in Nat

VARIABLES edits, valid,   \* the configuration file
          hup,            \* SIGHUP is pending
          reread,         \* the flag
          printer,        \* the edit `printer' points at; Freed after a free
          answer,         \* what get_printaddr found in the file
          ppc,            \* printer_thread, or "exit" when the daemon is gone
          told,           \* history: edits made when the last SIGHUP was handled
          due             \* history: `told' when the job at hand was picked up

configVars == <<edits, valid, hup, reread, printer, answer, ppc, told, due>>

Freed == MaxEdits + 1
Edits == 0..MaxEdits

\* main called init_printer before it created the threads.
ConfigInit ==
    /\ edits = 0 /\ valid = TRUE
    /\ hup = FALSE /\ reread = FALSE
    /\ printer = 0 /\ answer = 0
    /\ ppc = "top"        \* top, check, read, init, use
    /\ told = 0 /\ due = 0

\* The administrator edits the file, well or badly, ...
Edit ==
    /\ ppc # "exit" /\ edits < MaxEdits
    /\ edits' = edits + 1
    /\ valid' \in BOOLEAN
    /\ UNCHANGED <<hup, reread, printer, answer, ppc, told, due>>

\* ... and sends SIGHUP, which does not queue.
Kill ==
    /\ ppc # "exit"
    /\ hup' = TRUE
    /\ UNCHANGED <<edits, valid, reread, printer, answer, ppc, told, due>>

\* Mutant: the signal is swallowed.
MutSwallow ==
    /\ ppc # "exit" /\ hup
    /\ hup' = FALSE
    /\ told' = edits
    /\ UNCHANGED <<edits, valid, reread, printer, answer, ppc, due>>

signal_thread ==
    /\ ppc # "exit" /\ hup
    /\ hup' = FALSE
    /\ reread' = TRUE
    /\ told' = edits
    /\ UNCHANGED <<edits, valid, printer, answer, ppc, due>>

PickUp ==
    /\ ppc = "top"
    /\ ppc' = "check"
    /\ due' = told
    /\ UNCHANGED <<edits, valid, hup, reread, printer, answer, told>>

\* Under configlock: free the address and clear the flag, before the file is
\* read again without the lock.
CheckReread ==
    /\ ppc = "check"
    /\ IF reread THEN printer' = Freed /\ reread' = FALSE /\ ppc' = "read"
                 ELSE ppc' = "use" /\ UNCHANGED <<printer, reread>>
    /\ UNCHANGED <<edits, valid, hup, answer, told, due>>

\* get_printaddr scans the file and resolves the name it finds there, ...
get_printaddr ==
    /\ ppc = "read" /\ valid
    /\ answer' = edits /\ ppc' = "init"
    /\ UNCHANGED <<edits, valid, hup, reread, printer, told, due>>

\* Mutant: the flag is cleared once the new address is there.
MutClearLate ==
    /\ ppc = "init"
    /\ printer' = answer /\ ppc' = "use" /\ reread' = FALSE
    /\ UNCHANGED <<edits, valid, hup, answer, told, due>>

\* ... and the address and the name are put to use.
init_printer ==
    /\ ppc = "init"
    /\ printer' = answer /\ ppc' = "use"
    /\ UNCHANGED <<edits, valid, hup, reread, answer, told, due>>

\* The process ends: signal_thread exits, or the file names no printer.
Gone ==
    /\ ppc' = "exit"
    /\ UNCHANGED <<edits, valid, hup, reread, printer, answer, told, due>>

\* connect_retry and the headers use printer and printer_name.
UsePrinter ==
    /\ ppc = "use"
    /\ ppc' = "top"
    /\ UNCHANGED <<edits, valid, hup, reread, printer, answer, told, due>>

printer_thread ==
    PickUp \/ CheckReread \/ get_printaddr \/ init_printer \/ UsePrinter

-----------------------------------------------------------------------------
\* A job that printer_thread picks up after signal_thread handled a SIGHUP goes
\* to the printer that the file named then, or to a later one; never to an
\* address that was freed.  The flag is cleared before the file is read, so a
\* SIGHUP that comes during the read is not lost.
HupIsHonoured == ppc = "use" => printer # Freed /\ printer >= due

\* A SIGHUP takes effect: the address in use becomes one read after it, if jobs
\* keep coming and the file stays valid.
HupTakesEffect ==
    \A e \in Edits : told = e ~> (printer \in e..MaxEdits \/ ppc = "exit")
=============================================================================
