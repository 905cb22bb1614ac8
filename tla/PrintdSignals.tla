--------------------------- MODULE PrintdSignals ---------------------------
(***************************************************************************)
(* signal_thread of printer/printd.c with the two parts of the daemon it   *)
(* acts on: the client threads (PrintdWorkers) and the configuration that  *)
(* printer_thread reads (PrintdConfig).  The thread handles one signal at  *)
(* a time, and the exit of any thread ends all of them.                    *)
(***************************************************************************)
EXTENDS PrintdWorkers, PrintdConfig

vars == <<workerVars, configVars>>

Init == WorkersInit /\ ConfigInit

\* SIGHUP and SIGTERM are taken by sigwait, so never while the other is handled.
Hup == spc = "wait" /\ signal_thread /\ UNCHANGED workerVars

Term == Exit /\ Gone

\* A configuration file that names no printer: log_msg and exit.
BadPrinter ==
    /\ ppc = "read" /\ ~valid
    /\ spc' = "exit" /\ Gone
    /\ UNCHANGED <<pc, listVars, sockets, cancelled, first>>

PrinterStep == printer_thread /\ UNCHANGED workerVars

Next ==
    \/ worker_list /\ UNCHANGED configVars
    \/ (Edit \/ Kill) /\ UNCHANGED workerVars
    \/ PrinterStep \/ Hup \/ Term \/ BadPrinter

Spec == /\ Init /\ [][Next]_vars
        /\ WF_vars(PrinterStep \/ BadPrinter) /\ WF_vars(Hup) /\ WF_vars(Term)
=============================================================================
