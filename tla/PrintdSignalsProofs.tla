------------------------ MODULE PrintdSignalsProofs ------------------------
(***************************************************************************)
(* Proofs about PrintdSignals: a SIGHUP is honoured by every later job     *)
(* (HupIsHonoured), for any number of edits; and the list of workers keeps *)
(* track of the thread that registered on an empty list, for any number of *)
(* clients at a time (WorkersAreTracked).  That kill_workers cancels every *)
(* worker is false with two of them: see the run PrintdSignals_many.       *)
(***************************************************************************)
EXTENDS PrintdSignals, TLAPS

-----------------------------------------------------------------------------
(* The configuration. *)

ConfigTypes ==
    /\ edits \in Nat /\ told \in Nat /\ due \in Nat /\ answer \in Nat /\ printer \in Nat
    /\ edits <= MaxEdits /\ told <= edits /\ due <= told /\ answer <= edits
    /\ valid \in BOOLEAN /\ hup \in BOOLEAN /\ reread \in BOOLEAN
    /\ ppc \in {"top", "check", "read", "init", "use", "exit"}

\* The address in use was not freed, and unless the flag is set it is at least
\* as new as the last SIGHUP that was handled; so is the answer that is about
\* to become the address.
Fresh ==
    /\ ppc \in {"top", "check", "use"} =>
          printer <= edits /\ (reread \/ printer >= told)
    /\ ppc = "use" => printer >= due
    /\ ppc = "init" => answer >= due /\ (reread \/ answer >= told)

ConfigInv == ConfigTypes /\ Fresh

\* printer_thread clears the flag before it reads the file, so what it reads is
\* at least as new as every SIGHUP handled before the flag was cleared, and a
\* later one leaves the flag set.
LEMMA ConfigInvStep == ConfigInv /\ [Next]_vars => ConfigInv'
<1> SUFFICES ASSUME ConfigInv, [Next]_vars PROVE ConfigInv'
    OBVIOUS
<1> USE MaxEditsAssumption DEF ConfigInv, ConfigTypes, Fresh
<1>1. CASE Edit
    BY <1>1 DEF Edit
<1>2. CASE Kill
    BY <1>2 DEF Kill
<1>3. CASE Hup
  <2>1. /\ told' = edits /\ UNCHANGED <<edits, valid, printer, answer, ppc, due>>
        /\ hup' = FALSE /\ reread' = TRUE
    BY <1>3 DEF Hup, signal_thread
  <2>2. hup' \in BOOLEAN /\ reread' \in BOOLEAN /\ reread'
    BY <2>1
  <2> QED
    BY <2>1, <2>2
<1>4. CASE PickUp
    BY <1>4 DEF PickUp
<1>5. CASE CheckReread
  <2>1. UNCHANGED <<edits, valid, hup, answer, told, due>> /\ ppc = "check"
    BY <1>5 DEF CheckReread
  <2>2. CASE reread
    <3>1. printer' = MaxEdits + 1 /\ reread' = FALSE /\ ppc' = "read"
      BY <1>5, <2>2 DEF CheckReread, Freed
    <3>2. reread' \in BOOLEAN
      BY <3>1
    <3> QED
      BY <2>1, <3>1, <3>2
  <2>3. CASE ~reread
    <3>1. ppc' = "use" /\ UNCHANGED <<printer, reread>>
      BY <1>5, <2>3 DEF CheckReread
    <3> QED
      BY <2>1, <2>3, <3>1
  <2> QED
    BY <2>2, <2>3
<1>6. CASE get_printaddr
    BY <1>6 DEF get_printaddr
<1>7. CASE init_printer
    BY <1>7 DEF init_printer
<1>8. CASE UsePrinter
    BY <1>8 DEF UsePrinter
<1>9. CASE Gone
    BY <1>9 DEF Gone
<1>10. CASE UNCHANGED configVars
    BY <1>10 DEF configVars
<1> QED
    BY <1>1, <1>2, <1>3, <1>4, <1>5, <1>6, <1>7, <1>8, <1>9, <1>10
    DEF Next, PrinterStep, printer_thread, Term, BadPrinter, vars

\* HupIsHonoured for every number of edits and signals: a job that
\* printer_thread picks up after signal_thread has handled a SIGHUP goes to a
\* printer that the file named then or later.
THEOREM JobsFollowTheFile == Spec => []HupIsHonoured
<1>1. Init => ConfigInv
  <2> SUFFICES ASSUME Init PROVE ConfigInv
    OBVIOUS
  <2>1. valid \in BOOLEAN /\ hup \in BOOLEAN /\ reread \in BOOLEAN
    BY DEF Init, ConfigInit
  <2>2. edits = 0 /\ printer = 0 /\ answer = 0 /\ told = 0 /\ due = 0 /\ ppc = "top"
    BY DEF Init, ConfigInit
  <2> QED
    BY <2>1, <2>2, MaxEditsAssumption DEF ConfigInv, ConfigTypes, Fresh
<1>2. ConfigInv => HupIsHonoured
    BY MaxEditsAssumption DEF ConfigInv, ConfigTypes, Fresh, HupIsHonoured, Freed
<1> QED
    BY <1>1, <1>2, ConfigInvStep, PTL DEF Spec

-----------------------------------------------------------------------------
(* The list of workers. *)

\* At most one record is on the list, the head, which has no successor.  As long
\* as it is allocated it is that of a thread that found the list empty and has
\* not ended; it is freed with the pointer left to it only when another record
\* was linked in front.
ShortList ==
    /\ workers # NULL => next[workers] = NULL
    /\ HeadIsAllocated /\ workers # NULL =>
          workers \in first /\ pc[workers] \in {"work", "cleanup"}
    /\ ~HeadIsAllocated => prev[workers] # NULL
    /\ \A t \in first : /\ pc[t] \in {"work", "cleanup", "gone"}
                        /\ pc[t] # "gone" => workers = t /\ t \in heap
                        /\ pc[t] = "gone" => t \notin heap \cup sockets

WorkersInv == WorkersTypeOK /\ ShortList

\* The walk of client_cleanup and kill_workers meets the head and ends there.
LEMMA WalkMeetsTheHead == WorkersInv => OnList = {workers} \ {NULL}
<1> SUFFICES ASSUME WorkersInv PROVE OnList = {workers} \ {NULL}
    OBVIOUS
<1> DEFINE H == {workers} \ {NULL}
<1>1. H \in SUBSET Threads /\ Closed(H)
    BY DEF WorkersInv, WorkersTypeOK, ShortList, Closed, Pointers
<1>2. OnList \subseteq H
    BY <1>1 DEF OnList
<1>3. \A S \in SUBSET Threads : Closed(S) => H \subseteq S
    BY DEF Closed
<1> QED
    BY <1>1, <1>2, <1>3 DEF OnList

\* add_worker makes a record the head of an empty list, or links it in front of
\* the head, which stays where it is.
LEMMA AddWorkerStep ==
    ASSUME WorkersInv, NEW t \in Threads, add_worker(t) PROVE WorkersInv'
<1>a. WorkersTypeOK /\ ShortList /\ NULL \notin Threads /\ pc[t] = "start"
    BY NullAssumption DEF WorkersInv, add_worker
<1>b. t \notin first /\ (HeadIsAllocated => workers # t)
    BY <1>a DEF ShortList
<1>1. CASE ~(HeadIsAllocated /\ pc' = [pc EXCEPT ![t] = "work"])
  <2>1. /\ pc' = [pc EXCEPT ![t] = "cleanup"]
        /\ UNCHANGED <<workers, next, prev, heap, first, sockets, cancelled, spc>>
    BY <1>1 DEF add_worker, listVars
  <2>2. WorkersTypeOK'
    BY <1>a, <2>1 DEF WorkersTypeOK
  <2>3. \A u \in Threads : u # t => pc'[u] = pc[u]
    BY <1>a, <2>1 DEF WorkersTypeOK
  <2>4. ShortList'
    BY <1>a, <1>b, <2>1, <2>3 DEF ShortList, HeadIsAllocated, WorkersTypeOK, Pointers
  <2> QED
    BY <2>2, <2>4 DEF WorkersInv
<1>2. CASE HeadIsAllocated /\ pc' = [pc EXCEPT ![t] = "work"]
  <2>a. pc'[t] = "work" /\ \A u \in Threads : u # t => pc'[u] = pc[u]
    BY <1>a, <1>2 DEF WorkersTypeOK
  <2>b. /\ next' = [next EXCEPT ![t] = workers] /\ heap' = heap \cup {t}
        /\ prev' = IF workers = NULL THEN [prev EXCEPT ![t] = NULL]
                   ELSE [prev EXCEPT ![t] = NULL, ![workers] = t]
        /\ workers' = IF workers = NULL THEN t ELSE workers
        /\ first' = IF workers = NULL THEN first \cup {t} ELSE first
        /\ UNCHANGED <<sockets, cancelled, spc>>
    BY <1>a, <1>2, <2>a DEF add_worker, WorkersTypeOK, listVars
  <2>1. WorkersTypeOK'
    BY <1>a, <1>2, <2>b DEF WorkersTypeOK, Pointers
  <2>2. CASE workers = NULL
    <3>1. workers' = t /\ next'[t] = NULL /\ t \in heap' /\ first' = first \cup {t}
      BY <1>a, <2>b, <2>2 DEF WorkersTypeOK
    <3>2. \A u \in first : pc[u] = "gone" /\ u # t
      BY <1>a, <1>b, <2>2 DEF ShortList, WorkersTypeOK
    <3>3. \A u \in first : pc'[u] = "gone" /\ u \notin heap' \cup sockets'
      BY <1>a, <2>a, <2>b, <3>2 DEF ShortList, WorkersTypeOK
    <3>4. ShortList'
      BY <2>a, <3>1, <3>3 DEF ShortList, HeadIsAllocated
    <3> QED
      BY <2>1, <3>4 DEF WorkersInv
  <2>3. CASE workers # NULL
    <3>1. workers' = workers /\ workers \in heap /\ workers \in Threads /\ workers # t
          /\ first' = first
      BY <1>a, <1>b, <1>2, <2>b, <2>3 DEF HeadIsAllocated, WorkersTypeOK, Pointers
    <3>2. next'[workers] = NULL
      BY <1>a, <2>b, <2>3, <3>1 DEF ShortList, WorkersTypeOK
    <3>3. \A u \in first : u \in Threads /\ u # t /\ pc'[u] = pc[u]
      BY <1>a, <1>b, <2>a DEF WorkersTypeOK
    <3>4. workers \in first /\ pc[workers] \in {"work", "cleanup"}
      BY <1>a, <1>2, <2>3 DEF ShortList
    <3>5. ShortList'
      BY <1>a, <2>b, <3>1, <3>2, <3>3, <3>4 DEF ShortList, HeadIsAllocated
    <3> QED
      BY <2>1, <3>5 DEF WorkersInv
  <2> QED
    BY <2>2, <2>3
<1> QED
    BY <1>1, <1>2

\* client_cleanup frees the record that its walk finds, which is the head; it
\* empties the list, or leaves it if another record is in front.
LEMMA CleanupStep ==
    ASSUME WorkersInv, NEW t \in Threads, client_cleanup(t) PROVE WorkersInv'
<1>a. /\ WorkersTypeOK /\ ShortList /\ NULL \notin Threads
      /\ pc[t] = "cleanup" /\ HeadIsAllocated
      /\ pc' = [pc EXCEPT ![t] = "gone"] /\ UNCHANGED <<cancelled, first, spc>>
    BY NullAssumption DEF WorkersInv, client_cleanup
<1>b. pc'[t] = "gone" /\ \A u \in Threads : u # t => pc'[u] = pc[u]
    BY <1>a DEF WorkersTypeOK
<1>c. t \in OnList <=> workers = t
    BY <1>a, WalkMeetsTheHead
<1>d. WorkersTypeOK'
    BY <1>a DEF client_cleanup, WorkersTypeOK, Pointers, listVars
<1>e. first \subseteq Threads
    BY <1>a DEF WorkersTypeOK
<1>1. CASE workers = t
  <2>1. /\ next[t] = NULL /\ prev' = prev
        /\ next' = IF prev[t] = NULL THEN next ELSE [next EXCEPT ![prev[t]] = NULL]
        /\ workers' = IF prev[t] = NULL THEN NULL ELSE t
        /\ sockets' = sockets \ {t} /\ heap' = heap \ {t}
    BY <1>a, <1>c, <1>1 DEF client_cleanup, ShortList
  <2>2. next'[t] = NULL
    BY <1>a, <2>1 DEF WorkersTypeOK
  <2>3. \A u \in first : pc'[u] = "gone" /\ u \notin heap' \cup sockets'
    BY <1>a, <1>b, <1>e, <1>1, <2>1 DEF ShortList
  <2>4. ShortList'
    BY <1>a, <2>1, <2>2, <2>3 DEF ShortList, HeadIsAllocated
  <2> QED
    BY <1>d, <2>4 DEF WorkersInv
<1>2. CASE workers # t
  <2>1. UNCHANGED <<workers, next, prev, heap, sockets>>
    BY <1>c, <1>2 DEF client_cleanup, listVars
  <2>2. t \notin first
    BY <1>a, <1>2 DEF ShortList
  <2>3. \A u \in first : pc'[u] = pc[u]
    BY <1>b, <1>e, <2>2
  <2>4. ShortList'
    BY <1>a, <1>2, <2>1, <2>3 DEF ShortList, HeadIsAllocated
  <2> QED
    BY <1>d, <2>4 DEF WorkersInv
<1> QED
    BY <1>1, <1>2

\* Every step of the client threads, of main and of the signals keeps the list
\* short.
LEMMA WorkersInvStep == WorkersInv /\ [Next]_vars => WorkersInv'
<1> SUFFICES ASSUME WorkersInv, [Next]_vars PROVE WorkersInv'
    OBVIOUS
<1>a. WorkersTypeOK /\ ShortList /\ first \subseteq Threads
    BY DEF WorkersInv, WorkersTypeOK
<1>1. ASSUME NEW t \in Threads, Accept(t) PROVE WorkersInv'
  <2>1. /\ pc[t] = "none" /\ pc' = [pc EXCEPT ![t] = "start"]
        /\ sockets' = sockets \cup {t}
        /\ UNCHANGED <<workers, next, prev, heap, cancelled, first, spc>>
    BY <1>1 DEF Accept, listVars
  <2>2. t \notin first
    BY <1>a, <2>1 DEF ShortList
  <2>3. \A u \in first : u # t /\ pc'[u] = pc[u]
    BY <1>a, <2>1, <2>2 DEF WorkersTypeOK
  <2>4. WorkersTypeOK'
    BY <1>a, <2>1 DEF WorkersTypeOK
  <2>5. ShortList'
    BY <1>a, <2>1, <2>3 DEF ShortList, HeadIsAllocated
  <2> QED
    BY <2>4, <2>5 DEF WorkersInv
<1>2. ASSUME NEW t \in Threads, EndWork(t) PROVE WorkersInv'
  <2>1. /\ pc[t] = "work" /\ pc' = [pc EXCEPT ![t] = "cleanup"]
        /\ UNCHANGED <<workers, next, prev, heap, sockets, cancelled, first, spc>>
    BY <1>2 DEF EndWork, listVars
  <2>2. pc'[t] = "cleanup" /\ \A u \in Threads : u # t => pc'[u] = pc[u]
    BY <1>a, <2>1 DEF WorkersTypeOK
  <2>3. WorkersTypeOK'
    BY <1>a, <2>1 DEF WorkersTypeOK
  <2>4. ShortList'
    BY <1>a, <2>1, <2>2 DEF ShortList, HeadIsAllocated
  <2> QED
    BY <2>3, <2>4 DEF WorkersInv
<1>3. CASE /\ UNCHANGED <<pc, workers, next, prev, heap, sockets, first>>
           /\ cancelled' \subseteq Threads /\ spc' \in {"wait", "killed", "exit"}
    BY <1>3, <1>a DEF WorkersInv, WorkersTypeOK, ShortList, HeadIsAllocated
<1>4. CASE kill_workers
  <2>1. OnList \subseteq Threads
    BY DEF OnList
  <2> QED
    BY <1>3, <1>4, <1>a, <2>1 DEF kill_workers, WorkersTypeOK, listVars
<1>5. CASE UNCHANGED workerVars \/ Term \/ BadPrinter
    BY <1>3, <1>5, <1>a
    DEF workerVars, listVars, Term, Exit, BadPrinter, WorkersTypeOK
<1> QED
    BY <1>1, <1>2, <1>4, <1>5, AddWorkerStep, CleanupStep
    DEF Next, worker_list, PrinterStep, Hup, vars

\* The list is empty when the daemon starts.
LEMMA WorkersInvInit == Init => WorkersInv
BY DEF Init, WorkersInit, WorkersInv, WorkersTypeOK, ShortList, HeadIsAllocated, Pointers

\* WorkersAreTracked for any number of client threads: add_worker and
\* client_cleanup keep the record of the thread that found the list empty on the
\* list, and free it and close its socket when the thread ends, through failing
\* mallocs, cancellation, signals and other threads that come and go.
THEOREM TheFirstWorkerIsTracked == Spec => []WorkersAreTracked
<1>1. WorkersInv => WorkersAreTracked
  <2> SUFFICES ASSUME WorkersInv PROVE WorkersAreTracked
    OBVIOUS
  <2>1. OnList = {workers} \ {NULL}
    BY WalkMeetsTheHead
  <2>2. WorkersTypeOK /\ ShortList /\ NULL \notin Threads /\ first \subseteq Threads
    BY NullAssumption DEF WorkersInv, WorkersTypeOK
  <2>3. FirstIsListed
    BY <2>1, <2>2 DEF ShortList, FirstIsListed
  <2>4. WalkIsSafe
    BY <2>1, <2>2 DEF ShortList, WalkIsSafe, HeadIsAllocated
  <2> QED
    BY <2>2, <2>3, <2>4 DEF WorkersAreTracked
<1> QED
    BY <1>1, WorkersInvInit, WorkersInvStep, PTL DEF Spec
=============================================================================
