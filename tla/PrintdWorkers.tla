--------------------------- MODULE PrintdWorkers ---------------------------
(***************************************************************************)
(* The list of client threads of printer/printd.c and what ends them:      *)
(* add_worker, client_cleanup, kill_workers and signal_thread.  The list   *)
(* is modelled as the pointers the code keeps, with one worker_thread      *)
(* record per thread; `heap' are the records allocated and not yet freed.  *)
(* Each critical section under workerlock is one action.                   *)
(*                                                                         *)
(* add_worker links a record in front of the first one without making it   *)
(* the head, so of the threads that run at the same time only the one that *)
(* found the list empty is on it; and when that one ends with another      *)
(* record in front of its own, `workers' keeps pointing at freed memory.   *)
(* What a walk of the list does after that is undefined: the actions that  *)
(* read the list are not taken any more.                                   *)
(***************************************************************************)
EXTENDS Naturals

CONSTANTS Threads,     \* the client threads main creates
          NULL         \* the null pointer

ASSUME NullAssumption == NULL \notin Threads

VARIABLES pc,          \* the client threads
          workers,     \* head of the list
          next, prev,  \* the links of each thread's record
          heap,        \* threads whose record is allocated
          sockets,     \* threads whose socket is open
          cancelled,   \* threads with a cancellation request
          first,       \* history: threads that found the list empty
          spc          \* the signal thread

listVars == <<workers, next, prev, heap>>
workerVars == <<pc, listVars, sockets, cancelled, first, spc>>

Pointers == Threads \cup {NULL}

WorkersTypeOK ==
    /\ pc \in [Threads -> {"none", "start", "work", "cleanup", "gone"}]
    /\ workers \in Pointers
    /\ next \in [Threads -> Pointers] /\ prev \in [Threads -> Pointers]
    /\ heap \subseteq Threads /\ sockets \subseteq Threads
    /\ cancelled \subseteq Threads /\ first \subseteq Threads
    /\ spc \in {"wait", "killed", "exit"}

WorkersInit ==
    /\ pc = [t \in Threads |-> "none"]
    /\ workers = NULL
    /\ next = [t \in Threads |-> NULL] /\ prev = [t \in Threads |-> NULL]
    /\ heap = {} /\ sockets = {} /\ cancelled = {} /\ first = {}
    /\ spc = "wait"

\* The records a walk from `workers' along `next' meets: those that are in every
\* set with the first record and, of each record in it, the next one.
Closed(S) ==
    /\ workers \in S \cup {NULL}
    /\ \A t \in S : next[t] \in S \cup {NULL}

OnList == {t \in Threads : \A S \in SUBSET Threads : Closed(S) => t \in S}

\* The first record is one that may be read.
HeadIsAllocated == workers \in heap \cup {NULL}

\* The accept loop of main: a connection, a thread to serve it.
Accept(t) ==
    /\ spc # "exit" /\ pc[t] = "none"
    /\ pc' = [pc EXCEPT ![t] = "start"]
    /\ sockets' = sockets \cup {t}
    /\ UNCHANGED <<listVars, cancelled, first, spc>>

\* malloc fails: pthread_exit runs client_cleanup with no record on the list.
add_worker(t) ==
    /\ spc # "exit" /\ pc[t] = "start"
    /\ \/ /\ HeadIsAllocated
          /\ pc' = [pc EXCEPT ![t] = "work"]
          /\ next' = [next EXCEPT ![t] = workers]
          /\ prev' = IF workers = NULL THEN [prev EXCEPT ![t] = NULL]
                     ELSE [prev EXCEPT ![t] = NULL, ![workers] = t]
          /\ workers' = IF workers = NULL THEN t ELSE workers
          /\ heap' = heap \cup {t}
          /\ first' = IF workers = NULL THEN first \cup {t} ELSE first
       \/ /\ pc' = [pc EXCEPT ![t] = "cleanup"]
          /\ UNCHANGED <<listVars, first>>
    /\ UNCHANGED <<sockets, cancelled, spc>>

\* The thread ends: done, refused, or cancelled at a cancellation point.
EndWork(t) ==
    /\ spc # "exit" /\ pc[t] = "work"
    /\ pc' = [pc EXCEPT ![t] = "cleanup"]
    /\ UNCHANGED <<listVars, sockets, cancelled, first, spc>>

\* Mutant: the head is not moved.
MutKeepHead(t) ==
    /\ spc # "exit" /\ pc[t] = "cleanup" /\ HeadIsAllocated
    /\ pc' = [pc EXCEPT ![t] = "gone"]
    /\ IF t \in OnList THEN heap' = heap \ {t} /\ sockets' = sockets \ {t}
                      ELSE UNCHANGED <<heap, sockets>>
    /\ UNCHANGED <<workers, next, prev, cancelled, first, spc>>

\* Take the record off the list, close the socket and free the record; all of
\* that only when the walk finds the record.
client_cleanup(t) ==
    /\ spc # "exit" /\ pc[t] = "cleanup" /\ HeadIsAllocated
    /\ pc' = [pc EXCEPT ![t] = "gone"]
    /\ IF t \in OnList
       THEN /\ prev' = IF next[t] = NULL THEN prev
                       ELSE [prev EXCEPT ![next[t]] = prev[t]]
            /\ next' = IF prev[t] = NULL THEN next
                       ELSE [next EXCEPT ![prev[t]] = next[t]]
            /\ workers' = IF prev[t] = NULL THEN next[t] ELSE workers
            /\ sockets' = sockets \ {t}
            /\ heap' = heap \ {t}
       ELSE UNCHANGED <<listVars, sockets>>
    /\ UNCHANGED <<cancelled, first, spc>>

\* SIGTERM, or any signal but SIGHUP: cancel the workers on the list ...
kill_workers ==
    /\ spc = "wait" /\ HeadIsAllocated
    /\ spc' = "killed"
    /\ cancelled' = cancelled \cup OnList
    /\ UNCHANGED <<pc, listVars, sockets, first>>

\* ... and exit without waiting for them.
Exit ==
    /\ spc = "killed"
    /\ spc' = "exit"
    /\ UNCHANGED <<pc, listVars, sockets, cancelled, first>>

worker_list ==
    \/ \E t \in Threads :
          Accept(t) \/ add_worker(t) \/ EndWork(t) \/ client_cleanup(t)
    \/ kill_workers

-----------------------------------------------------------------------------
\* The record of a thread that found the list empty stays on the list until its
\* client_cleanup, whoever registers or ends meanwhile; that frees the record and
\* closes the socket.
FirstIsListed ==
    \A t \in first : /\ pc[t] \in {"work", "cleanup"} => t \in OnList
                     /\ pc[t] = "gone" => t \notin heap \cup sockets

\* A walk of the list meets only records that are allocated, up to the end of a
\* thread whose record had another one linked in front of it.
WalkIsSafe == OnList \subseteq heap \/ prev[workers] # NULL

\* However many clients there are at a time, and in whatever order they come and
\* go, add_worker and client_cleanup keep track of the thread that registers on
\* an empty list.
WorkersAreTracked == WorkersTypeOK /\ FirstIsListed /\ WalkIsSafe

\* "Cancel (kill) all outstanding workers": no thread that is registered when
\* kill_workers runs is left without a cancellation request.
KillsOutstanding ==
    [][spc = "wait" /\ spc' = "killed" =>
         \A t \in Threads : pc[t] = "work" => t \in cancelled']_workerVars
=============================================================================
