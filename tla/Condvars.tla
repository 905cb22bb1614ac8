------------------------------ MODULE Condvars ------------------------------
(* Two programs in which threads wait on a condition variable.                *)
(* threads/condvar.c: threads that process messages from a list others add    *)
(* to.  threadctl/suspend.c: main waits until its signal thread has seen       *)
(* SIGQUIT.  A mutex is held within a step only: what is done under it, up to *)
(* its release by pthread_cond_wait or pthread_mutex_unlock, is one action.   *)
(* pthread_cond_signal wakes one of the threads that wait, if any; they also  *)
(* wake without being signalled.                                              *)
EXTENDS Naturals, Sequences, FiniteSets

CONSTANTS Consumers, Producers,   \* threads of condvar.c
          MaxMsgs,                \* messages in all
          MaxSignals              \* signals sent to suspend

ASSUME CondvarsAssumption == /\ IsFiniteSet(Consumers) /\ IsFiniteSet(Producers)
                             /\ MaxMsgs \in Nat /\ MaxSignals \in Nat

VARIABLES cvprog,     \* "condvar" or "suspend"
          cthr,       \* cthr[t]: where thread t is
          workq,      \* the list, first message first
          took,       \* took[t]: the messages t has processed
          sent,       \* messages made so far
          quitflag,   \* of suspend
          pending,    \* signals that are blocked and not yet taken
          nsignals    \* signals sent so far

condVars == <<cvprog, cthr, workq, took, sent, quitflag, pending, nsignals>>

Waiter == "main"        \* main and thr_fn of suspend
SigThread == "thr_fn"
CondThreads == Consumers \cup Producers \cup {Waiter, SigThread}

CondInit ==
    /\ cvprog = "none"
    /\ cthr = [t \in CondThreads |-> "idle"]
    /\ workq = <<>>
    /\ took = [t \in Consumers |-> <<>>]
    /\ sent = 0
    /\ quitflag = FALSE
    /\ pending = {}
    /\ nsignals = 0

StartCond ==
    /\ cvprog = "none"
    /\ \/ cvprog' = "condvar" /\ cthr' = [t \in CondThreads |-> IF t \in Consumers THEN "lock" ELSE "idle"]
       \/ cvprog' = "suspend" /\ cthr' = [cthr EXCEPT ![Waiter] = "lock", ![SigThread] = "sigwait"]
    /\ UNCHANGED <<workq, took, sent, quitflag, pending, nsignals>>

Moves(t, pc) == cthr' = [cthr EXCEPT ![t] = pc]

\* pthread_cond_signal by t, which goes on at pc.
Signals(t, pc) ==
    LET waiters == {u \in CondThreads : cthr[u] = "wait"}
    IN  IF waiters = {} THEN Moves(t, pc)
                        ELSE \E u \in waiters : cthr' = [cthr EXCEPT ![t] = pc, ![u] = "lock"]

SpuriousWakeup(t) ==
    /\ cthr[t] = "wait"
    /\ Moves(t, "lock")
    /\ UNCHANGED <<cvprog, workq, took, sent, quitflag, pending, nsignals>>

----------------------------------------------------------------------------
\* process_msg: the list is tested again after every wait.
process_msg(t) ==
    /\ t \in Consumers /\ cthr[t] = "lock"
    /\ IF workq = <<>>
         THEN Moves(t, "wait") /\ UNCHANGED <<workq, took>>
         ELSE /\ workq' = Tail(workq)
              /\ took' = [took EXCEPT ![t] = Append(@, Head(workq))]
              /\ UNCHANGED cthr
    /\ UNCHANGED <<cvprog, sent, quitflag, pending, nsignals>>
\* Mutant: the new message does not point to the others.
MutDropRest(t) ==
    /\ cvprog = "condvar" /\ cthr[t] = "idle" /\ sent < MaxMsgs
    /\ sent' = sent + 1
    /\ workq' = <<sent'>>
    /\ Moves(t, "signal")
    /\ UNCHANGED <<cvprog, took, quitflag, pending, nsignals>>

\* enqueue_msg: the message becomes the first, and then, the mutex released,
\* the condition is signalled.
enqueue_msg(t) ==
    /\ cvprog = "condvar" /\ cthr[t] = "idle" /\ sent < MaxMsgs
    /\ sent' = sent + 1
    /\ workq' = <<sent'>> \o workq
    /\ Moves(t, "signal")
    /\ UNCHANGED <<cvprog, took, quitflag, pending, nsignals>>
\* Mutant: nobody is signalled.
MutEnqueueQuietly(t) ==
    /\ t \in Producers /\ cthr[t] = "signal"
    /\ Moves(t, "idle")
    /\ UNCHANGED <<cvprog, workq, took, sent, quitflag, pending, nsignals>>

EnqueueSignals(t) ==
    /\ t \in Producers /\ cthr[t] = "signal"
    /\ Signals(t, "idle")
    /\ UNCHANGED <<cvprog, workq, took, sent, quitflag, pending, nsignals>>

----------------------------------------------------------------------------
\* SIGINT or SIGQUIT is sent to suspend: all its threads block them.
SendSignal(s) ==
    /\ cvprog = "suspend" /\ cthr[Waiter] # "exit" /\ nsignals < MaxSignals
    /\ nsignals' = nsignals + 1
    /\ pending' = pending \cup {s}
    /\ UNCHANGED <<cvprog, cthr, workq, took, sent, quitflag>>

\* thr_fn takes a signal; after SIGQUIT it sets the flag and ends.
thr_fn ==
    /\ cthr[SigThread] = "sigwait"
    /\ \E s \in pending :
          /\ pending' = pending \ {s}
          /\ quitflag' = (quitflag \/ s = "SIGQUIT")
          /\ Moves(SigThread, IF s = "SIGQUIT" THEN "signal" ELSE "sigwait")
    /\ UNCHANGED <<cvprog, workq, took, sent, nsignals>>

ThreadSignals ==
    /\ cthr[SigThread] = "signal"
    /\ Signals(SigThread, "exit")
    /\ UNCHANGED <<cvprog, workq, took, sent, quitflag, pending, nsignals>>

\* main waits for the flag.
MainWaits ==
    /\ cthr[Waiter] = "lock"
    /\ Moves(Waiter, IF quitflag THEN "reset" ELSE "wait")
    /\ UNCHANGED <<cvprog, workq, took, sent, quitflag, pending, nsignals>>

\* The flag is cleared and the old mask set: a signal that came since ends the
\* process there, or else exit does.
MainEnds ==
    /\ cthr[Waiter] = "reset"
    /\ quitflag' = FALSE
    /\ cthr' = [cthr EXCEPT ![Waiter] = "exit", ![SigThread] = "exit"]
    /\ UNCHANGED <<cvprog, workq, took, sent, pending, nsignals>>

Suspend == thr_fn \/ ThreadSignals \/ MainWaits \/ MainEnds

CondNext == \/ StartCond
            \/ \E t \in Consumers : process_msg(t)
            \/ \E t \in Producers : enqueue_msg(t) \/ EnqueueSignals(t)
            \/ \E s \in {"SIGINT", "SIGQUIT"} : SendSignal(s)
            \/ Suspend
            \/ \E t \in CondThreads : SpuriousWakeup(t)

\* Threads that can run do; nobody need wake without a signal, send messages or
\* send signals.
CondFairness == /\ \A t \in Consumers : WF_condVars(process_msg(t))
                /\ \A t \in Producers : WF_condVars(EnqueueSignals(t))
                /\ WF_condVars(MainWaits) /\ WF_condVars(MainEnds)
                /\ WF_condVars(thr_fn) /\ WF_condVars(ThreadSignals)

CondSpec == CondInit /\ [][CondNext]_condVars /\ CondFairness

----------------------------------------------------------------------------
Taken(t) == {took[t][i] : i \in DOMAIN took[t]}
OnList == {workq[i] : i \in DOMAIN workq}

\* Every message is on the list or was processed by one thread, once: none is
\* lost and none is taken twice.
EachMessageOnce ==
    /\ OnList \cup UNION {Taken(t) : t \in Consumers} = 1..sent
    /\ \A t \in Consumers : Taken(t) \cap OnList = {} /\ Cardinality(Taken(t)) = Len(took[t])
    /\ \A t, u \in Consumers : t # u => Taken(t) \cap Taken(u) = {}

\* No wakeup is lost: while there are messages some thread comes for them, and
\* once SIGQUIT was taken main of suspend ends, though both signal the condition
\* after they have released the mutex.
WaitersAreWoken == /\ (workq # <<>>) ~> (workq = <<>>)
                   /\ quitflag ~> (cthr[Waiter] = "exit")

============================================================================
