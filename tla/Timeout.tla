------------------------------ MODULE Timeout ------------------------------
(* threadctl/timeout.c with makethread of threadctl/detach.c: a function is   *)
(* called at a later time, by a detached thread, or at once by the caller if  *)
(* the time has come or no thread can be made.  main calls timeout with a     *)
(* recursive mutex locked that the function locks too.  A clock tick is one   *)
(* unit of tv_nsec.                                                           *)
EXTENDS Naturals, Integers

CONSTANTS SECTONSEC,   \* ticks in a second
          Delay,       \* seconds until the retry (10)
          MaxClock     \* ticks that pass before timeout is called

ASSUME TimeoutAssumption == SECTONSEC \in Nat \ {0} /\ Delay \in Nat /\ MaxClock \in Nat

VARIABLES clock,     \* CLOCK_REALTIME, in ticks
          tmain,     \* where main is
          when,      \* [tv_sec, tv_nsec] of main
          helper,    \* the thread: [pc, to_wait, left], left ticks to sleep
          mutex,     \* [owner, depth]
          retries,   \* calls of retry, and whether one was a fallback
          tip        \* the struct to_info: "none", "allocated", "freed"

timeoutVars == <<clock, tmain, when, helper, mutex, retries, tip>>

Ts(ticks) == [tv_sec |-> ticks \div SECTONSEC, tv_nsec |-> ticks % SECTONSEC]
Ticks(ts) == ts.tv_sec * SECTONSEC + ts.tv_nsec

TimeoutInit ==
    /\ clock = 0
    /\ tmain = "idle"
    /\ when = Ts(0)
    /\ helper = [pc |-> "none", to_wait |-> Ts(0), left |-> 0]
    /\ mutex = [owner |-> "nobody", depth |-> 0]
    /\ retries = [number |-> 0, early |-> FALSE]
    /\ tip = "none"

\* Time passes; a sleeping helper has less of it left.
ClockTick ==
    /\ tmain # "idle" /\ (clock < MaxClock \/ helper.left > 0)
    /\ clock' = clock + 1
    /\ helper' = [helper EXCEPT !.left = IF @ > 0 THEN @ - 1 ELSE 0]
    /\ UNCHANGED <<tmain, when, mutex, retries, tip>>

\* The recursive mutex.
Lock(t) == /\ mutex.owner \in {"nobody", t}
           /\ mutex' = [owner |-> t, depth |-> mutex.depth + 1]
Unlock2 == mutex' = [owner |-> IF mutex.depth = 1 THEN "nobody" ELSE mutex.owner, depth |-> mutex.depth - 1]

\* main up to the call of timeout.
MainLocks ==
    /\ tmain = "idle"
    /\ Lock("main")
    /\ tmain' = "locked"
    /\ UNCHANGED <<clock, when, helper, retries, tip>>

SetWhen ==
    /\ tmain = "locked"
    /\ when' = [Ts(clock) EXCEPT !.tv_sec = @ + Delay]
    /\ tmain' = "timeout"
    /\ UNCHANGED <<clock, helper, mutex, retries, tip>>

\* There is nothing to retry.
NoRetry ==
    /\ tmain = "locked"
    /\ tmain' = "unlock"
    /\ UNCHANGED <<clock, when, helper, mutex, retries, tip>>

\* Mutant: the nanoseconds are not compared.
MutLaterSeconds(a, b) == a.tv_sec > b.tv_sec

Later(a, b) == a.tv_sec > b.tv_sec \/ (a.tv_sec = b.tv_sec /\ a.tv_nsec > b.tv_nsec)

\* when - now, with a borrow from the seconds.
ToWait(w, now) ==
    IF w.tv_nsec >= now.tv_nsec
      THEN [tv_sec |-> w.tv_sec - now.tv_sec, tv_nsec |-> w.tv_nsec - now.tv_nsec]
      ELSE [tv_sec |-> w.tv_sec - now.tv_sec - 1, tv_nsec |-> SECTONSEC - now.tv_nsec + w.tv_nsec]

\* A detached thread that waits until `when'.
makethread(now) == helper' = [helper EXCEPT !.pc = "start", !.to_wait = ToWait(when, now)]

\* timeout: a thread is made; or the time has come, malloc fails, or makethread
\* fails and the structure is freed, and the function is called at once.
timeout ==
    /\ tmain = "timeout"
    /\ LET now == Ts(clock)
       IN  \/ /\ Later(when, now)
              /\ tip' = "allocated"
              /\ makethread(now)
              /\ tmain' = "unlock"
              /\ UNCHANGED retries
           \/ /\ Later(when, now)
              /\ tip' \in {"none", "freed"}
              /\ retries' = [retries EXCEPT !.early = TRUE]
              /\ tmain' = "call"
              /\ UNCHANGED helper
           \/ /\ ~Later(when, now)
              /\ tmain' = "call"
              /\ UNCHANGED <<helper, retries, tip>>
    /\ UNCHANGED <<clock, when, mutex>>

\* retry: locks the mutex, the caller's own perhaps, and unlocks it.
RetryLocks(t, pc) ==
    /\ Lock(t)
    /\ retries' = [retries EXCEPT !.number = @ + 1]
    /\ IF t = "main" THEN tmain' = pc /\ UNCHANGED helper ELSE helper' = [helper EXCEPT !.pc = pc] /\ UNCHANGED tmain
    /\ UNCHANGED <<clock, when, tip>>

MainRetries == \/ tmain = "call" /\ RetryLocks("main", "retry")
               \/ /\ tmain \in {"retry", "unlock"}
                  /\ Unlock2
                  /\ tmain' = IF tmain = "retry" THEN "unlock" ELSE "continue"
                  /\ UNCHANGED <<clock, when, helper, retries, tip>>

\* timeout_helper: a relative sleep, the function, free.
timeout_helper ==
    \/ /\ helper.pc = "start"
       /\ helper' = [helper EXCEPT !.pc = "sleep", !.left = Ticks(helper.to_wait)]
       /\ UNCHANGED <<clock, tmain, when, mutex, retries, tip>>
    \/ helper.pc = "sleep" /\ helper.left = 0 /\ RetryLocks("helper", "retry")
    \/ /\ helper.pc = "retry"
       /\ Unlock2
       /\ helper' = [helper EXCEPT !.pc = "free"]
       /\ UNCHANGED <<clock, tmain, when, retries, tip>>
    \/ /\ helper.pc = "free"
       /\ tip' = "freed"
       /\ helper' = [helper EXCEPT !.pc = "end"]
       /\ UNCHANGED <<clock, tmain, when, mutex, retries>>

\* exit(0) in main ends the helper with the process.
MainExits ==
    /\ tmain = "continue"
    /\ tmain' = "exit"
    /\ helper' = [helper EXCEPT !.pc = "none", !.left = 0]
    /\ UNCHANGED <<clock, when, mutex, retries, tip>>

TimeoutNext == ClockTick \/ MainLocks \/ SetWhen \/ NoRetry \/ timeout \/ MainRetries \/ timeout_helper \/ MainExits

\* Time passes and the threads run; how long main continues is open.
TimeoutFairness == /\ WF_timeoutVars(ClockTick) /\ WF_timeoutVars(SetWhen \/ NoRetry) /\ WF_timeoutVars(timeout)
                   /\ WF_timeoutVars(MainRetries) /\ WF_timeoutVars(timeout_helper)

TimeoutSpec == TimeoutInit /\ [][TimeoutNext]_timeoutVars /\ TimeoutFairness

----------------------------------------------------------------------------
\* The retry is made once, never before its time unless timeout gave up making
\* a thread, whatever the two clock readings and the borrow of the subtraction
\* were, and the structure is freed when it was made.
RetryOnceOnTime ==
    /\ retries.number <= 1
    /\ retries.number = 1 /\ ~retries.early => clock >= Ticks(when)
    /\ helper.pc # "none" => Ticks(helper.to_wait) > 0 /\ helper.to_wait.tv_nsec \in 0..(SECTONSEC - 1)
    /\ helper.pc \in {"end", "none"} => tip # "allocated" \/ tmain = "exit"

\* The retry does happen if main does not exit, and main gets past the call:
\* the function can lock the mutex although its caller, main itself perhaps,
\* has it (the mutex is recursive).
RetryHappens == (tmain = "timeout") ~> (tmain = "exit" \/ (retries.number = 1 /\ tmain = "continue" /\ mutex.depth = 0))

============================================================================
