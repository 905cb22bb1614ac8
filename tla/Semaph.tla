------------------------------- MODULE Semaph -------------------------------
(* lib/semaph.c: semaphores over the System V ones.  A semaphore is a set of *)
(* three: [0] its value, [1] BIGCOUNT less the processes that use it, [2] a   *)
(* lock around its creation and its removal.  Processes create, open, use    *)
(* and close the semaphore of one key and are killed at any step.  The        *)
(* kernel's part: semop is atomic and remembers what to undo when the         *)
(* process exits; an operation on a removed set fails with EINVAL, or with    *)
(* EIDRM if the process was asleep in it.                                     *)
EXTENDS Naturals, Integers, Sequences, FiniteSets

CONSTANTS SemProcs,   \* the processes
          BIGCOUNT,   \* more than the processes there can be
          InitVal,    \* the value a created semaphore starts with
          MaxCalls,   \* calls of sem_create and sem_open
          MaxExits    \* processes killed, and calls of sem_rm by a server

ASSUME SemaphAssumption == /\ BIGCOUNT \in Nat /\ InitVal \in Nat /\ MaxCalls \in Nat /\ MaxExits \in Nat
                           /\ IsFiniteSet(SemProcs) /\ BIGCOUNT > Cardinality(SemProcs)

VARIABLES sems,    \* sems[id]: the set with this id, in the order of creation
          key,     \* the id semget finds, 0 if there is none
          sproc,   \* sproc[p]: a process
          calls,   \* calls and exits so far
          forced   \* a server has removed the semaphore under its users

semVars == <<sems, key, sproc, calls, forced>>

Ops(val, cnt, lock) == [val |-> val, cnt |-> cnt, lock |-> lock]
op_lock == Ops(0, 0, 1)
op_endcreate == Ops(0, -1, -1)
op_open == Ops(0, -1, 0)
op_close == Ops(0, 1, 1)
op_unlock == Ops(0, 0, -1)

Fresh == [pc |-> "none", id |-> 0, by |-> "none", undo |-> Ops(0, 0, 0)]

SemInit == /\ sems = <<>>
           /\ key = 0
           /\ sproc = [p \in SemProcs |-> Fresh]
           /\ calls = [calls |-> 0, exits |-> 0]
           /\ forced = FALSE

Live(id) == sems[id].live
Set(p) == sems[sproc[p].id]
Plus(a, d) == [a EXCEPT !.val = @ + d.val, !.cnt = @ + d.cnt, !.lock = @ + d.lock]
Minus(a, d) == Plus(a, Ops(-d.val, -d.cnt, -d.lock))
Goto(p, pc) == sproc' = [sproc EXCEPT ![p].pc = pc]

\* A semop that does not have to wait.
Semop(p, d, pc) ==
    /\ sems' = [sems EXCEPT ![sproc[p].id] = Plus(@, d)]
    /\ sproc' = [sproc EXCEPT ![p].pc = pc, ![p].undo = Minus(@, d)]

\* The process exits (err_sys, err_dump, a signal): the kernel undoes its operations.
Exits(p) ==
    /\ sems' = IF sproc[p].id # 0 /\ Live(sproc[p].id) THEN [sems EXCEPT ![sproc[p].id] = Plus(@, sproc[p].undo)] ELSE sems
    /\ sproc' = [sproc EXCEPT ![p] = [Fresh EXCEPT !.pc = "dead"]]

SemKill(p) ==
    /\ sproc[p].pc # "dead" /\ calls.exits < MaxExits
    /\ calls' = [calls EXCEPT !.exits = @ + 1]
    /\ Exits(p)
    /\ UNCHANGED <<key, forced>>

----------------------------------------------------------------------------
Call == calls.calls < MaxCalls /\ calls' = [calls EXCEPT !.calls = @ + 1]

\* semget with IPC_CREAT: the set of the key, or a new one, all zero.
GetOrCreate(p) ==
    LET id == IF key # 0 THEN key ELSE Len(sems) + 1
    IN  /\ key' = id
        /\ sems' = IF key # 0 THEN sems ELSE Append(sems, [val |-> 0, cnt |-> 0, lock |-> 0, live |-> TRUE])
        /\ sproc' = [sproc EXCEPT ![p] = [Fresh EXCEPT !.pc = "lock", !.id = id, !.by = "create"]]

\* sem_create: semget, then the lock, then the counter.
CreateGet(p) ==
    /\ sproc[p].pc = "none" /\ Call
    /\ GetOrCreate(p)
    /\ UNCHANGED forced
\* Mutant: after EINVAL the lock is tried again, but not semget.
MutAgainAtLock(p) ==
    /\ \/ /\ sproc[p].pc \in {"lock", "sleep"} /\ Live(sproc[p].id) /\ Set(p).lock = 0
          /\ Semop(p, op_lock, "getval")
       \/ /\ sproc[p].pc = "lock" /\ Live(sproc[p].id) /\ Set(p).lock # 0
          /\ Goto(p, "sleep")
          /\ UNCHANGED sems
       \/ /\ sproc[p].pc = "sleep" /\ ~Live(sproc[p].id)
          /\ Exits(p)
    /\ UNCHANGED <<key, calls, forced>>

\* The lock is taken; EINVAL starts again; EIDRM ends the process.
CreateLock(p) ==
    /\ \/ /\ sproc[p].pc \in {"lock", "sleep"} /\ Live(sproc[p].id) /\ Set(p).lock = 0
          /\ Semop(p, op_lock, "getval")
          /\ UNCHANGED key
       \/ /\ sproc[p].pc = "lock" /\ Live(sproc[p].id) /\ Set(p).lock # 0
          /\ Goto(p, "sleep")
          /\ UNCHANGED <<sems, key>>
       \/ /\ sproc[p].pc = "lock" /\ ~Live(sproc[p].id)
          /\ GetOrCreate(p)
       \/ /\ sproc[p].pc = "sleep" /\ ~Live(sproc[p].id)
          /\ Exits(p)
          /\ UNCHANGED key
    /\ UNCHANGED <<calls, forced>>

\* The system calls of p find the set removed: err_sys.
Vanished(p, pcs) ==
    /\ sproc[p].pc \in pcs /\ ~Live(sproc[p].id)
    /\ Exits(p)
    /\ UNCHANGED <<key, calls, forced>>

CreateGetval(p) ==
    /\ sproc[p].pc = "getval" /\ Live(sproc[p].id)
    /\ Goto(p, IF Set(p).cnt = 0 THEN "set0" ELSE "end")
    /\ UNCHANGED <<sems, key, calls, forced>>

\* SETVAL sets one of the three and clears what processes would undo on it.
SetVal0(p) ==
    /\ sproc[p].pc = "set0" /\ Live(sproc[p].id)
    /\ sems' = [sems EXCEPT ![sproc[p].id].val = InitVal]
    /\ sproc' = [q \in SemProcs |-> [sproc[q] EXCEPT !.undo.val = IF sproc[q].id = sproc[p].id THEN 0 ELSE @,
                                                     !.pc = IF q = p THEN "set1" ELSE @]]
    /\ UNCHANGED <<key, calls, forced>>
\* Mutant: SETALL, which also clears what processes would undo on the lock.
MutSetAll(p) ==
    /\ sproc[p].pc = "set1" /\ Live(sproc[p].id)
    /\ sems' = [sems EXCEPT ![sproc[p].id].cnt = BIGCOUNT]
    /\ sproc' = [q \in SemProcs |-> [sproc[q] EXCEPT !.undo = IF sproc[q].id = sproc[p].id THEN Ops(0, 0, 0) ELSE @,
                                                     !.pc = IF q = p THEN "end" ELSE @]]
    /\ UNCHANGED <<key, calls, forced>>

SetVal1(p) ==
    /\ sproc[p].pc = "set1" /\ Live(sproc[p].id)
    /\ sems' = [sems EXCEPT ![sproc[p].id].cnt = BIGCOUNT]
    /\ sproc' = [q \in SemProcs |-> [sproc[q] EXCEPT !.undo.cnt = IF sproc[q].id = sproc[p].id THEN 0 ELSE @,
                                                     !.pc = IF q = p THEN "end" ELSE @]]
    /\ UNCHANGED <<key, calls, forced>>

EndCreate(p) ==
    /\ sproc[p].pc = "end" /\ Live(sproc[p].id) /\ Set(p).cnt > 0
    /\ Semop(p, op_endcreate, "use")
    /\ UNCHANGED <<key, calls, forced>>

sem_create(p) == \/ CreateGet(p) \/ CreateLock(p) \/ CreateGetval(p) \/ SetVal0(p) \/ SetVal1(p) \/ EndCreate(p)
                 \/ Vanished(p, {"getval", "set0", "set1", "end"})

----------------------------------------------------------------------------
\* sem_open: semget without IPC_CREAT, then the counter, without the lock.
OpenGet(p) ==
    /\ sproc[p].pc = "none" /\ Call
    /\ sproc' = IF key = 0 THEN sproc ELSE [sproc EXCEPT ![p] = [Fresh EXCEPT !.pc = "open", !.id = key, !.by = "open"]]
    /\ UNCHANGED <<sems, key, forced>>

OpenCount(p) ==
    /\ sproc[p].pc = "open" /\ Live(sproc[p].id) /\ Set(p).cnt > 0
    /\ Semop(p, op_open, "use")
    /\ UNCHANGED <<key, calls, forced>>

sem_open(p) == OpenGet(p) \/ OpenCount(p) \/ Vanished(p, {"open"})

\* sem_op, called as sem_wait (-1) and as sem_signal (1).
sem_op(p, value, from, to) ==
    /\ sproc[p].pc = from /\ Live(sproc[p].id) /\ Set(p).val + value >= 0
    /\ Semop(p, Ops(value, 0, 0), to)
    /\ UNCHANGED <<key, calls, forced>>

sem_wait(p) == sem_op(p, -1, "use", "hold")
sem_signal(p) == sem_op(p, 1, "hold", "use")

\* IPC_RMID.
sem_rm(id) ==
    /\ sems' = [sems EXCEPT ![id].live = FALSE]
    /\ key' = IF key = id THEN 0 ELSE key

\* sem_close: the lock and the counter, in one semop.
CloseLock(p) ==
    /\ sproc[p].pc = "use" /\ Live(sproc[p].id) /\ Set(p).lock = 0
    /\ Semop(p, op_close, "closing")
    /\ UNCHANGED <<key, calls, forced>>

\* The counter is read: this was the last process, or it was not.
CloseGetval(p) ==
    /\ sproc[p].pc = "closing" /\ Live(sproc[p].id)
    /\ IF Set(p).cnt > BIGCOUNT
         THEN Exits(p)                     \* err_dump
         ELSE /\ Goto(p, IF Set(p).cnt = BIGCOUNT THEN "remove" ELSE "unlock")
              /\ UNCHANGED sems
    /\ UNCHANGED <<key, calls, forced>>

CloseEnds(p) ==
    /\ \/ /\ sproc[p].pc = "remove" /\ Live(sproc[p].id)
          /\ sem_rm(sproc[p].id)
          /\ sproc' = [sproc EXCEPT ![p] = Fresh]
       \/ /\ sproc[p].pc = "unlock" /\ Live(sproc[p].id)
          /\ Semop(p, op_unlock, "none")
          /\ UNCHANGED key
    /\ UNCHANGED <<calls, forced>>

sem_close(p) == CloseLock(p) \/ CloseGetval(p) \/ CloseEnds(p) \/ Vanished(p, {"use", "hold", "closing", "remove", "unlock"})

\* A server that is shut down removes the semaphore whoever uses it.
ServerRemoves(p) ==
    /\ sproc[p].pc = "use" /\ Live(sproc[p].id) /\ calls.exits < MaxExits
    /\ calls' = [calls EXCEPT !.exits = @ + 1]
    /\ sem_rm(sproc[p].id)
    /\ sproc' = [sproc EXCEPT ![p] = Fresh]
    /\ forced' = TRUE

SemStep(p) == sem_create(p) \/ sem_open(p) \/ sem_wait(p) \/ sem_signal(p) \/ sem_close(p)

SemNext == \E p \in SemProcs : SemStep(p) \/ ServerRemoves(p) \/ SemKill(p)

\* A process is scheduled once its system call can proceed; that it calls
\* anything at all, and waits for the semaphore again, is not assumed.
SemFairness == \A p \in SemProcs :
                 /\ WF_semVars((CreateLock(p) \/ CreateGetval(p) \/ SetVal0(p) \/ SetVal1(p) \/ EndCreate(p)
                               \/ Vanished(p, {"getval", "set0", "set1", "end"})))
                 /\ WF_semVars(CloseGetval(p) \/ CloseEnds(p) \/ Vanished(p, {"closing", "remove", "unlock"}))

SemSpec == SemInit /\ [][SemNext]_semVars /\ SemFairness

----------------------------------------------------------------------------
Users(id) == {p \in SemProcs : sproc[p].id = id /\ sproc[p].pc \in {"use", "hold"}}
Holders(id) == {p \in SemProcs : sproc[p].id = id /\ sproc[p].pc = "hold"}
Lockers(id) == {p \in SemProcs : sproc[p].id = id /\ sproc[p].pc \in {"getval", "set0", "set1", "end", "closing", "remove", "unlock"}}

\* The three members of a set tell the truth at every step, processes killed in
\* the middle of a call included: the counter is BIGCOUNT less the users, the
\* value is what the holders leave, and the lock is held by one process or by
\* none (sem_create initializes in two calls so as to keep the lock's undo).
SetCountsItsUsers ==
    \A id \in DOMAIN sems : Live(id) =>
       /\ sems[id].lock = Cardinality(Lockers(id)) /\ sems[id].lock <= 1
       /\ IF sems[id].cnt = 0
            THEN Users(id) = {}
            ELSE /\ sems[id].cnt = BIGCOUNT - Cardinality(Users(id))
                 /\ sems[id].val = InitVal - Cardinality(Holders(id))

\* A process that got the semaphore from sem_create keeps it until it closes
\* it: nobody removes the set, or creates another, under a creator.  (sem_open
\* gives no such promise: a closer that has read the counter removes the set
\* under a process that opened it since.)  Left out is a server's sem_rm.
CreatedSemaphoreStays ==
    ~forced => \A p \in SemProcs :
                  sproc[p].by = "create" /\ sproc[p].pc \in {"use", "hold", "closing"} => Live(sproc[p].id) /\ key = sproc[p].id

\* Through creation, use, removal and deaths the set tells how many use it, and
\* stays while a creator does.
SemaphoreIsSound == SetCountsItsUsers /\ CreatedSemaphoreStays

\* sem_create comes back: with the semaphore, or with an error that ends the
\* process.  Nobody keeps the lock, the processes killed with it included.
CreateReturns ==
    \A p \in SemProcs : (sproc[p].pc \in {"lock", "sleep"}) ~> (sproc[p].pc \notin {"lock", "sleep"})

============================================================================
