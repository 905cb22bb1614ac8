------------------------------ MODULE JobQueue ------------------------------
(* threads/rwlock.c: a queue of jobs in a doubly linked list under a          *)
(* readers-writer lock.  Masters insert jobs at the head and append them at   *)
(* the tail; a worker looks for the jobs with its id and removes them.  The   *)
(* list is modelled pointer by pointer.                                       *)
EXTENDS Naturals, Sequences, FiniteSets

CONSTANTS JobMasters, JobWorkers,   \* the threads
          MaxJobs                   \* jobs in all

ASSUME JobQueueAssumption == /\ MaxJobs \in Nat /\ IsFiniteSet(JobMasters) /\ IsFiniteSet(JobWorkers)
                             /\ "nobody" \notin JobMasters \cup JobWorkers

VARIABLES q,        \* [q_head, q_tail], 0 for NULL
          job,      \* job[j]: [j_next, j_prev, j_id]
          q_lock,   \* [writer, readers]
          jthr,     \* jthr[t]: [pc, jp], the call t is in and its local pointer
          queued    \* the jobs that were put into the queue and not taken out

jobVars == <<q, job, q_lock, jthr, queued>>

JobThreads == JobMasters \cup JobWorkers
NULL == 0
NoWriter == "nobody"
NoCall == [pc |-> "idle", jp |-> NULL]

JobInit ==
    /\ q = [q_head |-> NULL, q_tail |-> NULL]
    /\ job = <<>>
    /\ q_lock = [writer |-> NoWriter, readers |-> {}]
    /\ jthr = [t \in JobThreads |-> NoCall]
    /\ queued = {}

CanWrite == q_lock.writer = NoWriter /\ q_lock.readers = {}
WrLock(t) == CanWrite /\ q_lock' = [q_lock EXCEPT !.writer = t]
RdLock(t) == q_lock.writer = NoWriter /\ q_lock' = [q_lock EXCEPT !.readers = @ \cup {t}]
Unlock1(t) == q_lock' = [writer |-> IF q_lock.writer = t THEN NoWriter ELSE q_lock.writer, readers |-> q_lock.readers \ {t}]

Call1(t, pc, jp) == jthr' = [jthr EXCEPT ![t] = [pc |-> pc, jp |-> jp]]
Return1(t) == jthr' = [jthr EXCEPT ![t] = NoCall]

\* A master makes a job and calls job_insert or job_append: the lock is taken
\* and the job's own pointers are set.
PutLinksJob(t, id, how) ==
    /\ jthr[t] = NoCall /\ Len(job) < MaxJobs
    /\ WrLock(t)
    /\ job' = Append(job, IF how = "insert" THEN [j_next |-> q.q_head, j_prev |-> NULL, j_id |-> id]
                                            ELSE [j_next |-> NULL, j_prev |-> q.q_tail, j_id |-> id])
    /\ Call1(t, how, Len(job) + 1)
    /\ UNCHANGED <<q, queued>>

\* job_insert: the list's pointers.
job_insert(t) ==
    /\ jthr[t].pc = "insert"
    /\ LET jp == jthr[t].jp
       IN  /\ IF q.q_head # NULL
                THEN /\ job' = [job EXCEPT ![q.q_head].j_prev = jp]
                     /\ q' = [q EXCEPT !.q_head = jp]
                ELSE /\ q' = [q_head |-> jp, q_tail |-> jp]
                     /\ UNCHANGED job
           /\ queued' = queued \cup {jp}
    /\ Unlock1(t)
    /\ Return1(t)

job_append(t) ==
    /\ jthr[t].pc = "append"
    /\ LET jp == jthr[t].jp
       IN  /\ IF q.q_tail # NULL
                THEN /\ job' = [job EXCEPT ![q.q_tail].j_next = jp]
                     /\ q' = [q EXCEPT !.q_tail = jp]
                ELSE /\ q' = [q_head |-> jp, q_tail |-> jp]
                     /\ UNCHANGED job
           /\ queued' = queued \cup {jp}
    /\ Unlock1(t)
    /\ Return1(t)
\* Mutant: the list is walked without the lock.
MutFindUnlocked(t) ==
    /\ jthr[t] = NoCall
    /\ Call1(t, "find", q.q_head)
    /\ UNCHANGED <<q, job, q_lock, queued>>

\* job_find walks the list under the read lock, job by job.  (If the lock cannot
\* be had it returns NULL at once, which changes nothing.)
FindLocks(t) ==
    /\ jthr[t] = NoCall
    /\ RdLock(t)
    /\ Call1(t, "find", q.q_head)
    /\ UNCHANGED <<q, job, queued>>

job_find(t) ==
    /\ jthr[t].pc = "find"
    /\ LET jp == jthr[t].jp
       IN  IF jp = NULL \/ (jp # NULL /\ job[jp].j_id = t)
             THEN Unlock1(t) /\ (IF jp = NULL THEN Return1(t) ELSE Call1(t, "found", jp))
             ELSE Call1(t, "find", job[jp].j_next) /\ UNCHANGED q_lock
    /\ UNCHANGED <<q, job, queued>>

\* job_remove of the job that was found: the lock first, then the pointers.
RemoveLocks(t) ==
    /\ jthr[t].pc = "found"
    /\ WrLock(t)
    /\ Call1(t, "remove", jthr[t].jp)
    /\ UNCHANGED <<q, job, queued>>

job_remove(t) ==
    /\ jthr[t].pc = "remove"
    /\ LET jp == jthr[t].jp
           next == job[jp].j_next
           prev == job[jp].j_prev
       IN  /\ IF jp = q.q_head
                THEN /\ q' = [q_head |-> next, q_tail |-> IF q.q_tail = jp THEN NULL ELSE q.q_tail]
                     /\ job' = IF q.q_tail = jp THEN job ELSE [job EXCEPT ![next].j_prev = prev]
                ELSE IF jp = q.q_tail
                  THEN /\ q' = [q EXCEPT !.q_tail = prev]
                       /\ job' = [job EXCEPT ![prev].j_next = next]
                  ELSE /\ job' = [job EXCEPT ![prev].j_next = next, ![next].j_prev = prev]
                       /\ UNCHANGED q
           /\ queued' = queued \ {jp}
    /\ Unlock1(t)
    /\ Return1(t)

JobGoesOn(t) == job_insert(t) \/ job_append(t) \/ job_find(t) \/ RemoveLocks(t) \/ job_remove(t)

JobNext == \/ \E t \in JobMasters, id \in JobWorkers, how \in {"insert", "append"} : PutLinksJob(t, id, how)
           \/ \E t \in JobWorkers : FindLocks(t)
           \/ \E t \in JobThreads : JobGoesOn(t)

JobSpec == JobInit /\ [][JobNext]_jobVars

----------------------------------------------------------------------------
\* An order of the queued jobs, and the i-th of them or the NULL at either end.
Orders == [1..Cardinality(queued) -> queued]
AtPos(w, i) == IF i \in DOMAIN w THEN w[i] ELSE NULL

\* w is the list: from the head along j_next it has exactly the jobs that were put
\* in and not taken out, each once, it ends at the tail, and j_prev is the same
\* list backwards.
IsList(w) ==
    /\ \A j \in queued : \E i \in DOMAIN w : w[i] = j
    /\ q.q_head = AtPos(w, 1) /\ q.q_tail = AtPos(w, Cardinality(queued))
    /\ \A i \in DOMAIN w : job[w[i]].j_next = AtPos(w, i + 1) /\ job[w[i]].j_prev = AtPos(w, i - 1)

\* Outside the functions that write, the list is whole.
ListIsWhole == q_lock.writer = NoWriter => \E w \in Orders : IsList(w)

\* A worker removes only jobs that are in the queue: what it found stays there,
\* though it has let go of the read lock before it takes the write lock.
FoundStaysQueued ==
    \A t \in JobWorkers : jthr[t].pc \in {"found", "remove"} => jthr[t].jp \in queued

\* A worker that is looking does not pass its jobs by: what is ahead of it on
\* the list, from its local pointer on, are all the queued jobs with its id.
WalkMissesNothing ==
    \A t \in JobWorkers : jthr[t].pc = "find" =>
       \E w \in Orders : /\ IsList(w)
                         /\ \E k \in 1..(Cardinality(queued) + 1) :
                               jthr[t].jp = AtPos(w, k) /\ \A i \in 1..(k - 1) : job[w[i]].j_id # t

\* The queue and what the workers know of it agree, between and inside the calls
\* of the masters and of the other workers.
QueueIsSound == ListIsWhole /\ FoundStaysQueued /\ WalkMissesNothing

============================================================================
