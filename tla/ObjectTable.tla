---------------------------- MODULE ObjectTable ----------------------------
(* threads/mutex1.c, mutex2.c and mutex3.c: reference counted objects.  In    *)
(* mutex1 an object's own lock protects its count; mutex2 adds a hash table   *)
(* with a lock of its own, so that foo_rele must drop the object's lock and   *)
(* look again; in mutex3 the table's lock protects the counts too.  The ids   *)
(* here share one chain of the table.  Threads call the functions in any      *)
(* order the contract allows: they hold and release what they have a          *)
(* reference to, and hand references to each other.                           *)
EXTENDS Naturals, Sequences, FiniteSets

CONSTANTS FooThreads,   \* the threads
          FooIds,       \* the ids of objects
          MaxFoos,      \* objects allocated
          MaxFooCalls   \* calls of foo_hold and foo_find

ASSUME ObjectTableAssumption == /\ IsFiniteSet(FooThreads) /\ FooThreads # {} /\ "nobody" \notin FooThreads
                                /\ MaxFoos \in Nat /\ MaxFooCalls \in Nat

VARIABLES version,   \* "mutex1", "mutex2" or "mutex3"
          foo,       \* foo[o]: an object: [f_id, f_count, f_lock, live, ready]
          fh,        \* the chain of the table, first object first
          hashlock,  \* the owner of the table's lock
          fthr,      \* fthr[t]: the call thread t is in: [pc, fp]
          frefs,     \* frefs[t][o]: references t has to o
          fcalls     \* calls so far

fooVars == <<version, foo, fh, hashlock, fthr, frefs, fcalls>>

Nobody == "nobody"
Foos == 1..MaxFoos
Idle == [pc |-> "idle", fp |-> 0]

FooInit ==
    /\ version = "none"
    /\ foo = <<>>
    /\ fh = <<>>
    /\ hashlock = Nobody
    /\ fthr = [t \in FooThreads |-> Idle]
    /\ frefs = [t \in FooThreads |-> [o \in Foos |-> 0]]
    /\ fcalls = 0

StartFoo == /\ version = "none" /\ version' \in {"mutex1", "mutex2", "mutex3"}
            /\ UNCHANGED <<foo, fh, hashlock, fthr, frefs, fcalls>>

Returns(t) == fthr' = [fthr EXCEPT ![t] = Idle]
GoesTo(t, pc, o) == fthr' = [fthr EXCEPT ![t] = [pc |-> pc, fp |-> o]]
Refers(t, o) == frefs' = [frefs EXCEPT ![t][o] = @ + 1]

NewFoo(id, ready) == Append(foo, [f_id |-> id, f_count |-> 1, f_lock |-> Nobody, live |-> TRUE, ready |-> ready])
CanAllocate(t) == fthr[t] = Idle /\ Len(foo) < MaxFoos /\ UNCHANGED <<version, fh, hashlock, fcalls>>

\* foo_alloc of mutex1 returns the object.
foo_alloc1(t, id) ==
    /\ version = "mutex1" /\ CanAllocate(t)
    /\ foo' = NewFoo(id, TRUE)
    /\ Refers(t, Len(foo) + 1)
    /\ UNCHANGED fthr

\* foo_alloc of mutex2 and of mutex3 up to pthread_mutex_lock(&hashlock).
foo_alloc(t, id) ==
    /\ version \in {"mutex2", "mutex3"} /\ CanAllocate(t)
    /\ foo' = NewFoo(id, FALSE)
    /\ GoesTo(t, "insert", Len(foo) + 1)
    /\ UNCHANGED frefs

\* The object enters the table and is locked before the table is unlocked.
AllocInserts(t) ==
    /\ fthr[t].pc = "insert" /\ hashlock = Nobody
    /\ LET o == fthr[t].fp
       IN  /\ fh' = <<o>> \o fh
           /\ foo' = [foo EXCEPT ![o].f_lock = t]
           /\ GoesTo(t, "initialize", o)
    /\ UNCHANGED <<version, hashlock, frefs, fcalls>>

AllocReturns(t) ==
    /\ fthr[t].pc = "initialize"
    /\ LET o == fthr[t].fp
       IN  /\ foo' = [foo EXCEPT ![o].ready = TRUE, ![o].f_lock = Nobody]
           /\ Refers(t, o)
    /\ Returns(t)
    /\ UNCHANGED <<version, fh, hashlock, fcalls>>

\* foo_hold: the object's lock protects f_count; in mutex3 the table's does.
Hold(t, o) ==
    /\ fthr[t] = Idle /\ frefs[t][o] > 0 /\ fcalls < MaxFooCalls
    /\ fcalls' = fcalls + 1
    /\ foo' = [foo EXCEPT ![o].f_count = @ + 1]
    /\ Refers(t, o)
    /\ UNCHANGED <<version, fh, hashlock, fthr>>

foo_hold(t, o) == version # "mutex3" /\ foo[o].f_lock = Nobody /\ Hold(t, o)
foo_hold3(t, o) == version = "mutex3" /\ hashlock = Nobody /\ Hold(t, o)

\* The program hands a reference to another thread.
HandOver(t, u, o) ==
    /\ t # u /\ fthr[t] = Idle /\ frefs[t][o] > 0
    /\ frefs' = [frefs EXCEPT ![t][o] = @ - 1, ![u][o] = @ + 1]
    /\ UNCHANGED <<version, foo, fh, hashlock, fthr, fcalls>>

Matches(id) == {i \in DOMAIN fh : foo[fh[i]].f_id = id}
Found(id) == fh[CHOOSE i \in Matches(id) : \A j \in Matches(id) : i <= j]
BeginFind(t) == /\ fthr[t] = Idle /\ fcalls < MaxFooCalls /\ hashlock = Nobody
                /\ fcalls' = fcalls + 1
                /\ UNCHANGED <<version, fh>>

\* foo_find of mutex2 keeps the table's lock and waits for the object's.
foo_find(t, id) ==
    /\ version = "mutex2" /\ BeginFind(t)
    /\ IF Matches(id) = {} THEN UNCHANGED <<hashlock, fthr>>
                           ELSE hashlock' = t /\ GoesTo(t, "find", Found(id))
    /\ UNCHANGED <<foo, frefs>>

foo_find3(t, id) ==
    /\ version = "mutex3" /\ BeginFind(t)
    /\ IF Matches(id) = {} THEN UNCHANGED <<foo, frefs>>
       ELSE LET o == Found(id)
            IN  foo' = [foo EXCEPT ![o].f_count = @ + 1] /\ Refers(t, o)
    /\ UNCHANGED <<hashlock, fthr>>

FindHolds(t) ==
    /\ fthr[t].pc = "find" /\ foo[fthr[t].fp].f_lock = Nobody
    /\ foo' = [foo EXCEPT ![fthr[t].fp].f_count = @ + 1]
    /\ Refers(t, fthr[t].fp)
    /\ hashlock' = Nobody
    /\ Returns(t)
    /\ UNCHANGED <<version, fh, fcalls>>

\* foo_rele gives a reference up.
Unlinked(o) == LET at == CHOOSE i \in DOMAIN fh : fh[i] = o
               IN  [i \in 1..(Len(fh) - 1) |-> IF i < at THEN fh[i] ELSE fh[i + 1]]

GiveUp(t, o) == /\ fthr[t] = Idle /\ frefs[t][o] > 0
                /\ frefs' = [frefs EXCEPT ![t][o] = @ - 1]
                /\ UNCHANGED <<version, hashlock, fcalls>>
CountDown(o) == foo' = [foo EXCEPT ![o].f_count = @ - 1]
Last(o) == foo[o].f_count = 1

foo_rele1(t, o) ==
    /\ version = "mutex1" /\ foo[o].f_lock = Nobody /\ GiveUp(t, o)
    /\ CountDown(o)
    /\ IF Last(o) THEN GoesTo(t, "free", o) ELSE UNCHANGED fthr
    /\ UNCHANGED fh

\* In mutex2 the last one unlocks the object before it locks the table.
foo_rele(t, o) ==
    /\ version = "mutex2" /\ foo[o].f_lock = Nobody /\ GiveUp(t, o)
    /\ IF Last(o) THEN GoesTo(t, "hashlock", o) /\ UNCHANGED foo
                  ELSE CountDown(o) /\ UNCHANGED fthr
    /\ UNCHANGED fh

foo_rele3(t, o) ==
    /\ version = "mutex3" /\ hashlock = Nobody /\ GiveUp(t, o)
    /\ CountDown(o)
    /\ IF Last(o) THEN fh' = Unlinked(o) /\ GoesTo(t, "free", o)
                  ELSE UNCHANGED <<fh, fthr>>

ReleLocksTable(t) ==
    /\ fthr[t].pc = "hashlock" /\ hashlock = Nobody
    /\ hashlock' = t
    /\ GoesTo(t, "recheck", fthr[t].fp)
    /\ UNCHANGED <<version, foo, fh, frefs, fcalls>>
\* Mutant: the count is not looked at again.
MutNoRecheck(t) ==
    /\ fthr[t].pc = "recheck" /\ foo[fthr[t].fp].f_lock = Nobody
    /\ fh' = Unlinked(fthr[t].fp)
    /\ foo' = [foo EXCEPT ![fthr[t].fp].live = FALSE]
    /\ Returns(t)
    /\ hashlock' = Nobody
    /\ UNCHANGED <<version, frefs, fcalls>>

\* The condition is checked again under both locks.
ReleRechecks(t) ==
    /\ fthr[t].pc = "recheck" /\ foo[fthr[t].fp].f_lock = Nobody
    /\ LET o == fthr[t].fp
       IN  IF foo[o].f_count # 1
             THEN /\ foo' = [foo EXCEPT ![o].f_count = @ - 1]
                  /\ Returns(t)
                  /\ UNCHANGED fh
             ELSE /\ fh' = Unlinked(o)
                  /\ GoesTo(t, "free", o)
                  /\ UNCHANGED foo
    /\ hashlock' = Nobody
    /\ UNCHANGED <<version, frefs, fcalls>>

ReleFrees(t) ==
    /\ fthr[t].pc = "free"
    /\ foo' = [foo EXCEPT ![fthr[t].fp].live = FALSE]
    /\ Returns(t)
    /\ UNCHANGED <<version, fh, hashlock, frefs, fcalls>>

\* The rest of a call that has begun.
FooGoesOn(t) == AllocInserts(t) \/ AllocReturns(t) \/ FindHolds(t) \/ ReleLocksTable(t) \/ ReleRechecks(t) \/ ReleFrees(t)

FooNext == \/ StartFoo
           \/ \E t \in FooThreads :
                 \/ FooGoesOn(t)
                 \/ \E id \in FooIds : foo_alloc1(t, id) \/ foo_alloc(t, id) \/ foo_find(t, id) \/ foo_find3(t, id)
                 \/ \E o \in DOMAIN foo :
                       \/ foo_hold(t, o) \/ foo_hold3(t, o)
                       \/ foo_rele1(t, o) \/ foo_rele(t, o) \/ foo_rele3(t, o)
                       \/ \E u \in FooThreads : HandOver(t, u, o)

\* A thread that can take the lock it waits for does; the calls are finite.
FooFairness == \A t \in FooThreads : WF_fooVars(FooGoesOn(t))

FooSpec == FooInit /\ [][FooNext]_fooVars /\ FooFairness

----------------------------------------------------------------------------
\* The threads inside foo_rele that have not counted their reference down yet.
Releasing(o) == {t \in FooThreads : fthr[t].fp = o /\ fthr[t].pc \in {"hashlock", "recheck"}}

\* The references to o outside the functions, the threads that are making o, and
\* those that are freeing it.
References(o) == {p \in FooThreads \X (1..(MaxFooCalls + MaxFoos)) : p[2] <= frefs[p[1]][o]}
Inserting(o) == {t \in FooThreads : fthr[t].fp = o /\ fthr[t].pc \in {"insert", "initialize"}}
Freeing(o) == {t \in FooThreads : fthr[t].fp = o /\ fthr[t].pc = "free"}

\* Nobody uses a freed object: what a thread has a reference to, is finding or
\* is releasing is live, and so is everything in the table, although foo_rele
\* of mutex2 lets go of every lock between its two checks.
NoUseAfterFree ==
    \A t \in FooThreads :
       /\ fthr[t].fp # 0 => foo[fthr[t].fp].live
       /\ \A o \in DOMAIN foo : frefs[t][o] > 0 => foo[o].live
       /\ \A i \in DOMAIN fh : foo[fh[i]].live

\* f_count is the number of references there are, and an object leaves the
\* table exactly when the last is given up: it is neither freed early nor kept.
CountIsExact ==
    \A o \in DOMAIN foo : foo[o].live =>
       LET refs == Cardinality(Releasing(o)) + Cardinality(References(o))
       IN  IF Freeing(o) # {} THEN refs = 0 /\ Cardinality(Freeing(o)) = 1 /\ \A i \in DOMAIN fh : fh[i] # o
           ELSE /\ foo[o].f_count = refs + Cardinality(Inserting(o)) /\ foo[o].f_count > 0
                /\ version # "mutex1" /\ (\A t \in Inserting(o) : fthr[t].pc # "insert") =>
                      Cardinality({i \in DOMAIN fh : fh[i] = o}) = 1

\* foo_find of mutex2 returns only objects whose initialization is complete: it
\* waits for the object's lock inside the table's.  (mutex3 does not: its
\* callers must lock the object.)
FoundIsInitialized ==
    version = "mutex2" => \A t \in FooThreads, o \in DOMAIN foo : frefs[t][o] > 0 => foo[o].ready

\* An object lives exactly as long as somebody refers to it, whatever the threads
\* do between the locks of foo_find and foo_rele, and is found when it is ready.
ReferencesAreSound == NoUseAfterFree /\ CountIsExact /\ FoundIsInitialized

\* Every call returns: the two locks are never waited for in a circle.
FooCallsReturn == \A t \in FooThreads : (fthr[t] # Idle) ~> (fthr[t] = Idle)

============================================================================
