------------------------------- MODULE DbProofs -------------------------------
(***************************************************************************)
(* Proofs about the database library (Db), for any processes, keys, data,  *)
(* hash function and files that Databases allows: the hash chains hold the *)
(* records (ChainsHoldTheRecords), the files are well formed               *)
(* (FilesAreWellFormed), db_nextrec gives records and a scan is complete   *)
(* (ScansAreRight), the library implements Dictionary                      *)
(* (ImplementsDictionary), and the calls never all wait for locks.         *)
(***************************************************************************)
EXTENDS Db, FiniteSetTheorems, SequenceTheorems, WellFoundedInduction, TLAPS

-----------------------------------------------------------------------------
(* The state of a process, and what each step of a call is for. *)

DbRecord == [ptroff : Nat, next : Nat, idxoff : Nat, ptrval : Nat, datoff : Nat,
             datlen : Nat, link : Nat, pos : {Lost} \cup {o \in Nat : o > NHash}]
Types == TypeOK /\ db \in [Procs -> DbRecord] /\ result = [q \in Procs |-> result[q]]

Key(o) == Record(o).key
Datoff(o) == Record(o).datoff
Stores == {"insert", "replace", "store"}

Holding == {"readdat", "delete", "blank", "overwrite"}
Cutting == {"free", "unchain"}
Reusing == {"reusedat", "reuseidx"}
Adding == {"findfree", "freewalk"} \cup Reusing \cup Appending
Chaining == {"walk"} \cup Holding \cup Cutting \cup Adding
Reading == {"next", "nextdat"}
Outside == {"closed", "stat", "init", "idle", "dead", "aborted"}

\* The process holds the lock of a chain, or that of the free list for reading.
OnChain(q) == pc[q] \in Chaining \/ (pc[q] = "unlock" /\ call[q].op # "nextrec")
OnRecords(q) == pc[q] \in Reading \/ (pc[q] = "unlock" /\ call[q].op = "nextrec")
Mode(q) == IF call[q].op = "fetch" THEN "r" ELSE "w"

\* Which call a process can be in at each step.
InCallOf(q) ==
    /\ pc[q] \in {"closed", "stat", "init", "idle"} => call[q] = NoCall
    /\ pc[q] \notin {"unlock", "aborted"} => result[q] = NONE
    /\ OnChain(q) => call[q].key \in Keys /\ call[q].op # "nextrec" /\ steady[q] = {}
    /\ call[q].op \in Stores => call[q].data \in Data
    /\ pc[q] = "readdat" => call[q].op = "fetch"
    /\ pc[q] \in {"delete", "blank"} \cup Cutting => call[q].op \in {"delete", "replace", "store"}
    /\ pc[q] = "overwrite" => call[q].op \in {"replace", "store"}
    /\ pc[q] \in {"findfree", "freewalk"} \cup Reusing => call[q].op \in {"insert", "store"}
    /\ pc[q] \in Appending => call[q].op \in Stores
    /\ OnRecords(q) => call[q].op = "nextrec"
    /\ pc[q] \in {"closed", "stat", "init"} => ~scanning[q]
    /\ pc[q] \in Reading => scanning[q]
Protocol == \A q \in Procs : InCallOf(q)

\* Who has which lock; locks of two processes exclude each other.
Exclusive == \A l, m \in locks : l[2] = m[2] /\ l[1] # m[1] => l[3] = "r" /\ m[3] = "r"
LocksOf(q) ==
    /\ OnChain(q) => <<q, Chain(q), Mode(q)>> \in locks
    /\ pc[q] \in {"blank", "freewalk", "init"} \cup Cutting => <<q, FREE_OFF, "w">> \in locks
    /\ OnRecords(q) => <<q, FREE_OFF, "r">> \in locks
    /\ pc[q] = "datwrite" => <<q, DatFile, "w">> \in locks
    /\ pc[q] = "idxwrite" => <<q, IdxEnd, "w">> \in locks
Locking == Exclusive /\ \A q \in Procs : LocksOf(q)

\* The database is not there yet, or just truncated.
Fresh ==
    /\ rec = <<>> /\ dat = <<>> /\ kv = [k \in Keys |-> NONE]
    /\ \A q \in Procs : pc[q] \in {"closed", "stat", "init", "dead"}

-----------------------------------------------------------------------------
(* The lists.  s, rk and lp witness them: see Lists.  lp has the pointers as *)
(* they will be when a record that is being deleted is off its chain.        *)

Unlinking(q) == pc[q] \in Cutting

Agree(lp) ==
    /\ \A m \in 0..(NHash + Len(rec)) : (\A q \in Procs : Unlinking(q) => db[q].ptroff # m) => lp[m] = _db_readptr(m)
    /\ \A q \in Procs : Unlinking(q) => lp[db[q].ptroff] = db[q].ptrval

\* A record whose key is about to be stored again is off its chain already.
Replacing(q) == pc[q] \in Cutting \cup Appending /\ call[q].op # "insert"

Contents(s) ==
    /\ \A o \in s[0] : Key(o) = BLANK
    /\ \A c \in 1..NHash : \A o \in s[c] :
          /\ Key(o) \in Keys /\ Hash[Key(o)] = c /\ kv[Key(o)] # NONE
          /\ dat[Datoff(o)] = kv[Key(o)] \/ \E q \in Procs : pc[q] = "blank" /\ db[q].idxoff = o
          /\ \A o2 \in s[c] : Key(o2) = Key(o) => o2 = o
    /\ \A k \in Keys : kv[k] # NONE => \/ \E o \in s[Hash[k]] : Key(o) = k
                                       \/ \E q \in Procs : Replacing(q) /\ call[q].key = k

\* A record that is on no list is in somebody's hands, unless a process died.
InHand(q) == pc[q] \in {"free", "link"} \cup Reusing

Hands(s) ==
    \A q \in Procs : InHand(q) =>
        /\ db[q].idxoff \in Items(Len(rec)) /\ \A c \in 0..NHash : db[q].idxoff \notin s[c]
        /\ \A r \in Procs : InHand(r) /\ db[r].idxoff = db[q].idxoff => r = q

NoDead == \A q \in Procs : pc[q] # "dead"

\* Places in the data file belong to one record, or are reserved for one.
Reserving(q) == pc[q] \in {"idxseek", "idxwrite"}

Space(s) ==
    /\ \A o \in Items(Len(rec)) : Datoff(o) \in 1..Len(dat)
    /\ \A o, o2 \in Items(Len(rec)) : Datoff(o) = Datoff(o2) => o = o2
    /\ \A q \in Procs : Reserving(q) =>
          /\ db[q].datoff \in 1..Len(dat)
          /\ \A o \in Items(Len(rec)) : Datoff(o) # db[q].datoff
          /\ \A r \in Procs : Reserving(r) /\ db[r].datoff = db[q].datoff => r = q
    /\ NoDead => /\ \A o \in Items(Len(rec)) : \/ \E c \in 0..NHash : o \in s[c]
                                               \/ \E q \in Procs : InHand(q) /\ db[q].idxoff = o
                 /\ \A d \in 1..Len(dat) : \/ \E o \in Items(Len(rec)) : Datoff(o) = d
                                           \/ \E q \in Procs : Reserving(q) /\ db[q].datoff = d

\* A record with a key is on its chain, or its db_store has yet to link it.
Named(s) ==
    \A o \in Items(Len(rec)) : Key(o) # BLANK =>
        \/ o \in s[Hash[Key(o)]]
        \/ \E q \in Procs : /\ pc[q] \in {"link", "dead"} /\ db[q].idxoff = o
                            /\ call[q].op \in Stores /\ call[q].key = Key(o) /\ call[q].data = dat[Datoff(o)]

-----------------------------------------------------------------------------
(* Where a process is in the files. *)

Position(q, s, rk, lp) ==
    LET d == db[q]
        k == call[q].key
        c == Chain(q)
    IN
    /\ pc[q] \in {"walk"} \cup Holding \cup Cutting => d.ptroff \in {c} \cup s[c]
    /\ pc[q] = "walk" => lp[d.ptroff] = d.next /\ \A o \in s[c] : Key(o) = k => rk[o] < rk[d.ptroff]
    /\ pc[q] \in Holding => /\ d.idxoff \in s[c] /\ lp[d.ptroff] = d.idxoff /\ lp[d.idxoff] = d.ptrval
                            /\ Key(d.idxoff) = k /\ d.datoff = Datoff(d.idxoff)
    /\ pc[q] = "free" => Record(d.idxoff).ptr = table[FREE_OFF]
    /\ pc[q] \in Cutting \cup Adding => \A o \in s[c] : Key(o) # k
    /\ pc[q] \in Cutting \/ (pc[q] \in Appending /\ call[q].op = "replace") => kv[k] # NONE
    /\ pc[q] \in Adding => d.link = table[c]
    /\ pc[q] = "freewalk" => d.ptroff \in {FREE_OFF} \cup s[FREE_OFF] /\ lp[d.ptroff] = d.next
    /\ pc[q] \in {"free"} \cup Reusing => Key(d.idxoff) = BLANK
    /\ pc[q] \in Reusing => d.datoff = Datoff(d.idxoff)
    /\ pc[q] = "datwrite" => d.datoff = Len(dat) + 1
    /\ pc[q] \in {"reuseidx", "idxseek", "idxwrite"} => dat[d.datoff] = call[q].data
    /\ pc[q] = "idxwrite" => d.idxoff = NHash + Len(rec) + 1
    /\ pc[q] = "link" => /\ Record(d.idxoff).ptr = d.link /\ Key(d.idxoff) = k
                         /\ dat[Datoff(d.idxoff)] = call[q].data
    /\ pc[q] = "nextdat" => /\ d.pos - 1 \in Items(Len(rec)) /\ Key(d.pos - 1) = k /\ k \in Keys
                            /\ d.datoff = Datoff(d.pos - 1)

\* What a scan has seen: of the records nobody touched, those before its position.
Scan(q, s) ==
    scanning[q] /\ pc[q] \notin {"dead", "aborted"} =>
        \A k \in steady[q] :
            /\ \A r \in Procs : call[r].key = k => call[r].op \in {"fetch", "nextrec"}
            /\ kv[k] # NONE
            /\ \E o \in s[Hash[k]] :
                  /\ Key(o) = k /\ db[q].pos # Lost
                  /\ (k \in seen[q]) = (o < IF pc[q] = "nextdat" THEN db[q].pos - 1 ELSE db[q].pos)

Typed(s, rk, lp, n) ==
    /\ s \in [0..NHash -> SUBSET Items(n)]
    /\ rk \in [0..(NHash + n) -> Nat] /\ lp \in [0..(NHash + n) -> Nat]

Shape(s, rk, lp) ==
    /\ Typed(s, rk, lp, Len(rec)) /\ Lists(lp, s, rk, Len(rec))
    /\ Agree(lp) /\ Contents(s) /\ Hands(s) /\ Space(s) /\ Named(s)
    /\ \A q \in Procs : Position(q, s, rk, lp)
    /\ \A q \in Procs : Scan(q, s)

DbInv ==
    /\ Types /\ Protocol /\ Locking
    /\ IF table = <<>> THEN Fresh ELSE /\ \A q \in Procs : pc[q] # "init"
                                       /\ \E s, rk, lp : Shape(s, rk, lp)
-----------------------------------------------------------------------------
(* A step of one process, and what the others keep of their calls and locks. *)

Others(p) ==
    \A q \in Procs : q # p =>
        /\ pc'[q] = pc[q] /\ call'[q] = call[q] /\ db'[q] = db[q] /\ result'[q] = result[q]
        /\ scanning'[q] = scanning[q] /\ seen'[q] = seen[q] /\ steady'[q] \subseteq steady[q]

LockSet == SUBSET (Procs \X (0..DatFile) \X {"r", "w"})
Takes(p) ==
    /\ locks' \in LockSet
    /\ \A l \in locks : l[1] # p => l \in locks'
    /\ \A l \in locks' : l \in locks \/ (l[1] = p /\ CanLock(p, l[2], l[3]))

\* A step of another process leaves a process at its place in its call (db_fetch
\* and the other calls of db.c, which share no memory).
LEMMA ProtocolKept ==
    ASSUME Protocol, NEW p \in Procs, Others(p), InCallOf(p)'
    PROVE  Protocol'
<1> SUFFICES ASSUME NEW q \in Procs PROVE InCallOf(q)'
  BY DEF Protocol
<1>1. CASE q = p
  BY <1>1
<1>2. CASE q # p
  <2>1. /\ pc'[q] = pc[q] /\ call'[q] = call[q] /\ result'[q] = result[q]
        /\ scanning'[q] = scanning[q] /\ steady'[q] \subseteq steady[q]
    BY <1>2 DEF Others
  <2>2. InCallOf(q)
    BY DEF Protocol
  <2> QED
    BY <2>1, <2>2 DEF InCallOf, OnChain, OnRecords
<1> QED
  BY <1>1, <1>2

\* fcntl gives a process the locks it asks for (lock_reg, lib/lockreg.c) while
\* the others keep theirs.
LEMMA LockingKept ==
    ASSUME Locking, NEW p \in Procs, Others(p), Takes(p), LocksOf(p)'
    PROVE  Locking'
<1>1. Exclusive'
  <2> SUFFICES ASSUME NEW l \in locks', NEW m \in locks', l[2] = m[2], l[1] # m[1]
               PROVE  l[3] = "r" /\ m[3] = "r"
    BY DEF Exclusive
  <2>1. Exclusive
    BY DEF Locking
  <2>2. CASE l \in locks /\ m \in locks
    BY <2>1, <2>2 DEF Exclusive
  <2>3. CASE l \notin locks
    <3>1. l[1] = p /\ CanLock(p, l[2], l[3])
      BY <2>3 DEF Takes
    <3>2. m \in locks
      BY <3>1 DEF Takes
    <3> QED
      BY <3>1, <3>2 DEF CanLock
  <2>4. CASE m \notin locks
    <3>1. m[1] = p /\ CanLock(p, m[2], m[3])
      BY <2>4 DEF Takes
    <3>2. l \in locks
      BY <3>1 DEF Takes
    <3> QED
      BY <3>1, <3>2 DEF CanLock
  <2> QED
    BY <2>2, <2>3, <2>4
<1>2. ASSUME NEW q \in Procs PROVE LocksOf(q)'
  <2>1. CASE q = p
    BY <2>1
  <2>2. CASE q # p
    <3>1. pc'[q] = pc[q] /\ call'[q] = call[q] /\ db'[q] = db[q]
      BY <2>2 DEF Others
    <3>2. LocksOf(q)
      BY DEF Locking
    <3>3. \A what, mode : <<q, what, mode>> \in locks => <<q, what, mode>> \in locks'
      BY <2>2 DEF Takes
    <3>4. (OnChain(q))' = OnChain(q) /\ (OnRecords(q))' = OnRecords(q)
          /\ (Chain(q))' = Chain(q) /\ (Mode(q))' = Mode(q)
      BY <3>1 DEF OnChain, OnRecords, Chain, Mode
    <3> QED
      BY <3>1, <3>2, <3>3, <3>4 DEF LocksOf
  <2> QED
    BY <2>1, <2>2
<1> QED
  BY <1>1, <1>2 DEF Locking

\* What lock_reg takes (lib/lockreg.c).
LEMMA LockTaken ==
    ASSUME Types, NEW p \in Procs, NEW what \in 0..DatFile, NEW mode \in {"r", "w"}, Lock(p, what, mode)
    PROVE  Takes(p) /\ <<p, what, mode>> \in locks' /\ \A l \in locks : l \in locks'
BY DEF Lock, Takes, Types, TypeOK, LockSet

\* un_lock (lib/lockreg.c).
LEMMA LockReleased ==
    ASSUME Types, NEW p, NEW what, Release(p, what)
    PROVE  Takes(p) /\ \A l \in locks : l[2] # what => l \in locks'
BY DEF Release, Takes, Types, TypeOK, LockSet

\* A process that ends leaves no locks (fcntl).
LEMMA AllReleased == ASSUME Types, NEW p, ReleaseAll(p) PROVE Takes(p)
BY DEF ReleaseAll, Takes, Types, TypeOK, LockSet

\* A step without lock_reg.
LEMMA LocksStay == ASSUME Types, NEW p, UNCHANGED locks PROVE Takes(p) /\ locks' = locks
BY DEF Takes, Types, TypeOK, LockSet

\* Two processes do not hold one lock, unless both hold it for reading.
LEMMA Excluded ==
    ASSUME Locking, NEW p, NEW q, p # q, NEW what, NEW mode,
           <<p, what, "w">> \in locks, <<q, what, mode>> \in locks
    PROVE  FALSE
BY DEF Locking, Exclusive
-----------------------------------------------------------------------------
(* What a step of p has to leave alone for another process to stay where it  *)
(* is in the files, and for its scan to stay right.                          *)

SameList(c, s, rk, lp, s2, rk2, lp2) ==
    s2[c] = s[c] /\ \A m \in {c} \cup s[c] : lp2[m] = lp[m] /\ rk2[m] = rk[m]

Undisturbed(q, s, rk, lp, s2, rk2, lp2) ==
    /\ pc[q] \in Chaining => /\ SameList(Chain(q), s, rk, lp, s2, rk2, lp2)
                             /\ table'[Chain(q)] = table[Chain(q)]
                             /\ kv'[call[q].key] = kv[call[q].key]
                             /\ \A o \in s[Chain(q)] : Key(o)' = Key(o) /\ Datoff(o)' = Datoff(o)
    /\ pc[q] = "freewalk" => SameList(FREE_OFF, s, rk, lp, s2, rk2, lp2)
    /\ pc[q] = "free" => table'[FREE_OFF] = table[FREE_OFF]
    /\ InHand(q) => rec'[db[q].idxoff - NHash] = rec[db[q].idxoff - NHash]
    /\ pc[q] \in {"reuseidx", "idxseek", "idxwrite"} => dat'[db[q].datoff] = dat[db[q].datoff]
    /\ pc[q] = "link" => dat'[Datoff(db[q].idxoff)] = dat[Datoff(db[q].idxoff)]
    /\ pc[q] = "datwrite" => Len(dat') = Len(dat)
    /\ pc[q] = "idxwrite" => Len(rec') = Len(rec)
    /\ pc[q] = "nextdat" => /\ Items(Len(rec)) \subseteq Items(Len(rec'))
                            /\ rec'[db[q].pos - 1 - NHash].key = Key(db[q].pos - 1)
                            /\ rec'[db[q].pos - 1 - NHash].datoff = Datoff(db[q].pos - 1)

\* A process stays where it is in the files when nobody touches its list and its
\* record: what the locks of db.c are for.
LEMMA PositionKept ==
    ASSUME NEW q, NEW s, NEW rk, NEW lp, NEW s2, NEW rk2, NEW lp2, Position(q, s, rk, lp),
           Undisturbed(q, s, rk, lp, s2, rk2, lp2),
           pc'[q] = pc[q] /\ call'[q] = call[q] /\ db'[q] = db[q]
    PROVE  Position(q, s2, rk2, lp2)'
<1> DEFINE d == db[q]
           k == call[q].key
           c == Chain(q)
<1>1. c' = c
  BY DEF Chain
<1>2. pc[q] \in {"walk"} \cup Holding \cup Cutting => d.ptroff \in {c} \cup s2[c]
  BY DEF Position, Undisturbed, SameList, Chaining
<1>3. pc[q] = "walk" => lp2[d.ptroff] = d.next /\ \A o \in s2[c] : Key(o)' = k => rk2[o] < rk2[d.ptroff]
  BY DEF Position, Undisturbed, SameList, Chaining
<1>4. pc[q] \in Holding => /\ d.idxoff \in s2[c] /\ lp2[d.ptroff] = d.idxoff /\ lp2[d.idxoff] = d.ptrval
                           /\ rec'[d.idxoff - NHash].key = k /\ d.datoff = rec'[d.idxoff - NHash].datoff
  BY DEF Position, Undisturbed, SameList, Chaining, Key, Datoff, Record
<1>5. pc[q] = "free" => rec'[d.idxoff - NHash].ptr = table'[FREE_OFF]
  BY DEF Position, Undisturbed, Record, InHand
<1>6. pc[q] \in Cutting \cup Adding => \A o \in s2[c] : Key(o)' # k
  BY DEF Position, Undisturbed, SameList, Chaining
<1>7. pc[q] \in Cutting \/ (pc[q] \in Appending /\ call[q].op = "replace") => kv'[k] # NONE
  BY DEF Position, Undisturbed, Chaining, Adding
<1>8. pc[q] \in Adding => d.link = table'[c]
  BY DEF Position, Undisturbed, Chaining
<1>9. pc[q] = "freewalk" => d.ptroff \in {FREE_OFF} \cup s2[FREE_OFF] /\ lp2[d.ptroff] = d.next
  BY DEF Position, Undisturbed, SameList
<1>10. pc[q] \in {"free"} \cup Reusing => rec'[d.idxoff - NHash].key = BLANK
  BY DEF Position, Undisturbed, InHand, Key, Record
<1>11. pc[q] \in Reusing => d.datoff = rec'[d.idxoff - NHash].datoff
  BY DEF Position, Undisturbed, InHand, Datoff, Record
<1>12. /\ pc[q] = "datwrite" => d.datoff = Len(dat') + 1
       /\ pc[q] \in {"reuseidx", "idxseek", "idxwrite"} => dat'[d.datoff] = call[q].data
       /\ pc[q] = "idxwrite" => d.idxoff = NHash + Len(rec') + 1
  BY DEF Position, Undisturbed
<1>13. pc[q] = "link" => /\ rec'[d.idxoff - NHash].ptr = d.link /\ rec'[d.idxoff - NHash].key = k
                         /\ dat'[rec'[d.idxoff - NHash].datoff] = call[q].data
  BY DEF Position, Undisturbed, InHand, Key, Datoff, Record
<1>14. pc[q] = "nextdat" => /\ d.pos - 1 \in Items(Len(rec')) /\ rec'[d.pos - 1 - NHash].key = k /\ k \in Keys
                            /\ d.datoff = rec'[d.pos - 1 - NHash].datoff
  BY DEF Position, Undisturbed, Key, Datoff, Record
<1> QED
  BY <1>1, <1>2, <1>3, <1>4, <1>5, <1>6, <1>7, <1>8, <1>9, <1>10, <1>11, <1>12, <1>13, <1>14
     DEF Position, Key, Datoff, Record

\* A scan stays right when nobody touches the records it counts on: a call that
\* does is not the call of a steady key (db_nextrec).
LEMMA ScanKept ==
    ASSUME NEW p \in Procs, NEW q \in Procs, NEW s, NEW s2, Scan(q, s), Others(p), q # p,
           scanning[q] /\ pc[q] \notin {"dead", "aborted"} =>
               \A k \in steady'[q] :
                   /\ call'[p].key = k => call'[p].op \in {"fetch", "nextrec"}
                   /\ kv'[k] = kv[k]
                   /\ \A o \in s[Hash[k]] : Key(o) = k => o \in s2[Hash[k]] /\ Key(o)' = k
    PROVE  Scan(q, s2)'
<1> USE DEF Others
<1>1. SUFFICES ASSUME (scanning[q] /\ pc[q] \notin {"dead", "aborted"})', NEW k \in steady'[q]
               PROVE  /\ \A r \in Procs : call'[r].key = k => call'[r].op \in {"fetch", "nextrec"}
                      /\ kv'[k] # NONE
                      /\ \E o \in s2[Hash[k]] :
                            /\ Key(o)' = k /\ db'[q].pos # Lost
                            /\ (k \in seen'[q]) = (o < IF pc'[q] = "nextdat" THEN db'[q].pos - 1 ELSE db'[q].pos)
  BY DEF Scan
<1>2. /\ k \in steady[q] /\ scanning[q] /\ pc[q] \notin {"dead", "aborted"}
      /\ call'[p].key = k => call'[p].op \in {"fetch", "nextrec"}
      /\ kv'[k] = kv[k]
      /\ \A o \in s[Hash[k]] : Key(o) = k => o \in s2[Hash[k]] /\ Key(o)' = k
  BY <1>1
<1>3. /\ \A r \in Procs : call[r].key = k => call[r].op \in {"fetch", "nextrec"}
      /\ kv[k] # NONE
      /\ \E o \in s[Hash[k]] :
            /\ Key(o) = k /\ db[q].pos # Lost
            /\ (k \in seen[q]) = (o < IF pc[q] = "nextdat" THEN db[q].pos - 1 ELSE db[q].pos)
  BY <1>2 DEF Scan
<1>4. \A r \in Procs : call'[r].key = k => call'[r].op \in {"fetch", "nextrec"}
  BY <1>2, <1>3
<1>5. kv'[k] # NONE
  BY <1>2, <1>3
<1>6. PICK o \in s[Hash[k]] :
            /\ Key(o) = k /\ db[q].pos # Lost
            /\ (k \in seen[q]) = (o < IF pc[q] = "nextdat" THEN db[q].pos - 1 ELSE db[q].pos)
  BY <1>3
<1>7. o \in s2[Hash[k]] /\ Key(o)' = k
  BY <1>2, <1>6
<1> QED
  BY <1>4, <1>5, <1>6, <1>7
-----------------------------------------------------------------------------
(* One list, and what the steps that change a list do to it. *)

List(ptr, S, rk, c) ==
    \A m \in {c} \cup S :
        /\ ptr[m] # 0 => ptr[m] \in S /\ rk[ptr[m]] < rk[m]
        /\ \A o \in S : /\ rk[o] < rk[m] => ptr[m] # 0 /\ rk[o] <= rk[ptr[m]]
                        /\ rk[o] = rk[m] => o = m
                        /\ rk[o] < rk[c]

\* Lists, list by list (the hash table and the free list of db.c).
LEMMA ListsAreLists ==
    ASSUME NEW s, NEW rk, NEW lp, NEW n
    PROVE  Lists(lp, s, rk, n) <=> /\ \A c, d \in 0..NHash : c # d => s[c] \cap s[d] = {}
                                   /\ \A c \in 0..NHash : s[c] \subseteq Items(n)
                                   /\ \A c \in 0..NHash : List(lp, s[c], rk, c)
BY DEF Lists, List

\* A list is what its pointers and ranks say.
LEMMA SameListIsList ==
    ASSUME NEW c \in 0..NHash, NEW s, NEW rk, NEW lp, NEW s2, NEW rk2, NEW lp2,
           List(lp, s[c], rk, c), SameList(c, s, rk, lp, s2, rk2, lp2)
    PROVE  List(lp2, s2[c], rk2, c)
<1>1. s2[c] = s[c] /\ \A m \in {c} \cup s[c] : lp2[m] = lp[m] /\ rk2[m] = rk[m]
  BY DEF SameList
<1> SUFFICES ASSUME NEW m \in {c} \cup s[c]
             PROVE  /\ lp2[m] # 0 => lp2[m] \in s[c] /\ rk2[lp2[m]] < rk2[m]
                    /\ \A o \in s[c] : /\ rk2[o] < rk2[m] => lp2[m] # 0 /\ rk2[o] <= rk2[lp2[m]]
                                       /\ rk2[o] = rk2[m] => o = m
                                       /\ rk2[o] < rk2[c]
  BY <1>1 DEF List
<1>2. /\ lp[m] # 0 => lp[m] \in s[c] /\ rk[lp[m]] < rk[m]
      /\ \A o \in s[c] : /\ rk[o] < rk[m] => lp[m] # 0 /\ rk[o] <= rk[lp[m]]
                         /\ rk[o] = rk[m] => o = m
                         /\ rk[o] < rk[c]
  BY DEF List
<1>3. lp2[m] = lp[m] /\ rk2[m] = rk[m] /\ rk2[c] = rk[c]
  BY <1>1
<1>4. lp[m] # 0 => rk2[lp[m]] = rk[lp[m]]
  BY <1>1, <1>2
<1>5. \A o \in s[c] : rk2[o] = rk[o]
  BY <1>1
<1> QED
  BY <1>2, <1>3, <1>4, <1>5

\* Only one pointer of the lists leads to a record.
LEMMA OnePointer ==
    ASSUME NHash \in Nat, NEW n \in Nat, NEW s, NEW rk, NEW lp, Typed(s, rk, lp, n), Lists(lp, s, rk, n),
           NEW c \in 0..NHash, NEW m \in {c} \cup s[c], NEW m2 \in {c} \cup s[c],
           lp[m] = lp[m2], lp[m] # 0
    PROVE  m = m2
<1>1. List(lp, s[c], rk, c)
  BY ListsAreLists
<1>2. m \in 0..(NHash + n) /\ m2 \in 0..(NHash + n) /\ c \in 0..(NHash + n)
  <2>1. s[c] \subseteq Items(n)
    BY DEF Typed
  <2> QED
    BY <2>1 DEF Items
<1>3. rk[m] \in Nat /\ rk[m2] \in Nat /\ rk[c] \in Nat
  BY <1>2 DEF Typed
<1>4. lp[m] \in s[c] /\ rk[lp[m]] < rk[m] /\ rk[lp[m]] < rk[m2]
  BY <1>1 DEF List
<1>5. rk[lp[m]] \in Nat
  <2>1. s[c] \subseteq Items(n)
    BY DEF Typed
  <2>2. lp[m] \in 0..(NHash + n)
    BY <1>4, <2>1 DEF Items
  <2> QED
    BY <2>2 DEF Typed
<1>6. rk[m] = rk[m2] => m = m2
  BY <1>1, <1>3 DEF List
<1>7. CASE rk[m] < rk[m2]
  <2>1. m \in s[c]
    BY <1>1, <1>7, <1>3 DEF List
  <2>2. rk[m] <= rk[lp[m2]]
    BY <1>1, <1>7, <2>1 DEF List
  <2> QED
    BY <2>2, <1>4, <1>3, <1>5
<1>8. CASE rk[m2] < rk[m]
  <2>1. m2 \in s[c]
    BY <1>1, <1>8, <1>3 DEF List
  <2>2. rk[m2] <= rk[lp[m]]
    BY <1>1, <1>8, <2>1 DEF List
  <2> QED
    BY <2>2, <1>4, <1>3, <1>5
<1> QED
  BY <1>3, <1>6, <1>7, <1>8

\* A step that changes one list leaves the others what they are.
LEMMA OtherListsStay ==
    ASSUME NEW n, NEW s, NEW rk, NEW lp, Lists(lp, s, rk, n), NEW s2, NEW rk2, NEW lp2, NEW c,
           \A d \in 0..NHash : d # c => SameList(d, s, rk, lp, s2, rk2, lp2),
           List(lp2, s2[c], rk2, c),
           \A d \in 0..NHash : s2[d] \subseteq Items(n),
           \A d, e \in 0..NHash : d # e => s2[d] \cap s2[e] = {}
    PROVE  Lists(lp2, s2, rk2, n)
<1>1. ASSUME NEW d \in 0..NHash PROVE List(lp2, s2[d], rk2, d)
  <2>1. CASE d = c
    BY <2>1
  <2>2. CASE d # c
    <3>1. List(lp, s[d], rk, d)
      BY ListsAreLists
    <3>2. SameList(d, s, rk, lp, s2, rk2, lp2)
      BY <2>2
    <3> QED
      BY <3>1, <3>2, SameListIsList
  <2> QED
    BY <2>1, <2>2
<1> QED
  BY <1>1, ListsAreLists

Inserted(c, o, s, rk, lp, s2, rk2, lp2) ==
    /\ s2 = [s EXCEPT ![c] = s[c] \cup {o}]
    /\ rk2 = [rk EXCEPT ![o] = rk[c], ![c] = rk[c] + 1]
    /\ lp2 = [lp EXCEPT ![o] = lp[c], ![c] = o]

\* A record that is on no list is put at the front of one: db_store links it to
\* its chain, _db_dodelete to the free list (_db_writeptr).
LEMMA ListInsert ==
    ASSUME NHash \in Nat, NEW n \in Nat, NEW s, NEW rk, NEW lp, Typed(s, rk, lp, n), Lists(lp, s, rk, n),
           NEW c \in 0..NHash, NEW o \in Items(n), \A d \in 0..NHash : o \notin s[d],
           NEW s2, NEW rk2, NEW lp2, Inserted(c, o, s, rk, lp, s2, rk2, lp2)
    PROVE  /\ Typed(s2, rk2, lp2, n) /\ Lists(lp2, s2, rk2, n)
           /\ \A d \in 0..NHash : d # c => SameList(d, s, rk, lp, s2, rk2, lp2)
<1>1. /\ o \in 0..(NHash + n) /\ o \in Nat /\ o > NHash /\ o # 0
      /\ c \in 0..(NHash + n) /\ c \in Nat /\ c # o
  BY DEF Items
<1>2. rk[c] \in Nat /\ lp[c] \in Nat
  BY <1>1 DEF Typed
<1>3. Typed(s2, rk2, lp2, n)
  <2>1. s[c] \cup {o} \in SUBSET Items(n)
    BY DEF Typed
  <2>2. s2 \in [0..NHash -> SUBSET Items(n)]
    BY <2>1 DEF Typed, Inserted
  <2>3. rk2 \in [0..(NHash + n) -> Nat]
    <3>1. rk[c] + 1 \in Nat
      BY <1>2
    <3> QED
      BY <1>1, <1>2, <3>1 DEF Typed, Inserted
  <2>4. lp2 \in [0..(NHash + n) -> Nat]
    BY <1>1, <1>2 DEF Typed, Inserted
  <2> QED
    BY <2>2, <2>3, <2>4 DEF Typed
<1>4. /\ s2[c] = s[c] \cup {o} /\ \A d \in 0..NHash : d # c => s2[d] = s[d]
      /\ rk2[o] = rk[c] /\ rk2[c] = rk[c] + 1 /\ lp2[o] = lp[c] /\ lp2[c] = o
  BY <1>1 DEF Typed, Inserted
<1>5. \A m \in 0..(NHash + n) : m # o /\ m # c => rk2[m] = rk[m] /\ lp2[m] = lp[m]
  BY DEF Typed, Inserted
<1>6. \A d \in 0..NHash : s[d] \subseteq 0..(NHash + n) /\ c \notin s[d] /\ o \notin s[d]
  <2> TAKE d \in 0..NHash
  <2>1. s[d] \subseteq Items(n)
    BY DEF Typed
  <2> QED
    BY <2>1, <1>1 DEF Items
<1>7. ASSUME NEW d \in 0..NHash, d # c PROVE SameList(d, s, rk, lp, s2, rk2, lp2)
  <2>1. d \in 0..(NHash + n) /\ d # o
    BY <1>1
  <2> QED
    BY <1>4, <1>5, <1>6, <1>7, <2>1 DEF SameList
<1>8. List(lp2, s2[c], rk2, c)
  <2>1. List(lp, s[c], rk, c)
    BY ListsAreLists
  <2>2. \A m \in s[c] : rk2[m] = rk[m] /\ lp2[m] = lp[m] /\ rk[m] \in Nat /\ rk[m] < rk[c]
    BY <1>5, <1>6, <2>1 DEF Typed, List
  <2> SUFFICES ASSUME NEW m \in {c} \cup s2[c]
               PROVE  /\ lp2[m] # 0 => lp2[m] \in s2[c] /\ rk2[lp2[m]] < rk2[m]
                      /\ \A x \in s2[c] : /\ rk2[x] < rk2[m] => lp2[m] # 0 /\ rk2[x] <= rk2[lp2[m]]
                                          /\ rk2[x] = rk2[m] => x = m
                                          /\ rk2[x] < rk2[c]
    BY DEF List
  <2>3. CASE m = c
    <3>1. lp2[m] \in s2[c] /\ rk2[lp2[m]] < rk2[m] /\ lp2[m] # 0
      BY <2>3, <1>1, <1>2, <1>4
    <3>2. ASSUME NEW x \in s2[c]
          PROVE  rk2[x] <= rk2[lp2[m]] /\ rk2[x] # rk2[m] /\ rk2[x] < rk2[c]
      <4>1. CASE x = o
        BY <2>3, <1>2, <1>4, <4>1
      <4>2. CASE x \in s[c]
        <5>1. rk2[x] \in Nat /\ rk2[x] < rk[c]
          BY <4>2, <2>2
        <5>2. rk2[lp2[m]] = rk[c] /\ rk2[m] = rk[c] + 1
          BY <2>3, <1>4
        <5> QED
          BY <5>1, <5>2, <2>3, <1>2, <1>4
      <4> QED
        BY <4>1, <4>2, <1>4
    <3> QED
      BY <3>1, <3>2
  <2>4. CASE m = o
    <3>1. lp2[m] = lp[c] /\ rk2[m] = rk[c]
      BY <2>4, <1>4
    <3>2. lp2[m] # 0 => lp2[m] \in s[c] /\ rk2[lp2[m]] = rk[lp[c]] /\ rk[lp[c]] < rk[c]
      BY <3>1, <2>1, <2>2 DEF List
    <3>3. ASSUME NEW x \in s[c]
          PROVE  lp2[m] # 0 /\ rk2[x] <= rk2[lp2[m]] /\ rk2[x] < rk2[m] /\ rk2[x] < rk2[c]
      <4>1. rk[x] < rk[c] /\ rk2[x] = rk[x] /\ rk[x] \in Nat
        BY <2>2
      <4>2. lp[c] # 0 /\ rk[x] <= rk[lp[c]]
        BY <2>1, <4>1 DEF List
      <4> QED
        BY <4>1, <4>2, <3>1, <3>2, <1>2, <1>4
    <3>4. rk2[o] < rk2[c]
      BY <1>2, <1>4
    <3>5. ASSUME NEW x \in s2[c]
          PROVE  /\ rk2[x] < rk2[m] => lp2[m] # 0 /\ rk2[x] <= rk2[lp2[m]]
                 /\ rk2[x] = rk2[m] => x = m
                 /\ rk2[x] < rk2[c]
      <4>1. CASE x = o
        BY <4>1, <2>4, <3>1, <3>4, <1>2, <1>4
      <4>2. CASE x \in s[c]
        <5>1. lp2[m] # 0 /\ rk2[x] <= rk2[lp2[m]] /\ rk2[x] < rk2[m] /\ rk2[x] < rk2[c]
          BY <4>2, <3>3
        <5>2. rk2[x] \in Nat /\ rk2[m] \in Nat
          BY <4>2, <2>2, <3>1, <1>2
        <5> QED
          BY <5>1, <5>2
      <4> QED
        BY <4>1, <4>2, <1>4
    <3> QED
      BY <3>1, <3>2, <3>5, <1>4
  <2>5. CASE m \in s[c]
    <3>1. lp2[m] = lp[m] /\ rk2[m] = rk[m] /\ rk[m] \in Nat /\ rk[m] < rk[c]
      BY <2>5, <2>2
    <3>2. lp2[m] # 0 => lp2[m] \in s[c] /\ rk2[lp2[m]] = rk[lp[m]] /\ rk[lp[m]] < rk[m]
      BY <3>1, <2>1, <2>2, <2>5 DEF List
    <3>3. ASSUME NEW x \in s2[c]
          PROVE  /\ rk2[x] < rk2[m] => lp2[m] # 0 /\ rk2[x] <= rk2[lp2[m]]
                 /\ rk2[x] = rk2[m] => x = m
                 /\ rk2[x] < rk2[c]
      <4>1. CASE x = o
        BY <4>1, <3>1, <1>2, <1>4
      <4>2. CASE x \in s[c]
        <5>1. rk2[x] = rk[x] /\ rk[x] \in Nat /\ rk[x] < rk[c]
          BY <4>2, <2>2
        <5>2. rk[x] < rk[m] => lp[m] # 0 /\ rk[x] <= rk[lp[m]]
          BY <4>2, <2>1, <2>5 DEF List
        <5>3. rk[x] = rk[m] => x = m
          BY <4>2, <2>1, <2>5 DEF List
        <5> QED
          BY <5>1, <5>2, <5>3, <3>1, <3>2, <1>2, <1>4
      <4> QED
        BY <4>1, <4>2, <1>4
    <3> QED
      BY <3>1, <3>2, <3>3, <1>4
  <2> QED
    BY <2>3, <2>4, <2>5, <1>4
<1>9. /\ \A d \in 0..NHash : s2[d] \subseteq Items(n)
      /\ \A d, e \in 0..NHash : d # e => s2[d] \cap s2[e] = {}
  <2>1. \A d \in 0..NHash : s2[d] \subseteq Items(n)
    BY <1>3 DEF Typed
  <2>2. \A d, e \in 0..NHash : d # e => s[d] \cap s[e] = {}
    BY ListsAreLists
  <2>3. \A d, e \in 0..NHash : d # e => s2[d] \cap s2[e] = {}
    BY <2>2, <1>4, <1>6
  <2> QED
    BY <2>1, <2>3
<1>10. Lists(lp2, s2, rk2, n)
  BY <1>7, <1>8, <1>9, OtherListsStay
<1> QED
  BY <1>3, <1>7, <1>10

Removed(c, m, o, v, s, lp, s2, lp2) ==
    /\ s2 = [s EXCEPT ![c] = s[c] \ {o}]
    /\ lp2 = [lp EXCEPT ![m] = lp[o], ![o] = v]

\* The record after m is taken off a list: m's pointer skips it (_db_dodelete on
\* a chain, _db_findfree on the free list).
LEMMA ListRemove ==
    ASSUME NHash \in Nat, NEW n \in Nat, NEW s, NEW rk, NEW lp, Typed(s, rk, lp, n), Lists(lp, s, rk, n),
           NEW c \in 0..NHash, NEW o \in s[c], NEW m \in {c} \cup s[c], lp[m] = o, NEW v \in Nat,
           NEW s2, NEW lp2, Removed(c, m, o, v, s, lp, s2, lp2)
    PROVE  /\ Typed(s2, rk, lp2, n) /\ Lists(lp2, s2, rk, n)
           /\ \A d \in 0..NHash : d # c => SameList(d, s, rk, lp, s2, rk, lp2)
           /\ m # o
<1>1. \A d \in 0..NHash : s[d] \subseteq Items(n) /\ s[d] \subseteq 0..(NHash + n) /\ c \notin s[d]
  <2> TAKE d \in 0..NHash
  <2>1. s[d] \subseteq Items(n)
    BY DEF Typed
  <2> QED
    BY <2>1 DEF Items
<1>2. /\ c \in 0..(NHash + n) /\ o \in 0..(NHash + n) /\ m \in 0..(NHash + n)
      /\ o # 0 /\ c # o
  <2>1. o \in Items(n)
    BY <1>1
  <2>2. c \in 0..(NHash + n)
    OBVIOUS
  <2>3. o \in 0..(NHash + n) /\ m \in 0..(NHash + n)
    BY <1>1, <2>2
  <2> QED
    BY <2>1, <2>2, <2>3, <1>1 DEF Items
<1>3. \A x \in 0..(NHash + n) : rk[x] \in Nat /\ lp[x] \in Nat
  BY DEF Typed
<1>4. List(lp, s[c], rk, c)
  BY ListsAreLists
<1>5. rk[o] < rk[m] /\ m # o
  <2>1. rk[o] < rk[m]
    BY <1>2, <1>4 DEF List
  <2> QED
    BY <2>1, <1>2, <1>3
<1>6. Typed(s2, rk, lp2, n)
  <2>1. s[c] \ {o} \in SUBSET Items(n)
    BY <1>1
  <2>2. s2 \in [0..NHash -> SUBSET Items(n)]
    BY <2>1 DEF Typed, Removed
  <2>3. lp2 \in [0..(NHash + n) -> Nat]
    BY <1>2, <1>3 DEF Typed, Removed
  <2> QED
    BY <2>2, <2>3 DEF Typed
<1>7. /\ s2[c] = s[c] \ {o} /\ \A d \in 0..NHash : d # c => s2[d] = s[d]
      /\ lp2[m] = lp[o]
      /\ \A x \in 0..(NHash + n) : x # o /\ x # m => lp2[x] = lp[x]
  BY <1>2, <1>5 DEF Typed, Removed
<1>8. \A d, e \in 0..NHash : d # e => s[d] \cap s[e] = {}
  BY ListsAreLists
<1>9. ASSUME NEW d \in 0..NHash, d # c PROVE SameList(d, s, rk, lp, s2, rk, lp2)
  <2>1. d \notin s[c] /\ o \notin s[d] /\ m \notin s[d] /\ d # m /\ d # o /\ d \in 0..(NHash + n)
    <3>1. d \notin s[c]
      <4>1. s[c] \subseteq Items(n)
        BY <1>1
      <4> QED
        BY <4>1 DEF Items
    <3>2. o \notin s[d] /\ m \notin s[d]
      BY <1>8, <1>1, <1>9
    <3>3. d # m /\ d # o
      BY <3>1, <1>9
    <3> QED
      BY <3>1, <3>2, <3>3
  <2>2. \A x \in {d} \cup s[d] : x # o /\ x # m /\ x \in 0..(NHash + n)
    BY <2>1, <1>1
  <2> QED
    BY <1>7, <1>9, <2>2 DEF SameList
<1>10. List(lp2, s2[c], rk, c)
  <2> SUFFICES ASSUME NEW x \in {c} \cup s2[c]
               PROVE  /\ lp2[x] # 0 => lp2[x] \in s2[c] /\ rk[lp2[x]] < rk[x]
                      /\ \A y \in s2[c] : /\ rk[y] < rk[x] => lp2[x] # 0 /\ rk[y] <= rk[lp2[x]]
                                          /\ rk[y] = rk[x] => y = x
                                          /\ rk[y] < rk[c]
    BY DEF List
  <2>1. x \in {c} \cup s[c] /\ x # o /\ x \in 0..(NHash + n)
    BY <1>7, <1>1, <1>2
  <2>2. \A y \in s2[c] : /\ y \in s[c] /\ y # o /\ rk[y] \in Nat
                         /\ rk[y] = rk[x] => y = x
                         /\ rk[y] < rk[c]
    BY <1>7, <1>1, <1>3, <1>4, <2>1 DEF List
  <2>3. CASE x = m
    <3>1. lp[o] # 0 => lp[o] \in s[c] /\ rk[lp[o]] < rk[o]
      BY <1>4 DEF List
    <3>2. lp[o] # 0 => lp[o] \in s2[c] /\ rk[lp[o]] < rk[m]
      <4>1. lp[o] # 0 => rk[lp[o]] \in Nat
        BY <3>1, <1>1, <1>3
      <4> QED
        BY <3>1, <4>1, <1>2, <1>3, <1>5, <1>7
    <3>3. ASSUME NEW y \in s2[c], rk[y] < rk[m] PROVE lp[o] # 0 /\ rk[y] <= rk[lp[o]]
      <4>1. rk[y] <= rk[o]
        BY <1>4, <2>2, <3>3 DEF List
      <4>2. rk[y] # rk[o]
        BY <1>4, <2>2 DEF List
      <4>3. rk[y] < rk[o]
        BY <4>1, <4>2, <2>2, <1>2, <1>3
      <4> QED
        BY <4>3, <1>4, <2>2 DEF List
    <3> QED
      BY <2>2, <2>3, <3>2, <3>3, <1>7
  <2>4. CASE x # m
    <3>1. lp2[x] = lp[x]
      BY <2>1, <2>4, <1>7
    <3>2. lp[x] # o
      BY <2>1, <2>4, <1>2, OnePointer
    <3>3. /\ lp[x] # 0 => lp[x] \in s[c] /\ rk[lp[x]] < rk[x]
          /\ \A y \in s[c] : rk[y] < rk[x] => lp[x] # 0 /\ rk[y] <= rk[lp[x]]
      BY <2>1, <1>4 DEF List
    <3> QED
      BY <2>2, <3>1, <3>2, <3>3, <1>7
  <2> QED
    BY <2>3, <2>4
<1>11. /\ \A d \in 0..NHash : s2[d] \subseteq Items(n)
       /\ \A d, e \in 0..NHash : d # e => s2[d] \cap s2[e] = {}
  <2>1. \A d \in 0..NHash : s2[d] \subseteq Items(n)
    BY <1>6 DEF Typed
  <2>2. \A d \in 0..NHash : s2[d] \subseteq s[d]
    BY <1>7
  <2>3. ASSUME NEW d \in 0..NHash, NEW e \in 0..NHash, d # e PROVE s2[d] \cap s2[e] = {}
    BY <1>8, <2>2, <2>3
  <2> QED
    BY <2>1, <2>3
<1>12. Lists(lp2, s2, rk, n)
  BY <1>9, <1>10, <1>11, OtherListsStay
<1> QED
  BY <1>5, <1>6, <1>9, <1>12

\* Pointers of records on no list do not matter, nor does a record appended.
LEMMA ListsLonger ==
    ASSUME NHash \in Nat, NEW n \in Nat, NEW n2 \in Nat, n <= n2,
           NEW s, NEW rk, NEW lp, Typed(s, rk, lp, n), Lists(lp, s, rk, n),
           NEW rk2 \in [0..(NHash + n2) -> Nat], NEW lp2 \in [0..(NHash + n2) -> Nat],
           \A d \in 0..NHash : SameList(d, s, rk, lp, s, rk2, lp2)
    PROVE  Typed(s, rk2, lp2, n2) /\ Lists(lp2, s, rk2, n2)
<1>1. Items(n) \subseteq Items(n2)
  BY DEF Items
<1>2. Typed(s, rk2, lp2, n2)
  BY <1>1 DEF Typed
<1>3. \A d \in 0..NHash : List(lp2, s[d], rk2, d)
  BY ListsAreLists, SameListIsList
<1>4. \A d \in 0..NHash : s[d] \subseteq Items(n2)
  BY <1>2 DEF Typed
<1>5. \A d, e \in 0..NHash : d # e => s[d] \cap s[e] = {}
  BY ListsAreLists
<1> QED
  BY <1>2, <1>3, <1>4, <1>5, ListsAreLists

-----------------------------------------------------------------------------
(* Types and exclusion, in the form the steps use them. *)

\* Offsets up to the end of the index file are those of pointers, and records.
LEMMA RecordTypes ==
    ASSUME Types, table # <<>>
    PROVE  /\ NHash \in Nat /\ Len(rec) \in Nat /\ table \in [0..NHash -> Nat]
           /\ rec \in [1..Len(rec) -> Records] /\ dat \in [1..Len(dat) -> Data \cup {BLANK}] /\ Len(dat) \in Nat
           /\ \A o \in Items(Len(rec)) :
                 /\ o - NHash \in 1..Len(rec) /\ o \in Nat /\ o > NHash /\ o \in 0..(NHash + Len(rec))
                 /\ Record(o) \in Records /\ Record(o) = rec[o - NHash]
                 /\ Key(o) \in Keys \cup {BLANK} /\ Datoff(o) \in Nat /\ _db_readptr(o) = Record(o).ptr
           /\ \A o \in 0..NHash : _db_readptr(o) = table[o] /\ o \in 0..(NHash + Len(rec))
           /\ \A o \in 0..(NHash + Len(rec)) : _db_readptr(o) \in Nat
<1>1. NHash \in Nat
  BY HashAssumption
<1>2. rec \in Seq(Records) /\ dat \in Seq(Data \cup {BLANK}) /\ table \in [0..NHash -> Nat]
  BY DEF Types, TypeOK
<1>3. Len(rec) \in Nat /\ rec \in [1..Len(rec) -> Records] /\ Len(dat) \in Nat /\ dat \in [1..Len(dat) -> Data \cup {BLANK}]
  BY <1>2
<1>4. ASSUME NEW o \in Items(Len(rec))
      PROVE  /\ o - NHash \in 1..Len(rec) /\ o \in Nat /\ o > NHash /\ o \in 0..(NHash + Len(rec))
             /\ Record(o) \in Records /\ Record(o) = rec[o - NHash]
             /\ Key(o) \in Keys \cup {BLANK} /\ Datoff(o) \in Nat /\ _db_readptr(o) = Record(o).ptr
             /\ _db_readptr(o) \in Nat
  <2>1. o - NHash \in 1..Len(rec) /\ o \in Nat /\ o > NHash /\ o \in 0..(NHash + Len(rec))
    BY <1>1, <1>3 DEF Items
  <2>2. Record(o) \in Records /\ Record(o) = rec[o - NHash]
    BY <1>3, <2>1 DEF Record
  <2>3. Key(o) \in Keys \cup {BLANK} /\ Datoff(o) \in Nat /\ Record(o).ptr \in Nat
    BY <2>2 DEF Records, Key, Datoff
  <2>4. _db_readptr(o) = Record(o).ptr
    BY <2>1, <1>1 DEF _db_readptr
  <2> QED
    BY <2>1, <2>2, <2>3, <2>4
<1>5. ASSUME NEW o \in 0..NHash PROVE _db_readptr(o) = table[o] /\ o \in 0..(NHash + Len(rec)) /\ _db_readptr(o) \in Nat
  BY <1>1, <1>2, <1>3 DEF _db_readptr
<1>6. ASSUME NEW o \in 0..(NHash + Len(rec)) PROVE _db_readptr(o) \in Nat
  <2>1. CASE o \in 0..NHash
    BY <2>1, <1>5
  <2>2. CASE o \in Items(Len(rec))
    BY <2>2, <1>4
  <2> QED
    BY <2>1, <2>2, <1>1, <1>3 DEF Items
<1> QED
  BY <1>1, <1>2, <1>3, <1>4, <1>5, <1>6

\* The fields of a call and of DB.
LEMMA CallTypes ==
    ASSUME Types, Protocol, NEW q \in Procs
    PROVE  /\ call[q].op \in Ops /\ call[q].key \in Keys \cup {NONE} /\ call[q].data \in Values
           /\ call[q] = [op |-> call[q].op, key |-> call[q].key, data |-> call[q].data]
           /\ db[q] \in DbRecord
           /\ OnChain(q) => /\ call[q].key \in Keys /\ Chain(q) = Hash[call[q].key]
                            /\ Chain(q) \in 1..NHash /\ Chain(q) \in 0..NHash /\ Chain(q) # 0
<1>1. call[q] \in [op : Ops, key : Keys \cup {NONE}, data : Values] /\ db[q] \in DbRecord
  BY DEF Types, TypeOK
<1>2. OnChain(q) => call[q].key \in Keys
  BY DEF Protocol, InCallOf
<1>3. OnChain(q) => Chain(q) \in 1..NHash
  BY <1>2, HashAssumption DEF Chain
<1>4. OnChain(q) => Chain(q) \in 0..NHash /\ Chain(q) # 0
  BY <1>3, HashAssumption
<1> QED
  BY <1>1, <1>2, <1>3, <1>4 DEF Chain

\* A call that may change a chain has it alone (writew_lock in db_delete and
\* db_store).
LEMMA ChainAlone ==
    ASSUME Types, Protocol, Locking, NEW p \in Procs, NEW q \in Procs, p # q,
           OnChain(p), OnChain(q), call[p].op # "fetch"
    PROVE  Chain(p) # Chain(q) /\ call[p].key # call[q].key
<1>1. <<p, Chain(p), "w">> \in locks
  BY DEF Locking, LocksOf, Mode
<1>2. <<q, Chain(q), Mode(q)>> \in locks
  BY DEF Locking, LocksOf
<1>3. Chain(p) # Chain(q)
  BY <1>1, <1>2, Excluded
<1> QED
  BY <1>3 DEF Chain

\* The free list is changed by one process at a time, and not while db_nextrec
\* reads a record.
LEMMA FreeListAlone ==
    ASSUME Locking, NEW p \in Procs, NEW q \in Procs, p # q,
           pc[p] \in {"blank", "freewalk", "init"} \cup Cutting
    PROVE  /\ pc[q] \notin {"blank", "freewalk", "init"} \cup Cutting
           /\ ~OnRecords(q) /\ pc[q] # "nextdat"
<1>1. <<p, FREE_OFF, "w">> \in locks
  BY DEF Locking, LocksOf
<1>2. pc[q] \in {"blank", "freewalk", "init"} \cup Cutting => <<q, FREE_OFF, "w">> \in locks
  BY DEF Locking, LocksOf
<1>3. OnRecords(q) => <<q, FREE_OFF, "r">> \in locks
  BY DEF Locking, LocksOf
<1>4. pc[q] = "nextdat" => OnRecords(q)
  BY DEF OnRecords, Reading
<1> QED
  BY <1>1, <1>2, <1>3, <1>4, Excluded

\* The lists do not reach each other, and end within the file.
LEMMA ListsApart ==
    ASSUME Types, table # <<>>, NEW s, NEW rk, NEW lp, Shape(s, rk, lp)
    PROVE  /\ \A c \in 0..NHash : s[c] \subseteq Items(Len(rec)) /\ \A o \in {c} \cup s[c] : o \in 0..(NHash + Len(rec))
           /\ \A c, d \in 0..NHash : c # d => \A o \in {c} \cup s[c] : o \notin {d} \cup s[d]
<1>1. NHash \in Nat /\ Len(rec) \in Nat
  BY RecordTypes
<1>2. \A c \in 0..NHash : s[c] \subseteq Items(Len(rec))
  BY DEF Shape, Typed
<1>3. \A c, d \in 0..NHash : c # d => s[c] \cap s[d] = {}
  BY DEF Shape, Lists
<1>4. \A c, d \in 0..NHash : c \notin s[d]
  <2>1. \A c \in 0..NHash : c \notin Items(Len(rec))
    BY <1>1 DEF Items
  <2> QED
    BY <2>1, <1>2
<1>5. \A c \in 0..NHash : \A o \in {c} \cup s[c] : o \in 0..(NHash + Len(rec))
  <2> TAKE c \in 0..NHash
  <2>1. Items(Len(rec)) \subseteq 0..(NHash + Len(rec)) /\ c \in 0..(NHash + Len(rec))
    BY <1>1 DEF Items
  <2> QED
    BY <2>1, <1>2
<1>6. \A c, d \in 0..NHash : c # d => \A o \in {c} \cup s[c] : o \notin {d} \cup s[d]
  BY <1>3, <1>4
<1> QED
  BY <1>2, <1>5, <1>6

-----------------------------------------------------------------------------
(* Steps that change neither the files nor the dictionary.                   *)

PlainStep(p) ==
    /\ Others(p) /\ UNCHANGED <<table, rec, dat, kv>>
    /\ pc[p] \notin {"blank", "link", "dead"} \cup Cutting \cup Reusing
    /\ pc'[p] \notin {"link"} \cup Cutting \cup Reusing
    /\ Reserving(p)' = Reserving(p) /\ (Reserving(p) => db'[p].datoff = db[p].datoff)
    /\ pc[p] \in Appending => pc'[p] \in Appending /\ call'[p] = call[p]
    /\ \/ call'[p] = call[p] \/ call'[p].op \in {"fetch", "nextrec"}
       \/ \A q \in Procs : q # p => call'[p].key \notin steady'[q]

\* Reads and locks leave the files to everybody else as they are: the steps of
\* db.c that only read or seek.
LEMMA PlainKeeps ==
    ASSUME NEW p \in Procs, NEW s, NEW rk, NEW lp, Shape(s, rk, lp), PlainStep(p),
           Position(p, s, rk, lp)', Scan(p, s)'
    PROVE  Shape(s, rk, lp)'
<1> USE DEF PlainStep
<1>1. \A q \in Procs : q # p => pc'[q] = pc[q] /\ call'[q] = call[q] /\ db'[q] = db[q]
  BY DEF Others
<1>2. /\ \A o : Key(o)' = Key(o) /\ Datoff(o)' = Datoff(o) /\ Record(o)' = Record(o)
      /\ \A o : _db_readptr(o)' = _db_readptr(o)
  BY DEF Key, Datoff, Record, _db_readptr
<1>3. \A q \in Procs : /\ Unlinking(q)' = Unlinking(q) /\ (Unlinking(q) => db'[q] = db[q])
                       /\ InHand(q)' = InHand(q) /\ (InHand(q) => db'[q] = db[q])
                       /\ Reserving(q)' = Reserving(q) /\ (Reserving(q) => db'[q].datoff = db[q].datoff)
                       /\ Replacing(q) => Replacing(q)' /\ call'[q] = call[q]
                       /\ pc[q] = "blank" => pc'[q] = "blank" /\ db'[q] = db[q]
                       /\ pc[q] = "dead" => pc'[q] = "dead"
                       /\ pc[q] \in {"link", "dead"} => pc'[q] = pc[q] /\ db'[q] = db[q] /\ call'[q] = call[q]
  <2> TAKE q \in Procs
  <2>1. CASE q = p
    BY <2>1 DEF Unlinking, InHand, Reserving, Replacing, Cutting
  <2>2. CASE q # p
    BY <2>2, <1>1 DEF Unlinking, InHand, Reserving, Replacing
  <2> QED
    BY <2>1, <2>2
<1>4. Typed(s, rk, lp, Len(rec))' /\ Lists(lp, s, rk, Len(rec))'
  BY DEF Shape
<1>5. Agree(lp)'
  <2>1. Agree(lp)
    BY DEF Shape
  <2>2. \A q \in Procs : Unlinking(q)' => Unlinking(q) /\ db'[q] = db[q]
    BY <1>3
  <2>3. \A q \in Procs : Unlinking(q) => Unlinking(q)' /\ db'[q] = db[q]
    BY <1>3
  <2> QED
    BY <2>1, <2>2, <2>3, <1>2 DEF Agree
<1>6. Contents(s)'
  <2>1. Contents(s)
    BY DEF Shape
  <2>2. \A q \in Procs : pc[q] = "blank" => pc'[q] = "blank" /\ db'[q] = db[q]
    BY <1>3
  <2>3. \A q \in Procs : Replacing(q) => Replacing(q)' /\ call'[q] = call[q]
    BY <1>3
  <2>4. \A o \in s[0] : Key(o)' = BLANK
    BY <2>1, <1>2 DEF Contents
  <2>5. ASSUME NEW c \in 1..NHash, NEW o \in s[c]
        PROVE  /\ Key(o)' \in Keys /\ Hash[Key(o)'] = c /\ kv'[Key(o)'] # NONE
               /\ dat'[Datoff(o)'] = kv'[Key(o)'] \/ \E q \in Procs : pc'[q] = "blank" /\ db'[q].idxoff = o
               /\ \A o2 \in s[c] : Key(o2)' = Key(o)' => o2 = o
    BY <2>1, <2>2, <1>2 DEF Contents
  <2>6. ASSUME NEW k \in Keys, kv'[k] # NONE
        PROVE  \/ \E o \in s[Hash[k]] : Key(o)' = k
               \/ \E q \in Procs : Replacing(q)' /\ call'[q].key = k
    BY <2>1, <2>3, <2>6, <1>2 DEF Contents
  <2> QED
    BY <2>4, <2>5, <2>6 DEF Contents
<1>7. Hands(s)'
  <2>1. Hands(s)
    BY DEF Shape
  <2>2. \A q \in Procs : InHand(q)' => InHand(q) /\ db'[q] = db[q]
    BY <1>3
  <2> QED
    BY <2>1, <2>2 DEF Hands
<1>8. Space(s)'
  <2>1. Space(s)
    BY DEF Shape
  <2>2. \A q \in Procs : InHand(q) => InHand(q)' /\ db'[q] = db[q]
    BY <1>3
  <2>3. \A q \in Procs : Reserving(q)' = Reserving(q) /\ (Reserving(q) => db'[q].datoff = db[q].datoff)
    BY <1>3
  <2>4. NoDead' => NoDead
    BY <1>3 DEF NoDead
  <2>5. \A o \in Items(Len(rec')) : Datoff(o)' \in 1..Len(dat')
    BY <2>1, <1>2 DEF Space
  <2>6. \A o, o2 \in Items(Len(rec')) : Datoff(o)' = Datoff(o2)' => o = o2
    BY <2>1, <1>2 DEF Space
  <2>7. ASSUME NEW q \in Procs, Reserving(q)'
        PROVE  /\ db'[q].datoff \in 1..Len(dat')
               /\ \A o \in Items(Len(rec')) : Datoff(o)' # db'[q].datoff
               /\ \A r \in Procs : Reserving(r)' /\ db'[r].datoff = db'[q].datoff => r = q
    BY <2>1, <2>3, <2>7, <1>2 DEF Space
  <2>8. ASSUME NoDead'
        PROVE  /\ \A o \in Items(Len(rec')) : \/ \E c \in 0..NHash : o \in s[c]
                                              \/ \E q \in Procs : InHand(q)' /\ db'[q].idxoff = o
               /\ \A d \in 1..Len(dat') : \/ \E o \in Items(Len(rec')) : Datoff(o)' = d
                                          \/ \E q \in Procs : Reserving(q)' /\ db'[q].datoff = d
    BY <2>1, <2>2, <2>3, <2>4, <2>8, <1>2 DEF Space
  <2> QED
    BY <2>5, <2>6, <2>7, <2>8 DEF Space
<1>9. Named(s)'
  <2>1. Named(s)
    BY DEF Shape
  <2>2. \A q \in Procs : pc[q] \in {"link", "dead"} => pc'[q] = pc[q] /\ db'[q] = db[q] /\ call'[q] = call[q]
    BY <1>3
  <2> QED
    BY <2>1, <2>2, <1>2 DEF Named
<1>10. ASSUME NEW q \in Procs PROVE Position(q, s, rk, lp)'
  <2>1. CASE q = p
    BY <2>1
  <2>2. CASE q # p
    <3>1. Position(q, s, rk, lp)
      BY DEF Shape
    <3>2. Undisturbed(q, s, rk, lp, s, rk, lp)
      BY <1>2 DEF Undisturbed, SameList, Key, Datoff, Record
    <3> QED
      BY <3>1, <3>2, <2>2, <1>1, PositionKept
  <2> QED
    BY <2>1, <2>2
<1>11. ASSUME NEW q \in Procs PROVE Scan(q, s)'
  <2>1. CASE q = p
    BY <2>1
  <2>2. CASE q # p
    <3>1. Scan(q, s)
      BY DEF Shape
    <3>2. ASSUME scanning[q] /\ pc[q] \notin {"dead", "aborted"}, NEW k \in steady'[q]
          PROVE  /\ call'[p].key = k => call'[p].op \in {"fetch", "nextrec"}
                 /\ kv'[k] = kv[k]
                 /\ \A o \in s[Hash[k]] : Key(o) = k => o \in s[Hash[k]] /\ Key(o)' = k
      <4>1. k \in steady[q]
        BY <2>2 DEF Others
      <4>2. call[p].key = k => call[p].op \in {"fetch", "nextrec"}
        BY <3>1, <3>2, <4>1 DEF Scan
      <4> QED
        BY <2>2, <1>2, <4>2
    <3> QED
      BY <3>1, <3>2, <2>2, ScanKept
  <2> QED
    BY <2>1, <2>2
<1> QED
  BY <1>4, <1>5, <1>6, <1>7, <1>8, <1>9, <1>10, <1>11 DEF Shape

-----------------------------------------------------------------------------
(* The form of a step. *)

CallRecord == [op : Ops, key : Keys \cup {NONE}, data : Values]

Moves(p, l, c, d, r) ==
    /\ pc' = [pc EXCEPT ![p] = l] /\ call' = [call EXCEPT ![p] = c]
    /\ db' = [db EXCEPT ![p] = d] /\ result' = [result EXCEPT ![p] = r]

\* A step of a call changes what its process knows, and nothing of what the others do.
LEMMA MovesOne ==
    ASSUME Types, NEW p \in Procs, NEW l \in Pcs, NEW c \in CallRecord, NEW d \in DbRecord, NEW r,
           Moves(p, l, c, d, r)
    PROVE  /\ pc'[p] = l /\ call'[p] = c /\ db'[p] = d /\ result'[p] = r
           /\ \A q \in Procs : q # p => pc'[q] = pc[q] /\ call'[q] = call[q] /\ db'[q] = db[q] /\ result'[q] = result[q]
           /\ pc' \in [Procs -> Pcs] /\ call' \in [Procs -> CallRecord] /\ db' \in [Procs -> DbRecord]
           /\ result' = [q \in Procs |-> result'[q]]
<1>1. /\ pc \in [Procs -> Pcs] /\ call \in [Procs -> CallRecord] /\ db \in [Procs -> DbRecord]
      /\ result = [q \in Procs |-> result[q]]
  BY DEF Types, TypeOK, CallRecord
<1>2. pc'[p] = l /\ pc' \in [Procs -> Pcs] /\ \A q \in Procs : q # p => pc'[q] = pc[q]
  BY <1>1 DEF Moves
<1>3. call'[p] = c /\ call' \in [Procs -> CallRecord] /\ \A q \in Procs : q # p => call'[q] = call[q]
  BY <1>1 DEF Moves
<1>4. db'[p] = d /\ db' \in [Procs -> DbRecord] /\ \A q \in Procs : q # p => db'[q] = db[q]
  BY <1>1 DEF Moves
<1>5. result'[p] = r /\ result' = [q \in Procs |-> result'[q]] /\ \A q \in Procs : q # p => result'[q] = result[q]
  BY <1>1 DEF Moves
<1> QED
  BY <1>2, <1>3, <1>4, <1>5

Fields(d, ptroff, next, idxoff, ptrval, datoff, datlen, link, pos) ==
    /\ d \in DbRecord
    /\ d.ptroff = ptroff /\ d.next = next /\ d.idxoff = idxoff /\ d.ptrval = ptrval
    /\ d.datoff = datoff /\ d.datlen = datlen /\ d.link = link /\ d.pos = pos

\* The fields of DB that a call sets (struct DB, db/db.c).
LEMMA DbFields ==
    ASSUME NEW d \in DbRecord, NEW a \in Nat, NEW b \in Nat, NEW x \in Nat, NEW y \in Nat,
           NEW n \in {Lost} \cup {o \in Nat : o > NHash}
    PROVE  /\ Fields([d EXCEPT !.ptroff = a, !.pos = n, !.next = b],
                     a, b, d.idxoff, d.ptrval, d.datoff, d.datlen, d.link, n)
           /\ Fields([d EXCEPT !.ptroff = a, !.next = b, !.pos = n],
                     a, b, d.idxoff, d.ptrval, d.datoff, d.datlen, d.link, n)
           /\ Fields([d EXCEPT !.idxoff = a, !.ptrval = b, !.pos = n, !.datoff = x, !.datlen = y],
                     d.ptroff, d.next, a, b, x, y, d.link, n)
           /\ Fields([d EXCEPT !.link = b],
                     d.ptroff, d.next, d.idxoff, d.ptrval, d.datoff, d.datlen, b, d.pos)
           /\ Fields([d EXCEPT !.pos = n, !.link = b],
                     d.ptroff, d.next, d.idxoff, d.ptrval, d.datoff, d.datlen, b, n)
           /\ Fields([d EXCEPT !.ptroff = a, !.next = b],
                     a, b, d.idxoff, d.ptrval, d.datoff, d.datlen, d.link, d.pos)
           /\ Fields([d EXCEPT !.idxoff = a, !.datoff = x],
                     d.ptroff, d.next, a, d.ptrval, x, d.datlen, d.link, d.pos)
           /\ Fields([d EXCEPT !.datoff = x],
                     d.ptroff, d.next, d.idxoff, d.ptrval, x, d.datlen, d.link, d.pos)
           /\ Fields([d EXCEPT !.idxoff = a],
                     d.ptroff, d.next, a, d.ptrval, d.datoff, d.datlen, d.link, d.pos)
           /\ Fields([d EXCEPT !.pos = n],
                     d.ptroff, d.next, d.idxoff, d.ptrval, d.datoff, d.datlen, d.link, n)
           /\ Fields([d EXCEPT !.pos = n, !.datoff = x],
                     d.ptroff, d.next, d.idxoff, d.ptrval, x, d.datlen, d.link, n)
BY DEF DbRecord, Fields

-----------------------------------------------------------------------------
(* The invariant where the database is there. *)

Ready(s, rk, lp) ==
    /\ Types /\ Protocol /\ Locking
    /\ table # <<>> /\ (\A q \in Procs : pc[q] # "init")
    /\ Shape(s, rk, lp)

\* DbInv is Ready for some lists, or the database is not there yet (db_open).
LEMMA ReadyOrFresh ==
    /\ DbInv <=> (\E s, rk, lp : Ready(s, rk, lp)) \/ (Types /\ Protocol /\ Locking /\ table = <<>> /\ Fresh)
BY DEF DbInv, Ready

History(p) ==
    /\ steady' \in [Procs -> SUBSET Keys] /\ seen' \in [Procs -> SUBSET Keys] /\ scanning' \in [Procs -> BOOLEAN]
    /\ \A q \in Procs : q # p => steady'[q] \subseteq steady[q] /\ seen'[q] = seen[q] /\ scanning'[q] = scanning[q]
    /\ calls' \in 0..MaxCalls /\ deaths' \in 0..MaxDeaths

\* Most steps of a call leave what scans have seen as it is.
LEMMA HistoryStays ==
    ASSUME Types, NEW p, UNCHANGED <<steady, seen, scanning, bounds>>
    PROVE  History(p) /\ steady' = steady /\ seen' = seen /\ scanning' = scanning
BY DEF Types, TypeOK, History, bounds

\* A step that reads, seeks or locks keeps the invariant when it is right about
\* its own process.
LEMMA PlainReady ==
    ASSUME NEW s, NEW rk, NEW lp, Ready(s, rk, lp), NEW p \in Procs,
           NEW l \in Pcs, NEW c \in CallRecord, NEW d \in DbRecord, NEW r, Moves(p, l, c, d, r),
           UNCHANGED <<table, rec, dat, kv>>, Takes(p), History(p),
           pc[p] \notin {"blank", "link", "dead"} \cup Cutting \cup Reusing,
           l \notin {"link", "init"} \cup Cutting \cup Reusing,
           (l \in {"idxseek", "idxwrite"}) = (pc[p] \in {"idxseek", "idxwrite"}),
           pc[p] \in {"idxseek", "idxwrite"} => d.datoff = db[p].datoff,
           pc[p] \in Appending => l \in Appending /\ c = call[p],
           c = call[p] \/ c.op \in {"fetch", "nextrec"} \/ \A q \in Procs : q # p => c.key \notin steady'[q],
           InCallOf(p)', LocksOf(p)', Position(p, s, rk, lp)', Scan(p, s)'
    PROVE  Ready(s, rk, lp)'
<1>1. Types /\ Protocol /\ Locking /\ table # <<>> /\ Shape(s, rk, lp) /\ \A q \in Procs : pc[q] # "init"
  BY DEF Ready
<1>2. /\ pc'[p] = l /\ call'[p] = c /\ db'[p] = d /\ result'[p] = r
      /\ \A q \in Procs : q # p => pc'[q] = pc[q] /\ call'[q] = call[q] /\ db'[q] = db[q] /\ result'[q] = result[q]
      /\ pc' \in [Procs -> Pcs] /\ call' \in [Procs -> CallRecord] /\ db' \in [Procs -> DbRecord]
      /\ result' = [q \in Procs |-> result'[q]]
  BY <1>1, MovesOne
<1>3. Others(p)
  BY <1>2 DEF Others, History
<1>4. Protocol' /\ Locking'
  BY <1>1, <1>3, ProtocolKept, LockingKept
<1>5. Types'
  BY <1>1, <1>2 DEF Types, TypeOK, Takes, LockSet, History, CallRecord
<1>6. PlainStep(p)
  BY <1>2, <1>3 DEF PlainStep, Reserving
<1>7. Shape(s, rk, lp)'
  BY <1>1, <1>6, PlainKeeps
<1>8. table' # <<>> /\ \A q \in Procs : pc'[q] # "init"
  BY <1>1, <1>2
<1> QED
  BY <1>4, <1>5, <1>7, <1>8 DEF Ready

NotCut(c) == \A q \in Procs : Unlinking(q) => Chain(q) # c
InTheFile(lp, S, c) == \A m \in {c} \cup S : lp[m] = _db_readptr(m)

\* The pointers of a list that nobody cuts are in the index file.
LEMMA TruePointers ==
    ASSUME NEW s, NEW rk, NEW lp, Ready(s, rk, lp), NEW c \in 0..NHash, NotCut(c)
    PROVE  InTheFile(lp, s[c], c)
<1> SUFFICES ASSUME NEW m \in {c} \cup s[c] PROVE lp[m] = _db_readptr(m)
  BY DEF InTheFile
<1>1. Types /\ Protocol /\ table # <<>> /\ Shape(s, rk, lp)
  BY DEF Ready
<1>2. \A q \in Procs : Unlinking(q) => db[q].ptroff # m
  <2> SUFFICES ASSUME NEW q \in Procs, Unlinking(q) PROVE db[q].ptroff # m
    OBVIOUS
  <2>1. OnChain(q)
    BY DEF Unlinking, OnChain, Chaining
  <2>2. Chain(q) \in 0..NHash
    BY <2>1, <1>1, CallTypes
  <2>3. Position(q, s, rk, lp)
    BY <1>1 DEF Shape
  <2>4. db[q].ptroff \in {Chain(q)} \cup s[Chain(q)]
    BY <2>3 DEF Position, Unlinking
  <2>5. Chain(q) # c
    BY DEF NotCut
  <2> QED
    BY <2>2, <2>4, <2>5, <1>1, ListsApart
<1>3. m \in 0..(NHash + Len(rec))
  BY <1>1, ListsApart
<1> QED
  BY <1>1, <1>2, <1>3 DEF Shape, Agree

\* So are those of the chain a process has locked, until it cuts a record out.
LEMMA OwnPointers ==
    ASSUME NEW s, NEW rk, NEW lp, Ready(s, rk, lp), NEW p \in Procs, OnChain(p), ~Unlinking(p)
    PROVE  \A m \in {Chain(p)} \cup s[Chain(p)] : lp[m] = _db_readptr(m)
<1>1. Types /\ Protocol /\ Locking /\ Chain(p) \in 0..NHash
  BY CallTypes DEF Ready
<1>2. ASSUME NEW q \in Procs, Unlinking(q) PROVE Chain(q) # Chain(p)
  <2>1. OnChain(q) /\ q # p
    BY <1>2 DEF Unlinking, OnChain, Chaining
  <2>2. call[q].op # "fetch"
    BY <1>1, <1>2 DEF Unlinking, Protocol, InCallOf
  <2> QED
    BY <2>1, <2>2, <1>1, ChainAlone
<1> DEFINE c == Chain(p)
<1>3. c \in 0..NHash /\ \A q \in Procs : Unlinking(q) => Chain(q) # c
  BY <1>1, <1>2
<1> HIDE DEF c
<1>4. InTheFile(lp, s[c], c)
  <2>1. NotCut(c)
    BY <1>3 DEF NotCut
  <2> QED
    BY <1>3, <2>1, TruePointers
<1> QED
  BY <1>4 DEF c, InTheFile

\* And those of the free list.
LEMMA FreePointers ==
    ASSUME NEW s, NEW rk, NEW lp, Ready(s, rk, lp)
    PROVE  \A m \in {0} \cup s[0] : lp[m] = _db_readptr(m)
<1>1. Types /\ Protocol /\ 0 \in 0..NHash
  BY HashAssumption DEF Ready
<1>2. ASSUME NEW q \in Procs, Unlinking(q) PROVE Chain(q) # 0
  <2>1. OnChain(q)
    BY <1>2 DEF Unlinking, OnChain, Chaining
  <2> QED
    BY <2>1, <1>1, CallTypes
<1>3. InTheFile(lp, s[0], 0)
  <2>1. NotCut(0)
    BY <1>2 DEF NotCut
  <2> QED
    BY <1>1, <2>1, TruePointers
<1> QED
  BY <1>3 DEF InTheFile

\* _db_find_and_lock begins: the chain is locked and its pointer read.
LEMMA FindKeeps ==
    ASSUME NEW s, NEW rk, NEW lp, Ready(s, rk, lp), NEW p \in Procs,
           NEW c \in CallRecord, c.key \in Keys, c.op \in {"fetch", "delete"} \cup Stores,
           c.op \in Stores => c.data \in Data,
           _db_find_and_lock(p, c, IF c.op = "fetch" THEN "r" ELSE "w")
    PROVE  Ready(s, rk, lp)'
<1> DEFINE h == Hash[c.key]
           mode == IF c.op = "fetch" THEN "r" ELSE "w"
           d == [db[p] EXCEPT !.ptroff = h, !.pos = Lost, !.next = _db_readptr(h)]
<1>1. Types /\ Protocol /\ Locking /\ table # <<>> /\ Shape(s, rk, lp)
  BY DEF Ready
<1>2. h \in 1..NHash /\ h \in 0..NHash /\ h \in Nat /\ h \in 0..DatFile /\ NHash \in Nat
  <2>1. h \in 1..NHash /\ NHash \in Nat
    BY HashAssumption
  <2> QED
    BY <2>1 DEF DatFile
<1>3. _db_readptr(h) \in Nat /\ _db_readptr(h) = table[h]
  BY <1>1, <1>2, RecordTypes
<1>4. db[p] \in DbRecord /\ Lost \in {Lost} \cup {o \in Nat : o > NHash}
  BY <1>1 DEF Types
<1>5. Fields(d, h, _db_readptr(h), db[p].idxoff, db[p].ptrval, db[p].datoff, db[p].datlen, db[p].link, Lost)
  BY <1>2, <1>3, <1>4, DbFields
<1>6. Moves(p, "walk", c, d, result[p])
  <2>1. pc \in [Procs -> Pcs] /\ call \in [Procs -> CallRecord] /\ db \in [Procs -> DbRecord]
        /\ result = [q \in Procs |-> result[q]]
    BY <1>1 DEF Types, TypeOK, CallRecord
  <2> QED
    BY <2>1 DEF Moves, _db_find_and_lock, Goto
<1>7. Takes(p) /\ <<p, h, mode>> \in locks' /\ CanLock(p, h, mode)
  <2>1. Lock(p, h, mode) /\ mode \in {"r", "w"}
    BY DEF _db_find_and_lock
  <2> QED
    BY <2>1, <1>1, <1>2, LockTaken DEF Lock
<1>8. History(p) /\ steady'[p] = {} /\ (c.op # "fetch" => \A q \in Procs : q # p => c.key \notin steady'[q])
  BY <1>1, BoundAssumption DEF Types, TypeOK, History, _db_find_and_lock
<1>9. pc[p] = "idle" /\ UNCHANGED <<table, rec, dat, kv>>
  BY DEF _db_find_and_lock, files
<1>10. result[p] = NONE
  BY <1>1, <1>9 DEF Protocol, InCallOf
<1> HIDE DEF d, mode
<1>11. "walk" \in Pcs /\ d \in DbRecord
  BY <1>5 DEF Pcs, Fields
<1>12. pc'[p] = "walk" /\ call'[p] = c /\ db'[p] = d /\ result'[p] = NONE
  BY <1>1, <1>6, <1>10, <1>11, MovesOne
<1>13. Chain(p)' = h
  BY <1>12 DEF Chain
<1>14. InCallOf(p)'
  BY <1>8, <1>12 DEF InCallOf, OnChain, OnRecords, Chaining, Holding, Cutting, Adding, Reusing, Appending, Reading, Stores
<1>15. LocksOf(p)'
  BY <1>7, <1>12, <1>13
     DEF LocksOf, OnChain, OnRecords, Chaining, Holding, Cutting, Adding, Reusing, Appending, Reading, Mode, mode
<1>16. \A q \in Procs : Unlinking(q) => Chain(q) # h
  <2> SUFFICES ASSUME NEW q \in Procs, Unlinking(q) PROVE Chain(q) # h
    OBVIOUS
  <2>1. OnChain(q) /\ q # p /\ call[q].op # "fetch"
    BY <1>1, <1>9 DEF Unlinking, OnChain, Chaining, Protocol, InCallOf, Cutting
  <2>2. <<q, Chain(q), "w">> \in locks
    BY <2>1, <1>1 DEF Locking, LocksOf, Mode
  <2> QED
    BY <2>1, <2>2, <1>7 DEF CanLock
<1>17. lp[h] = table[h]
  <2>1. NotCut(h)
    BY <1>16 DEF NotCut
  <2>2. InTheFile(lp, s[h], h)
    BY <1>2, <2>1, TruePointers
  <2> QED
    BY <1>2, <1>3, <2>2 DEF InTheFile
<1>18. \A o \in s[h] : rk[o] < rk[h]
  BY <1>1, <1>2 DEF Shape, Lists
<1>19. Position(p, s, rk, lp)'
  BY <1>3, <1>5, <1>12, <1>13, <1>17, <1>18
     DEF Position, Fields, Holding, Cutting, Adding, Reusing, Appending
<1>20. Scan(p, s)'
  BY <1>8 DEF Scan
<1> QED
  BY <1>6, <1>7, <1>8, <1>9, <1>10, <1>11, <1>14, <1>15, <1>19, <1>20, PlainReady
     DEF Cutting, Reusing, Appending

\* What a process on a chain knows.
LEMMA OnOwnChain ==
    ASSUME NEW s, NEW rk, NEW lp, Ready(s, rk, lp), NEW p \in Procs, OnChain(p)
    PROVE  /\ Types /\ Protocol /\ Locking /\ table # <<>> /\ Shape(s, rk, lp)
           /\ Chain(p) \in 1..NHash /\ Chain(p) \in 0..NHash /\ Chain(p) # 0 /\ Chain(p) = Hash[call[p].key]
           /\ call[p] \in CallRecord /\ call[p].key \in Keys /\ db[p] \in DbRecord
           /\ InCallOf(p) /\ LocksOf(p) /\ steady[p] = {} /\ Position(p, s, rk, lp)
           /\ s[Chain(p)] \subseteq Items(Len(rec)) /\ List(lp, s[Chain(p)], rk, Chain(p))
           /\ \A m \in {Chain(p)} \cup s[Chain(p)] : m \in 0..(NHash + Len(rec)) /\ rk[m] \in Nat /\ lp[m] \in Nat
<1>1. Types /\ Protocol /\ Locking /\ table # <<>> /\ Shape(s, rk, lp)
  BY DEF Ready
<1>2. Chain(p) \in 1..NHash /\ Chain(p) \in 0..NHash /\ Chain(p) # 0 /\ call[p].key \in Keys /\ Chain(p) = Hash[call[p].key]
  BY <1>1, CallTypes
<1>3. call[p] \in CallRecord /\ db[p] \in DbRecord
  BY <1>1 DEF Types, TypeOK, CallRecord
<1>4. InCallOf(p) /\ LocksOf(p) /\ Position(p, s, rk, lp)
  BY <1>1 DEF Protocol, Locking, Shape
<1>5. steady[p] = {}
  BY <1>4 DEF InCallOf
<1> DEFINE c == Chain(p)
<1>6. c \in 0..NHash
  BY <1>2
<1> HIDE DEF c
<1>7. s[c] \subseteq Items(Len(rec)) /\ \A m \in {c} \cup s[c] : m \in 0..(NHash + Len(rec))
  BY <1>1, <1>6, ListsApart
<1>8. \A m \in {c} \cup s[c] : rk[m] \in Nat /\ lp[m] \in Nat
  BY <1>1, <1>7 DEF Shape, Typed
<1>9. List(lp, s[c], rk, c)
  BY <1>1, <1>6, ListsAreLists DEF Shape
<1> QED
  BY <1>1, <1>2, <1>3, <1>4, <1>5, <1>7, <1>8, <1>9 DEF c

\* The walk goes past a record with another key (_db_find_and_lock).
LEMMA ReadUnequalKeeps ==
    ASSUME NEW s, NEW rk, NEW lp, Ready(s, rk, lp), NEW p \in Procs, ReadUnequal(p)
    PROVE  Ready(s, rk, lp)'
<1> DEFINE c == Chain(p)
           k == call[p].key
           o == db[p].next
           m == db[p].ptroff
           v == Record(o).ptr
           n == o + 1
           d == [db[p] EXCEPT !.ptroff = o, !.next = v, !.pos = n]
<1>1. pc[p] = "walk" /\ o # 0 /\ Key(o) # k /\ UNCHANGED <<table, rec, dat, kv, locks>>
      /\ UNCHANGED <<steady, seen, scanning, bounds>>
  BY DEF ReadUnequal, Key, files, history
<1>2. OnChain(p) /\ ~Unlinking(p)
  BY <1>1 DEF OnChain, Chaining, Unlinking, Cutting
<1>3. /\ Types /\ Protocol /\ Locking /\ table # <<>> /\ Shape(s, rk, lp)
      /\ c \in 0..NHash /\ call[p] \in CallRecord /\ db[p] \in DbRecord
      /\ InCallOf(p) /\ LocksOf(p) /\ steady[p] = {} /\ Position(p, s, rk, lp)
      /\ s[c] \subseteq Items(Len(rec)) /\ List(lp, s[c], rk, c)
      /\ \A x \in {c} \cup s[c] : x \in 0..(NHash + Len(rec)) /\ rk[x] \in Nat /\ lp[x] \in Nat
  BY <1>2, OnOwnChain
<1>4. /\ m \in {c} \cup s[c] /\ lp[m] = o /\ \A x \in s[c] : Key(x) = k => rk[x] < rk[m]
  BY <1>1, <1>3 DEF Position
<1>5. o \in s[c] /\ rk[o] < rk[m]
  BY <1>1, <1>3, <1>4 DEF List
<1>6. lp[o] = v
  <2>1. lp[o] = _db_readptr(o)
    BY <1>2, <1>5, OwnPointers
  <2>2. o \in Items(Len(rec))
    BY <1>3, <1>5
  <2> QED
    BY <1>3, <2>1, <2>2, RecordTypes
<1>7. \A x \in s[c] : Key(x) = k => rk[x] < rk[o]
  <2> SUFFICES ASSUME NEW x \in s[c], Key(x) = k PROVE rk[x] < rk[o]
    OBVIOUS
  <2>1. rk[x] < rk[m]
    BY <1>4
  <2>2. rk[x] <= rk[o]
    BY <1>3, <1>4, <2>1 DEF List
  <2>3. x # o
    BY <1>1
  <2>4. rk[x] # rk[o]
    BY <1>3, <1>5, <2>3 DEF List
  <2> QED
    BY <1>3, <1>5, <2>2, <2>4
<1>8. o \in Nat /\ o > NHash /\ v \in Nat /\ n \in {Lost} \cup {x \in Nat : x > NHash}
  <2>1. o \in Items(Len(rec))
    BY <1>3, <1>5
  <2>2. o \in Nat /\ o > NHash /\ Record(o) \in Records /\ NHash \in Nat
    BY <1>3, <2>1, RecordTypes
  <2> QED
    BY <2>2 DEF Records
<1> HIDE DEF v, n
<1>9. Fields(d, o, v, db[p].idxoff, db[p].ptrval, db[p].datoff, db[p].datlen, db[p].link, n)
  BY <1>3, <1>8, DbFields
<1>10. Moves(p, "walk", call[p], d, result[p])
  <2>1. pc \in [Procs -> Pcs] /\ call \in [Procs -> CallRecord] /\ db \in [Procs -> DbRecord]
        /\ result = [q \in Procs |-> result[q]]
    BY <1>3 DEF Types, TypeOK, CallRecord
  <2> QED
    BY <1>1, <2>1 DEF Moves, ReadUnequal, v, n
<1> HIDE DEF d
<1>11. "walk" \in Pcs /\ d \in DbRecord
  BY <1>9 DEF Pcs, Fields
<1>12. pc'[p] = pc[p] /\ call'[p] = call[p] /\ db'[p] = d /\ result'[p] = result[p]
  BY <1>1, <1>3, <1>10, <1>11, MovesOne
<1>13. Takes(p) /\ locks' = locks /\ History(p) /\ steady' = steady /\ scanning' = scanning
  BY <1>1, <1>3, LocksStay, HistoryStays
<1>14. InCallOf(p)' /\ LocksOf(p)'
  <2>1. Chain(p)' = Chain(p) /\ (OnChain(p))' = OnChain(p) /\ (OnRecords(p))' = OnRecords(p) /\ (Mode(p))' = Mode(p)
    BY <1>12 DEF Chain, OnChain, OnRecords, Mode
  <2> QED
    BY <1>3, <1>12, <1>13, <2>1 DEF InCallOf, LocksOf
<1>15. Position(p, s, rk, lp)'
  BY <1>1, <1>5, <1>6, <1>7, <1>9, <1>12 DEF Position, Fields, Holding, Cutting, Adding, Reusing, Appending, Chain, Key, Record
<1>16. Scan(p, s)'
  BY <1>3, <1>13 DEF Scan
<1> QED
  BY <1>1, <1>3, <1>10, <1>11, <1>13, <1>14, <1>15, <1>16, PlainReady
     DEF Cutting, Reusing, Appending

\* A call that has walked its chain answers without having changed anything.
LEMMA AnswerKeeps ==
    ASSUME NEW s, NEW rk, NEW lp, Ready(s, rk, lp), NEW p \in Procs, pc[p] \in {"walk", "readdat"},
           NEW a, Answer(p, a), UNCHANGED <<files, locks, call, db, history, bounds>>
    PROVE  Ready(s, rk, lp)'
<1> DEFINE r == <<call[p].op, call[p].key, a>>
<1>1. UNCHANGED <<table, rec, dat, kv, locks, call, db>> /\ UNCHANGED <<steady, seen, scanning, bounds>>
  BY DEF files, history
<1>2. OnChain(p) /\ ~Unlinking(p)
  BY DEF OnChain, Chaining, Holding, Unlinking, Cutting
<1>3. /\ Types /\ Protocol /\ Locking /\ table # <<>> /\ Shape(s, rk, lp)
      /\ call[p] \in CallRecord /\ db[p] \in DbRecord
      /\ InCallOf(p) /\ LocksOf(p) /\ steady[p] = {}
  BY <1>2, OnOwnChain
<1>4. Moves(p, "unlock", call[p], db[p], r)
  <2>1. pc \in [Procs -> Pcs] /\ call \in [Procs -> CallRecord] /\ db \in [Procs -> DbRecord]
        /\ result = [q \in Procs |-> result[q]]
    BY <1>3 DEF Types, TypeOK, CallRecord
  <2> QED
    BY <1>1, <2>1 DEF Moves, Answer, Goto
<1> HIDE DEF r
<1>5. "unlock" \in Pcs
  BY DEF Pcs
<1>6. pc'[p] = "unlock" /\ call'[p] = call[p] /\ db'[p] = db[p] /\ result'[p] = r
  BY <1>3, <1>4, <1>5, MovesOne
<1>7. Takes(p) /\ locks' = locks /\ History(p) /\ steady' = steady /\ scanning' = scanning
  BY <1>1, <1>3, LocksStay, HistoryStays
<1>8. call[p].key \in Keys /\ call[p].op # "nextrec"
  BY <1>2, <1>3 DEF InCallOf
<1>9. InCallOf(p)'
  BY <1>3, <1>6, <1>7, <1>8 DEF InCallOf, OnChain, OnRecords, Chaining, Holding, Cutting, Adding, Reusing, Appending, Reading
<1>10. LocksOf(p)'
  <2>1. Chain(p)' = Chain(p) /\ (OnChain(p))' /\ ~(OnRecords(p))' /\ (Mode(p))' = Mode(p)
    BY <1>6, <1>8 DEF Chain, OnChain, OnRecords, Mode, Reading
  <2> QED
    BY <1>2, <1>3, <1>6, <1>7, <2>1 DEF LocksOf, Cutting
<1>11. Position(p, s, rk, lp)'
  BY <1>6 DEF Position, Holding, Cutting, Adding, Reusing, Appending
<1>12. Scan(p, s)'
  BY <1>3, <1>7 DEF Scan
<1> QED
  BY <1>1, <1>3, <1>4, <1>5, <1>7, <1>9, <1>10, <1>11, <1>12, PlainReady
     DEF Cutting, Reusing, Appending

\* db_fetch reads the data of the record it has found (_db_readdat).
LEMMA ReadDatKeeps ==
    ASSUME NEW s, NEW rk, NEW lp, Ready(s, rk, lp), NEW p \in Procs, _db_readdat(p)
    PROVE  Ready(s, rk, lp)'
<1>1. /\ pc[p] \in {"walk", "readdat"} /\ Answer(p, dat[db[p].datoff])
      /\ UNCHANGED <<files, locks, call, db, history, bounds>>
  BY DEF _db_readdat
<1> QED
  BY <1>1, AnswerKeeps

\* The chain has no record with the key.
LEMMA NotFoundKeeps ==
    ASSUME NEW s, NEW rk, NEW lp, Ready(s, rk, lp), NEW p \in Procs, NotFound(p)
    PROVE  Ready(s, rk, lp)'
<1> DEFINE c == Chain(p)
           k == call[p].key
           m == db[p].ptroff
           t == table[c]
           d == [db[p] EXCEPT !.link = t]
<1>1. pc[p] = "walk" /\ db[p].next = 0 /\ UNCHANGED <<table, rec, dat, kv, locks, call>>
      /\ UNCHANGED <<steady, seen, scanning, bounds>> /\ UNCHANGED <<files, locks, call, history, bounds>>
  BY DEF NotFound, files, history
<1>2. OnChain(p) /\ ~Unlinking(p)
  BY <1>1 DEF OnChain, Chaining, Unlinking, Cutting
<1>3. /\ Types /\ Protocol /\ Locking /\ table # <<>> /\ Shape(s, rk, lp)
      /\ c \in 0..NHash /\ call[p] \in CallRecord /\ db[p] \in DbRecord
      /\ InCallOf(p) /\ LocksOf(p) /\ steady[p] = {} /\ Position(p, s, rk, lp)
      /\ List(lp, s[c], rk, c)
  BY <1>2, OnOwnChain
<1>4. CASE call[p].op = "fetch"
  BY <1>1, <1>4, AnswerKeeps DEF NotFound
<1>5. CASE call[p].op \in {"delete", "replace"}
  BY <1>1, <1>5, AnswerKeeps DEF NotFound
<1>6. CASE call[p].op \notin {"fetch", "delete", "replace"}
  <2>1. \A o \in s[c] : Key(o) # k
    <3>1. m \in {c} \cup s[c] /\ lp[m] = 0 /\ \A o \in s[c] : Key(o) = k => rk[o] < rk[m]
      BY <1>1, <1>3 DEF Position
    <3> QED
      BY <1>3, <3>1 DEF List
  <2>2. t \in Nat
    BY <1>3, RecordTypes
  <2>3. Moves(p, "findfree", call[p], d, result[p])
    <3>1. pc \in [Procs -> Pcs] /\ call \in [Procs -> CallRecord] /\ db \in [Procs -> DbRecord]
          /\ result = [q \in Procs |-> result[q]]
      BY <1>3 DEF Types, TypeOK, CallRecord
    <3>2. db' = [db EXCEPT ![p].link = t] /\ Goto(p, "findfree") /\ UNCHANGED result
      BY <1>6 DEF NotFound
    <3> QED
      BY <1>1, <3>1, <3>2 DEF Moves, Goto
  <2> HIDE DEF t
  <2>4. Fields(d, db[p].ptroff, db[p].next, db[p].idxoff, db[p].ptrval, db[p].datoff, db[p].datlen, t, db[p].pos)
    BY <1>3, <2>2, DbFields
  <2> HIDE DEF d
  <2>5. "findfree" \in Pcs /\ d \in DbRecord
    BY <2>4 DEF Pcs, Fields
  <2>6. pc'[p] = "findfree" /\ call'[p] = call[p] /\ db'[p] = d /\ result'[p] = result[p]
    BY <1>3, <2>3, <2>5, MovesOne
  <2>7. Takes(p) /\ locks' = locks /\ History(p) /\ steady' = steady /\ scanning' = scanning
    BY <1>1, <1>3, LocksStay, HistoryStays
  <2>8. call[p].op \in {"insert", "store"} /\ call[p].op \in Ops
    <3>1. call[p].op \in Ops /\ call[p].op # "nextrec"
      BY <1>2, <1>3 DEF CallRecord, InCallOf
    <3> QED
      BY <1>6, <3>1 DEF Ops
  <2>9. InCallOf(p)'
    BY <1>1, <1>2, <1>3, <2>6, <2>7, <2>8
       DEF InCallOf, OnChain, OnRecords, Chaining, Holding, Cutting, Adding, Reusing, Appending, Reading
  <2>10. LocksOf(p)'
    <3>1. Chain(p)' = Chain(p) /\ (OnChain(p))' /\ ~(OnRecords(p))' /\ (Mode(p))' = Mode(p)
      BY <2>6 DEF Chain, OnChain, OnRecords, Mode, Reading, Chaining, Adding
    <3> QED
      BY <1>2, <1>3, <2>6, <2>7, <3>1 DEF LocksOf, Cutting
  <2>11. Position(p, s, rk, lp)'
    <3>1. Chain(p)' = c
      BY <2>6 DEF Chain
    <3> QED
      BY <1>1, <2>1, <2>4, <2>6, <3>1 DEF Position, Fields, Holding, Cutting, Adding, Reusing, Appending, Key, Record, t
  <2>12. Scan(p, s)'
    BY <1>3, <2>7 DEF Scan
  <2> QED
    BY <1>1, <1>3, <2>3, <2>5, <2>7, <2>9, <2>10, <2>11, <2>12, PlainReady
       DEF Cutting, Reusing, Appending
<1> QED
  BY <1>4, <1>5, <1>6

\* The chain has a record with the key; db_store may find another size in it.
LEMMA FoundKeeps ==
    ASSUME NEW s, NEW rk, NEW lp, Ready(s, rk, lp), NEW p \in Procs, Found(p)
    PROVE  Ready(s, rk, lp)'
<1> DEFINE c == Chain(p)
           k == call[p].key
           o == db[p].next
           v == Record(o).ptr
           n == o + 1
           x == Record(o).datoff
           y == Record(o).datlen
           d == [db[p] EXCEPT !.idxoff = o, !.ptrval = v, !.pos = n, !.datoff = x, !.datlen = y]
           Turn(l, r) == /\ l \in {"readdat", "delete", "overwrite", "unlock"}
                         /\ l # "unlock" => r = result[p]
                         /\ l = "readdat" => call[p].op = "fetch"
                         /\ l = "delete" => call[p].op \in {"delete", "replace", "store"}
                         /\ l = "overwrite" => call[p].op \in {"replace", "store"}
<1>1. pc[p] = "walk" /\ o # 0 /\ Key(o) = k /\ UNCHANGED <<table, rec, dat, kv, locks, call>>
      /\ UNCHANGED <<steady, seen, scanning, bounds>>
  BY DEF Found, Key, files, history
<1>2. OnChain(p) /\ ~Unlinking(p)
  BY <1>1 DEF OnChain, Chaining, Unlinking, Cutting
<1>3. /\ Types /\ Protocol /\ Locking /\ table # <<>> /\ Shape(s, rk, lp)
      /\ c \in 0..NHash /\ call[p] \in CallRecord /\ db[p] \in DbRecord
      /\ InCallOf(p) /\ LocksOf(p) /\ steady[p] = {} /\ Position(p, s, rk, lp)
      /\ s[c] \subseteq Items(Len(rec)) /\ List(lp, s[c], rk, c)
  BY <1>2, OnOwnChain
<1>4. db[p].ptroff \in {c} \cup s[c] /\ lp[db[p].ptroff] = o
  BY <1>1, <1>3 DEF Position
<1>5. o \in s[c] /\ o \in Items(Len(rec))
  BY <1>1, <1>3, <1>4 DEF List
<1>6. lp[o] = v
  <2>1. lp[o] = _db_readptr(o)
    BY <1>2, <1>5, OwnPointers
  <2> QED
    BY <1>3, <2>1, <1>5, RecordTypes
<1>7. o \in Nat /\ v \in Nat /\ x \in Nat /\ y \in Nat /\ n \in {Lost} \cup {i \in Nat : i > NHash}
  <2>2. o \in Nat /\ o > NHash /\ Record(o) \in Records /\ NHash \in Nat
    BY <1>3, <1>5, RecordTypes
  <2> QED
    BY <2>2 DEF Records
<1>8. \E l, r : Turn(l, r) /\ Moves(p, l, call[p], d, r)
  <2>1. pc \in [Procs -> Pcs] /\ call \in [Procs -> CallRecord] /\ db \in [Procs -> DbRecord]
        /\ result = [q \in Procs |-> result[q]]
    BY <1>3 DEF Types, TypeOK, CallRecord
  <2>2. /\ db' = [db EXCEPT ![p].idxoff = o, ![p].ptrval = v, ![p].pos = n, ![p].datoff = x, ![p].datlen = y]
        /\ call' = call
    BY DEF Found
  <2>3. db' = [db EXCEPT ![p] = d] /\ call' = [call EXCEPT ![p] = call[p]] /\ result = [result EXCEPT ![p] = result[p]]
    BY <2>1, <2>2
  <2> HIDE DEF d
  <2>4. CASE call[p].op = "fetch"
    <3>1. Goto(p, "readdat") /\ UNCHANGED result
      BY <2>4 DEF Found
    <3>2. Moves(p, "readdat", call[p], d, result[p])
      BY <2>3, <3>1 DEF Moves, Goto
    <3> QED
      BY <3>2, <2>4
  <2>5. CASE call[p].op = "delete"
    <3>1. Goto(p, "delete") /\ UNCHANGED result
      BY <2>5 DEF Found
    <3>2. Moves(p, "delete", call[p], d, result[p])
      BY <2>3, <3>1 DEF Moves, Goto
    <3> QED
      BY <3>2, <2>5
  <2>6. CASE call[p].op = "insert"
    <3>1. Answer(p, "exists")
      BY <2>6 DEF Found
    <3>2. Moves(p, "unlock", call[p], d, <<call[p].op, call[p].key, "exists">>)
      BY <2>3, <3>1 DEF Moves, Goto, Answer
    <3> QED
      BY <3>2
  <2>7. CASE call[p].op \notin {"fetch", "delete", "insert"}
    <3>1. Goto(p, IF Size(p) # y THEN "delete" ELSE "overwrite") /\ UNCHANGED result
      BY <2>7 DEF Found
    <3>2. call[p].op \in {"replace", "store"}
      <4>1. call[p].op \in Ops /\ call[p].op # "nextrec"
        BY <1>2, <1>3 DEF CallRecord, InCallOf
      <4> QED
        BY <2>7, <4>1 DEF Ops
    <3>3. CASE Size(p) # y
      <4>1. Moves(p, "delete", call[p], d, result[p])
        BY <2>3, <3>1, <3>3 DEF Moves, Goto
      <4> QED
        BY <4>1, <3>2
    <3>4. CASE Size(p) = y
      <4>1. Moves(p, "overwrite", call[p], d, result[p])
        BY <2>3, <3>1, <3>4 DEF Moves, Goto
      <4> QED
        BY <4>1, <3>2
    <3> QED
      BY <3>3, <3>4
  <2> QED
    BY <2>4, <2>5, <2>6, <2>7
<1> HIDE DEF v, n, x, y
<1>9. Fields(d, db[p].ptroff, db[p].next, o, v, x, y, db[p].link, n)
  BY <1>3, <1>7, DbFields
<1> HIDE DEF d
<1>10. PICK l, r : Turn(l, r) /\ Moves(p, l, call[p], d, r)
  BY <1>8
<1>11. l \in Pcs /\ d \in DbRecord
  BY <1>9, <1>10 DEF Pcs, Fields
<1>12. pc'[p] = l /\ call'[p] = call[p] /\ db'[p] = d /\ result'[p] = r
  BY <1>3, <1>10, <1>11, MovesOne
<1>13. Takes(p) /\ locks' = locks /\ History(p) /\ steady' = steady /\ scanning' = scanning
  BY <1>1, <1>3, LocksStay, HistoryStays
<1>14. InCallOf(p)'
  BY <1>1, <1>2, <1>3, <1>10, <1>12, <1>13
     DEF InCallOf, OnChain, OnRecords, Chaining, Holding, Cutting, Adding, Reusing, Appending, Reading
<1>15. LocksOf(p)'
  <2>1. Chain(p)' = Chain(p) /\ (OnChain(p))' /\ ~(OnRecords(p))' /\ (Mode(p))' = Mode(p)
    BY <1>2, <1>3, <1>10, <1>12 DEF Chain, OnChain, OnRecords, Mode, Reading, Chaining, Holding, InCallOf
  <2> QED
    BY <1>2, <1>3, <1>10, <1>12, <1>13, <2>1 DEF LocksOf, Cutting
<1>16. Position(p, s, rk, lp)'
  <2>1. Chain(p)' = c /\ rec' = rec
    BY <1>1, <1>12 DEF Chain
  <2> QED
    BY <1>1, <1>4, <1>5, <1>6, <1>9, <1>10, <1>12, <2>1
       DEF Position, Fields, Holding, Cutting, Adding, Reusing, Appending, Key, Datoff, Record, x
<1>17. Scan(p, s)'
  BY <1>3, <1>13 DEF Scan
<1> QED
  <2>1. /\ pc[p] \notin {"blank", "link", "dead"} \cup Cutting \cup Reusing
        /\ l \notin {"link", "dead", "init"} \cup Cutting \cup Reusing
        /\ l \notin {"idxseek", "idxwrite"} /\ pc[p] \notin {"idxseek", "idxwrite"} /\ pc[p] \notin Appending
    BY <1>1, <1>10 DEF Cutting, Reusing, Appending
  <2> QED
    BY <1>1, <1>3, <1>10, <1>11, <1>13, <1>14, <1>15, <1>16, <1>17, <2>1, PlainReady

\* The free list is locked and its pointer read (_db_findfree).
LEMMA FindFreeKeeps ==
    ASSUME NEW s, NEW rk, NEW lp, Ready(s, rk, lp), NEW p \in Procs, _db_findfree(p)
    PROVE  Ready(s, rk, lp)'
<1> DEFINE c == Chain(p)
           t == _db_readptr(0)
           d == [db[p] EXCEPT !.ptroff = 0, !.next = t]
<1>1. pc[p] = "findfree" /\ Lock(p, FREE_OFF, "w") /\ UNCHANGED <<table, rec, dat, kv, call>>
      /\ UNCHANGED <<steady, seen, scanning, bounds>>
  BY DEF _db_findfree, files, history
<1>2. OnChain(p) /\ ~Unlinking(p)
  BY <1>1 DEF OnChain, Chaining, Adding, Appending, Unlinking, Cutting
<1>3. /\ Types /\ Protocol /\ Locking /\ table # <<>> /\ Shape(s, rk, lp)
      /\ c \in 0..NHash /\ c # 0 /\ c \in 1..NHash /\ call[p] \in CallRecord /\ db[p] \in DbRecord
      /\ InCallOf(p) /\ LocksOf(p) /\ steady[p] = {} /\ Position(p, s, rk, lp)
      /\ s[c] \subseteq Items(Len(rec))
  BY <1>2, OnOwnChain
<1>31. lp[0] = t
  BY FreePointers
<1>32. t \in Nat /\ 0 \in Nat
  <2>1. 0 \in 0..NHash
    BY HashAssumption
  <2> QED
    BY <1>3, <2>1, RecordTypes
<1> HIDE DEF t
<1>4. Fields(d, 0, t, db[p].idxoff, db[p].ptrval, db[p].datoff, db[p].datlen, db[p].link, db[p].pos)
  BY <1>3, <1>32, DbFields
<1>5. Moves(p, "freewalk", call[p], d, result[p])
  <2>1. pc \in [Procs -> Pcs] /\ call \in [Procs -> CallRecord] /\ db \in [Procs -> DbRecord]
        /\ result = [q \in Procs |-> result[q]]
    BY <1>3 DEF Types, TypeOK, CallRecord
  <2> QED
    BY <1>1, <2>1 DEF Moves, _db_findfree, Goto, FREE_OFF, t
<1> HIDE DEF d
<1>6. "freewalk" \in Pcs /\ d \in DbRecord
  BY <1>4 DEF Pcs, Fields
<1>7. pc'[p] = "freewalk" /\ call'[p] = call[p] /\ db'[p] = d /\ result'[p] = result[p]
  BY <1>3, <1>5, <1>6, MovesOne
<1>8. History(p) /\ steady' = steady /\ scanning' = scanning
  BY <1>1, <1>3, HistoryStays
<1>9. Takes(p) /\ <<p, FREE_OFF, "w">> \in locks' /\ \A l \in locks : l \in locks'
  <2>1. FREE_OFF \in 0..DatFile /\ "w" \in {"r", "w"}
    BY HashAssumption DEF DatFile, FREE_OFF, IdxEnd
  <2> QED
    BY <1>1, <1>3, <2>1, LockTaken
<1>10. InCallOf(p)'
  BY <1>1, <1>2, <1>3, <1>7, <1>8
     DEF InCallOf, OnChain, OnRecords, Chaining, Holding, Cutting, Adding, Reusing, Appending, Reading
<1>11. LocksOf(p)'
  <2>1. Chain(p)' = Chain(p) /\ (OnChain(p))' /\ ~(OnRecords(p))' /\ (Mode(p))' = Mode(p)
    BY <1>7 DEF Chain, OnChain, OnRecords, Mode, Reading, Chaining, Adding, Appending
  <2> QED
    BY <1>1, <1>2, <1>3, <1>7, <1>9, <2>1 DEF LocksOf, Cutting
<1>12. Position(p, s, rk, lp)'
  <2>1. Chain(p)' = c /\ rec' = rec /\ dat' = dat /\ table' = table /\ kv' = kv
    BY <1>1, <1>7 DEF Chain
  <2> QED
    BY <1>1, <1>3, <1>4, <1>7, <1>31, <2>1
       DEF Position, Fields, Holding, Cutting, Adding, Reusing, Appending, Key, Datoff, Record, FREE_OFF
<1>13. Scan(p, s)'
  BY <1>3, <1>8 DEF Scan
<1> QED
  BY <1>1, <1>3, <1>4, <1>5, <1>6, <1>8, <1>9, <1>10, <1>11, <1>12, <1>13, PlainReady
     DEF Cutting, Reusing, Appending, Fields

\* No free record fits: the list is unlocked, the record will be appended.
LEMMA NoneFreeKeeps ==
    ASSUME NEW s, NEW rk, NEW lp, Ready(s, rk, lp), NEW p \in Procs, NoneFree(p)
    PROVE  Ready(s, rk, lp)'
<1> DEFINE c == Chain(p)
           d == db[p]
<1>1. pc[p] = "freewalk" /\ Release(p, FREE_OFF) /\ UNCHANGED <<table, rec, dat, kv, call>>
      /\ UNCHANGED <<steady, seen, scanning, bounds>>
  BY DEF NoneFree, files, history
<1>2. OnChain(p) /\ ~Unlinking(p)
  BY <1>1 DEF OnChain, Chaining, Adding, Appending, Unlinking, Cutting
<1>3. /\ Types /\ Protocol /\ Locking /\ table # <<>> /\ Shape(s, rk, lp)
      /\ c \in 0..NHash /\ c # 0 /\ c \in 1..NHash /\ call[p] \in CallRecord /\ db[p] \in DbRecord
      /\ InCallOf(p) /\ LocksOf(p) /\ steady[p] = {} /\ Position(p, s, rk, lp)
      /\ s[c] \subseteq Items(Len(rec))
  BY <1>2, OnOwnChain
<1>4. Fields(d, db[p].ptroff, db[p].next, db[p].idxoff, db[p].ptrval, db[p].datoff, db[p].datlen, db[p].link, db[p].pos)
  BY <1>3 DEF Fields
<1>5. Moves(p, "datseek", call[p], d, result[p])
  <2>1. pc \in [Procs -> Pcs] /\ call \in [Procs -> CallRecord] /\ db \in [Procs -> DbRecord]
        /\ result = [q \in Procs |-> result[q]]
    BY <1>3 DEF Types, TypeOK, CallRecord
  <2> QED
    BY <1>1, <2>1 DEF Moves, NoneFree, Goto
<1> HIDE DEF d
<1>6. "datseek" \in Pcs /\ d \in DbRecord
  BY <1>4 DEF Pcs, Fields
<1>7. pc'[p] = "datseek" /\ call'[p] = call[p] /\ db'[p] = d /\ result'[p] = result[p]
  BY <1>3, <1>5, <1>6, MovesOne
<1>8. History(p) /\ steady' = steady /\ scanning' = scanning
  BY <1>1, <1>3, HistoryStays
<1>9. Takes(p) /\ \A l \in locks : l[2] # FREE_OFF => l \in locks'
  BY <1>1, <1>3, LockReleased
<1>10. InCallOf(p)'
  BY <1>1, <1>2, <1>3, <1>7, <1>8
     DEF InCallOf, OnChain, OnRecords, Chaining, Holding, Cutting, Adding, Reusing, Appending, Reading, Stores
<1>11. LocksOf(p)'
  <2>1. Chain(p)' = Chain(p) /\ (OnChain(p))' /\ ~(OnRecords(p))' /\ (Mode(p))' = Mode(p)
    BY <1>7 DEF Chain, OnChain, OnRecords, Mode, Reading, Chaining, Adding, Appending
  <2> QED
    BY <1>1, <1>2, <1>3, <1>7, <1>9, <2>1 DEF LocksOf, Cutting, FREE_OFF
<1>12. Position(p, s, rk, lp)'
  <2>1. Chain(p)' = c /\ rec' = rec /\ dat' = dat /\ table' = table /\ kv' = kv
    BY <1>1, <1>7 DEF Chain
  <2> QED
    BY <1>1, <1>3, <1>4, <1>7, <2>1
       DEF Position, Fields, Holding, Cutting, Adding, Reusing, Appending, Key, Datoff, Record, InCallOf
<1>13. Scan(p, s)'
  BY <1>3, <1>8 DEF Scan
<1> QED
  BY <1>1, <1>3, <1>4, <1>5, <1>6, <1>8, <1>9, <1>10, <1>11, <1>12, <1>13, PlainReady
     DEF Cutting, Reusing, Appending, Fields

\* A free record does not fit (_db_findfree).
LEMMA FreeUnfitKeeps ==
    ASSUME NEW s, NEW rk, NEW lp, Ready(s, rk, lp), NEW p \in Procs, FreeUnfit(p)
    PROVE  Ready(s, rk, lp)'
<1> DEFINE c == Chain(p)
           o == db[p].next
           v == Record(o).ptr
           d == [db[p] EXCEPT !.ptroff = o, !.next = v]
<1>1. pc[p] = "freewalk" /\ db[p].next # 0 /\ UNCHANGED locks /\ UNCHANGED <<table, rec, dat, kv, call>>
      /\ UNCHANGED <<steady, seen, scanning, bounds>>
  BY DEF FreeUnfit, files, history
<1>2. OnChain(p) /\ ~Unlinking(p)
  BY <1>1 DEF OnChain, Chaining, Adding, Appending, Unlinking, Cutting
<1>3. /\ Types /\ Protocol /\ Locking /\ table # <<>> /\ Shape(s, rk, lp)
      /\ c \in 0..NHash /\ c # 0 /\ c \in 1..NHash /\ call[p] \in CallRecord /\ db[p] \in DbRecord
      /\ InCallOf(p) /\ LocksOf(p) /\ steady[p] = {} /\ Position(p, s, rk, lp)
      /\ s[c] \subseteq Items(Len(rec))
  BY <1>2, OnOwnChain
<1>31. o \in s[0] /\ lp[o] = v /\ o \in Items(Len(rec)) /\ o \in Nat /\ v \in Nat
  <2>1. db[p].ptroff \in {0} \cup s[0] /\ lp[db[p].ptroff] = o /\ 0 \in 0..NHash
    BY <1>1, <1>3, HashAssumption DEF Position, FREE_OFF
  <2>2. List(lp, s[0], rk, 0) /\ s[0] \subseteq Items(Len(rec))
    BY <1>3, <2>1, ListsAreLists DEF Shape, Typed
  <2>3. o \in s[0] /\ o \in Items(Len(rec))
    BY <1>1, <2>1, <2>2 DEF List
  <2>4. \A m \in {0} \cup s[0] : lp[m] = _db_readptr(m)
    BY FreePointers
  <2>5. _db_readptr(o) = v /\ o \in Nat /\ Record(o) \in Records
    BY <1>3, <2>3, RecordTypes
  <2> QED
    BY <2>3, <2>4, <2>5 DEF Records
<1> HIDE DEF v
<1>4. Fields(d, o, v, db[p].idxoff, db[p].ptrval, db[p].datoff, db[p].datlen, db[p].link, db[p].pos)
  BY <1>3, <1>31, DbFields
<1>5. Moves(p, "freewalk", call[p], d, result[p])
  <2>1. pc \in [Procs -> Pcs] /\ call \in [Procs -> CallRecord] /\ db \in [Procs -> DbRecord]
        /\ result = [q \in Procs |-> result[q]]
    BY <1>3 DEF Types, TypeOK, CallRecord
  <2> QED
    BY <1>1, <2>1 DEF Moves, FreeUnfit, Goto, v
<1> HIDE DEF d
<1>6. "freewalk" \in Pcs /\ d \in DbRecord
  BY <1>4 DEF Pcs, Fields
<1>7. pc'[p] = "freewalk" /\ call'[p] = call[p] /\ db'[p] = d /\ result'[p] = result[p]
  BY <1>3, <1>5, <1>6, MovesOne
<1>8. History(p) /\ steady' = steady /\ scanning' = scanning
  BY <1>1, <1>3, HistoryStays
<1>9. Takes(p) /\ locks' = locks
  BY <1>1, <1>3, LocksStay
<1>10. InCallOf(p)'
  BY <1>1, <1>2, <1>3, <1>7, <1>8
     DEF InCallOf, OnChain, OnRecords, Chaining, Holding, Cutting, Adding, Reusing, Appending, Reading
<1>11. LocksOf(p)'
  <2>1. Chain(p)' = Chain(p) /\ (OnChain(p))' /\ ~(OnRecords(p))' /\ (Mode(p))' = Mode(p)
    BY <1>7 DEF Chain, OnChain, OnRecords, Mode, Reading, Chaining, Adding, Appending
  <2> QED
    BY <1>1, <1>2, <1>3, <1>7, <1>9, <2>1 DEF LocksOf, Cutting
<1>12. Position(p, s, rk, lp)'
  <2>1. Chain(p)' = c /\ rec' = rec /\ dat' = dat /\ table' = table /\ kv' = kv
    BY <1>1, <1>7 DEF Chain
  <2> QED
    BY <1>1, <1>3, <1>4, <1>7, <1>31, <2>1
       DEF Position, Fields, Holding, Cutting, Adding, Reusing, Appending, Key, Datoff, Record, FREE_OFF, v
<1>13. Scan(p, s)'
  BY <1>3, <1>8 DEF Scan
<1> QED
  BY <1>1, <1>3, <1>4, <1>5, <1>6, <1>8, <1>9, <1>10, <1>11, <1>12, <1>13, PlainReady
     DEF Cutting, Reusing, Appending, Fields

\* The data file is locked and its end sought (_db_writedat).
LEMMA DatSeekKeeps ==
    ASSUME NEW s, NEW rk, NEW lp, Ready(s, rk, lp), NEW p \in Procs, _db_writedat(p), pc[p] = "datseek"
    PROVE  Ready(s, rk, lp)'
<1> DEFINE c == Chain(p)
           x == Len(dat) + 1
           d == [db[p] EXCEPT !.datoff = x]
<1>1. pc[p] = "datseek" /\ Lock(p, DatFile, "w") /\ UNCHANGED <<table, rec, dat, kv, call>>
      /\ UNCHANGED <<steady, seen, scanning, bounds>>
  BY DEF _db_writedat, files, history
<1>2. OnChain(p) /\ ~Unlinking(p)
  BY <1>1 DEF OnChain, Chaining, Adding, Appending, Unlinking, Cutting
<1>3. /\ Types /\ Protocol /\ Locking /\ table # <<>> /\ Shape(s, rk, lp)
      /\ c \in 0..NHash /\ c # 0 /\ c \in 1..NHash /\ call[p] \in CallRecord /\ db[p] \in DbRecord
      /\ InCallOf(p) /\ LocksOf(p) /\ steady[p] = {} /\ Position(p, s, rk, lp)
      /\ s[c] \subseteq Items(Len(rec))
  BY <1>2, OnOwnChain
<1>31. x \in Nat
  BY <1>3, RecordTypes
<1> HIDE DEF x
<1>4. Fields(d, db[p].ptroff, db[p].next, db[p].idxoff, db[p].ptrval, x, db[p].datlen, db[p].link, db[p].pos)
  BY <1>3, <1>31, DbFields
<1>5. Moves(p, "datwrite", call[p], d, result[p])
  <2>1. pc \in [Procs -> Pcs] /\ call \in [Procs -> CallRecord] /\ db \in [Procs -> DbRecord]
        /\ result = [q \in Procs |-> result[q]]
    BY <1>3 DEF Types, TypeOK, CallRecord
  <2> QED
    BY <1>1, <2>1 DEF Moves, _db_writedat, Goto, x
<1> HIDE DEF d
<1>6. "datwrite" \in Pcs /\ d \in DbRecord
  BY <1>4 DEF Pcs, Fields
<1>7. pc'[p] = "datwrite" /\ call'[p] = call[p] /\ db'[p] = d /\ result'[p] = result[p]
  BY <1>3, <1>5, <1>6, MovesOne
<1>8. History(p) /\ steady' = steady /\ scanning' = scanning
  BY <1>1, <1>3, HistoryStays
<1>9. Takes(p) /\ <<p, DatFile, "w">> \in locks' /\ \A l \in locks : l \in locks'
  <2>1. DatFile \in 0..DatFile /\ "w" \in {"r", "w"}
    BY HashAssumption DEF DatFile, FREE_OFF, IdxEnd
  <2> QED
    BY <1>1, <1>3, <2>1, LockTaken
<1>10. InCallOf(p)'
  BY <1>1, <1>2, <1>3, <1>7, <1>8
     DEF InCallOf, OnChain, OnRecords, Chaining, Holding, Cutting, Adding, Reusing, Appending, Reading
<1>11. LocksOf(p)'
  <2>1. Chain(p)' = Chain(p) /\ (OnChain(p))' /\ ~(OnRecords(p))' /\ (Mode(p))' = Mode(p)
    BY <1>7 DEF Chain, OnChain, OnRecords, Mode, Reading, Chaining, Adding, Appending
  <2> QED
    BY <1>1, <1>2, <1>3, <1>7, <1>9, <2>1 DEF LocksOf, Cutting
<1>12. Position(p, s, rk, lp)'
  <2>1. Chain(p)' = c /\ rec' = rec /\ dat' = dat /\ table' = table /\ kv' = kv
    BY <1>1, <1>7 DEF Chain
  <2> QED
    BY <1>1, <1>3, <1>4, <1>7, <2>1
       DEF Position, Fields, Holding, Cutting, Adding, Reusing, Appending, Key, Datoff, Record, x
<1>13. Scan(p, s)'
  BY <1>3, <1>8 DEF Scan
<1> QED
  BY <1>1, <1>3, <1>4, <1>5, <1>6, <1>8, <1>9, <1>10, <1>11, <1>12, <1>13, PlainReady
     DEF Cutting, Reusing, Appending, Fields

\* The index file is locked and its end sought (_db_writeidx).
LEMMA IdxSeekKeeps ==
    ASSUME NEW s, NEW rk, NEW lp, Ready(s, rk, lp), NEW p \in Procs, _db_writeidx(p), pc[p] = "idxseek"
    PROVE  Ready(s, rk, lp)'
<1> DEFINE c == Chain(p)
           x == NHash + Len(rec) + 1
           d == [db[p] EXCEPT !.idxoff = x]
<1>1. pc[p] = "idxseek" /\ Lock(p, IdxEnd, "w") /\ UNCHANGED <<table, rec, dat, kv, call>>
      /\ UNCHANGED <<steady, seen, scanning, bounds>>
  BY DEF _db_writeidx, files, history
<1>2. OnChain(p) /\ ~Unlinking(p)
  BY <1>1 DEF OnChain, Chaining, Adding, Appending, Unlinking, Cutting
<1>3. /\ Types /\ Protocol /\ Locking /\ table # <<>> /\ Shape(s, rk, lp)
      /\ c \in 0..NHash /\ c # 0 /\ c \in 1..NHash /\ call[p] \in CallRecord /\ db[p] \in DbRecord
      /\ InCallOf(p) /\ LocksOf(p) /\ steady[p] = {} /\ Position(p, s, rk, lp)
      /\ s[c] \subseteq Items(Len(rec))
  BY <1>2, OnOwnChain
<1>31. x \in Nat
  BY <1>3, RecordTypes
<1> HIDE DEF x
<1>4. Fields(d, db[p].ptroff, db[p].next, x, db[p].ptrval, db[p].datoff, db[p].datlen, db[p].link, db[p].pos)
  BY <1>3, <1>31, DbFields
<1>5. Moves(p, "idxwrite", call[p], d, result[p])
  <2>1. pc \in [Procs -> Pcs] /\ call \in [Procs -> CallRecord] /\ db \in [Procs -> DbRecord]
        /\ result = [q \in Procs |-> result[q]]
    BY <1>3 DEF Types, TypeOK, CallRecord
  <2> QED
    BY <1>1, <2>1 DEF Moves, _db_writeidx, Goto, x
<1> HIDE DEF d
<1>6. "idxwrite" \in Pcs /\ d \in DbRecord
  BY <1>4 DEF Pcs, Fields
<1>7. pc'[p] = "idxwrite" /\ call'[p] = call[p] /\ db'[p] = d /\ result'[p] = result[p]
  BY <1>3, <1>5, <1>6, MovesOne
<1>8. History(p) /\ steady' = steady /\ scanning' = scanning
  BY <1>1, <1>3, HistoryStays
<1>9. Takes(p) /\ <<p, IdxEnd, "w">> \in locks' /\ \A l \in locks : l \in locks'
  <2>1. IdxEnd \in 0..DatFile /\ "w" \in {"r", "w"}
    BY HashAssumption DEF DatFile, FREE_OFF, IdxEnd
  <2> QED
    BY <1>1, <1>3, <2>1, LockTaken
<1>10. InCallOf(p)'
  BY <1>1, <1>2, <1>3, <1>7, <1>8
     DEF InCallOf, OnChain, OnRecords, Chaining, Holding, Cutting, Adding, Reusing, Appending, Reading
<1>11. LocksOf(p)'
  <2>1. Chain(p)' = Chain(p) /\ (OnChain(p))' /\ ~(OnRecords(p))' /\ (Mode(p))' = Mode(p)
    BY <1>7 DEF Chain, OnChain, OnRecords, Mode, Reading, Chaining, Adding, Appending
  <2> QED
    BY <1>1, <1>2, <1>3, <1>7, <1>9, <2>1 DEF LocksOf, Cutting
<1>12. Position(p, s, rk, lp)'
  <2>1. Chain(p)' = c /\ rec' = rec /\ dat' = dat /\ table' = table /\ kv' = kv
    BY <1>1, <1>7 DEF Chain
  <2> QED
    BY <1>1, <1>3, <1>4, <1>7, <2>1
       DEF Position, Fields, Holding, Cutting, Adding, Reusing, Appending, Key, Datoff, Record, x
<1>13. Scan(p, s)'
  BY <1>3, <1>8 DEF Scan
<1> QED
  BY <1>1, <1>3, <1>4, <1>5, <1>6, <1>8, <1>9, <1>10, <1>11, <1>12, <1>13, PlainReady
     DEF Cutting, Reusing, Appending, Fields

\* What a scan has seen does not depend on where in a call the process is, as long
\* as the file offset stays (db_nextrec).
LEMMA OwnScanKept ==
    ASSUME NEW p \in Procs, NEW s, Scan(p, s), Others(p), UNCHANGED <<rec, kv>>,
           scanning'[p] = scanning[p], steady'[p] = steady[p], seen'[p] = seen[p],
           pc[p] \notin {"dead", "aborted", "nextdat"}, pc'[p] # "nextdat",
           db'[p].pos = db[p].pos, call'[p].op \in {"fetch", "nextrec"}
    PROVE  Scan(p, s)'
<1> SUFFICES ASSUME scanning'[p], NEW k \in steady'[p]
             PROVE  /\ \A r \in Procs : call'[r].key = k => call'[r].op \in {"fetch", "nextrec"}
                    /\ kv'[k] # NONE
                    /\ \E o \in s[Hash[k]] :
                          /\ Key(o)' = k /\ db'[p].pos # Lost
                          /\ (k \in seen'[p]) = (o < IF pc'[p] = "nextdat" THEN db'[p].pos - 1 ELSE db'[p].pos)
  BY DEF Scan
<1>1. /\ \A r \in Procs : call[r].key = k => call[r].op \in {"fetch", "nextrec"}
      /\ kv[k] # NONE
      /\ \E o \in s[Hash[k]] :
            /\ Key(o) = k /\ db[p].pos # Lost
            /\ (k \in seen[p]) = (o < IF pc[p] = "nextdat" THEN db[p].pos - 1 ELSE db[p].pos)
  BY DEF Scan
<1>2. \A r \in Procs : call'[r].key = k => call'[r].op \in {"fetch", "nextrec"}
  BY <1>1 DEF Others
<1>3. PICK o \in s[Hash[k]] :
            /\ Key(o) = k /\ db[p].pos # Lost
            /\ (k \in seen[p]) = (o < IF pc[p] = "nextdat" THEN db[p].pos - 1 ELSE db[p].pos)
  BY <1>1
<1>4. Key(o)' = k
  BY <1>3 DEF Key, Record
<1> QED
  BY <1>1, <1>2, <1>3, <1>4

\* A call returns: un_lock, and nothing is left of it but the file offset.
LEMMA UnlockKeeps ==
    ASSUME NEW s, NEW rk, NEW lp, Ready(s, rk, lp), NEW p \in Procs, Unlock(p)
    PROVE  Ready(s, rk, lp)'
<1> DEFINE n == db[p].pos
           d == [NewDb EXCEPT !.pos = n]
<1>1. /\ pc[p] = "unlock" /\ UNCHANGED <<table, rec, dat, kv>> /\ UNCHANGED <<steady, seen, scanning, bounds>>
      /\ \E what : Release(p, what)
  BY DEF Unlock, files, history
<1>2. Types /\ Protocol /\ Locking /\ table # <<>> /\ Shape(s, rk, lp)
  BY DEF Ready
<1>3. db[p] \in DbRecord /\ n \in {Lost} \cup {o \in Nat : o > NHash} /\ NewDb \in DbRecord
  <2>1. db[p] \in DbRecord
    BY <1>2 DEF Types
  <2>2. NewDb \in DbRecord
    BY HashAssumption DEF NewDb, DbRecord
  <2> QED
    BY <2>1, <2>2 DEF DbRecord
<1>4. NoCall \in CallRecord
  BY DEF NoCall, CallRecord, Ops, Values
<1>5. Moves(p, "idle", NoCall, d, NONE)
  BY DEF Moves, Unlock, Goto
<1> HIDE DEF n
<1>6. d \in DbRecord /\ d.pos = n
  BY <1>3 DEF DbRecord
<1> HIDE DEF d
<1>7. "idle" \in Pcs
  BY DEF Pcs
<1>8. /\ pc'[p] = "idle" /\ call'[p] = NoCall /\ db'[p] = d /\ result'[p] = NONE
      /\ \A q \in Procs : q # p => pc'[q] = pc[q] /\ call'[q] = call[q] /\ db'[q] = db[q] /\ result'[q] = result[q]
  BY <1>2, <1>4, <1>5, <1>6, <1>7, MovesOne
<1>9. Takes(p) /\ History(p) /\ steady' = steady /\ seen' = seen /\ scanning' = scanning
  BY <1>1, <1>2, LockReleased, HistoryStays
<1>10. Others(p)
  BY <1>8, <1>9 DEF Others
<1>11. InCallOf(p)' /\ LocksOf(p)'
  BY <1>8 DEF InCallOf, LocksOf, NoCall, Stores, OnChain, OnRecords, Chaining, Holding, Cutting, Adding, Reusing, Appending, Reading
<1>12. Position(p, s, rk, lp)'
  BY <1>8 DEF Position, Holding, Cutting, Adding, Reusing, Appending
<1>13. Scan(p, s)'
  <2>1. Scan(p, s)
    BY <1>2 DEF Shape
  <2>2. call'[p].op \in {"fetch", "nextrec"} /\ db'[p].pos = db[p].pos
    BY <1>6, <1>8 DEF NoCall, n
  <2> QED
    BY <2>1, <2>2, <1>1, <1>8, <1>9, <1>10, OwnScanKept
<1>14. NoCall.op \in {"fetch", "nextrec"}
  BY DEF NoCall
<1> QED
  BY <1>1, <1>4, <1>5, <1>6, <1>7, <1>9, <1>11, <1>12, <1>13, <1>14, PlainReady
     DEF Cutting, Reusing, Appending

\* db_open finds the database there, or db_close ends: neither is in a scan.
LEMMA OpenAndCloseKeep ==
    ASSUME NEW s, NEW rk, NEW lp, Ready(s, rk, lp), NEW p \in Procs,
           OpenStat(p) \/ OpenExisting(p) \/ db_close(p)
    PROVE  Ready(s, rk, lp)'
<1>1. Types /\ Protocol /\ Locking /\ table # <<>> /\ Shape(s, rk, lp)
  BY DEF Ready
<1>2. /\ pc[p] \in {"stat", "closed", "idle"} /\ UNCHANGED <<table, rec, dat, kv, locks, call, result>>
      /\ UNCHANGED <<steady, seen, bounds>> /\ ~scanning'[p]
      /\ scanning' \in [Procs -> BOOLEAN] /\ \A q \in Procs : q # p => scanning'[q] = scanning[q]
  <2>1. scanning \in [Procs -> BOOLEAN] /\ (pc[p] \in {"stat", "closed"} => ~scanning[p])
    BY <1>1 DEF Types, TypeOK, Protocol, InCallOf
  <2>2. CASE OpenStat(p)
    BY <1>1, <2>1, <2>2 DEF OpenStat, files, history
  <2>3. CASE OpenExisting(p)
    BY <2>1, <2>3 DEF OpenExisting, files, history
  <2>4. CASE db_close(p)
    BY <2>1, <2>4 DEF db_close, files
  <2> QED
    BY <2>2, <2>3, <2>4
<1>3. pc \in [Procs -> Pcs] /\ call \in [Procs -> CallRecord] /\ db \in [Procs -> DbRecord]
      /\ result = [q \in Procs |-> result[q]]
  BY <1>1 DEF Types, TypeOK, CallRecord
<1>4. \E l \in {"idle", "closed"}, d \in DbRecord : Moves(p, l, call[p], d, result[p])
  <2>1. NewDb \in DbRecord
    BY HashAssumption DEF NewDb, DbRecord
  <2>2. CASE OpenStat(p)
    <3>1. Moves(p, "idle", call[p], db[p], result[p])
      BY <1>1, <1>3, <2>2 DEF OpenStat, Moves, Goto
    <3> QED
      BY <3>1, <1>3
  <2>3. CASE OpenExisting(p)
    <3>1. Moves(p, "idle", call[p], db[p], result[p])
      BY <1>3, <2>3 DEF OpenExisting, Moves, Goto
    <3> QED
      BY <3>1, <1>3
  <2>4. CASE db_close(p)
    <3>1. Moves(p, "closed", call[p], NewDb, result[p])
      BY <1>3, <2>4 DEF db_close, Moves, Goto
    <3> QED
      BY <3>1, <2>1
  <2> QED
    BY <2>2, <2>3, <2>4
<1>5. PICK l \in {"idle", "closed"}, d \in DbRecord : Moves(p, l, call[p], d, result[p])
  BY <1>4
<1>6. l \in Pcs /\ call[p] \in CallRecord
  BY <1>3 DEF Pcs
<1>7. pc'[p] = l /\ call'[p] = call[p] /\ db'[p] = d /\ result'[p] = result[p]
  BY <1>1, <1>5, <1>6, MovesOne
<1>8. Takes(p)
  BY <1>1, <1>2, LocksStay
<1>9. History(p)
  BY <1>1, <1>2 DEF History, Types, TypeOK, bounds
<1>10. call[p] = NoCall /\ result[p] = NONE
  BY <1>1, <1>2 DEF Protocol, InCallOf
<1>11. InCallOf(p)' /\ LocksOf(p)'
  BY <1>2, <1>7, <1>10 DEF InCallOf, LocksOf, NoCall, Stores, OnChain, OnRecords, Chaining, Holding, Cutting, Adding, Reusing, Appending, Reading
<1>12. Position(p, s, rk, lp)'
  BY <1>7 DEF Position, Holding, Cutting, Adding, Reusing, Appending
<1>13. Scan(p, s)'
  BY <1>2 DEF Scan
<1> QED
  BY <1>2, <1>5, <1>6, <1>8, <1>9, <1>11, <1>12, <1>13, PlainReady
     DEF Cutting, Reusing, Appending

\* db_nextrec begins: the free list is locked for reading.
LEMMA NextrecKeeps ==
    ASSUME NEW s, NEW rk, NEW lp, Ready(s, rk, lp), NEW p \in Procs, db_nextrec(p)
    PROVE  Ready(s, rk, lp)'
<1>1. /\ pc[p] = "idle" /\ UNCHANGED <<table, rec, dat, kv, call>> /\ UNCHANGED <<steady, seen, scanning, bounds>>
      /\ Lock(p, FREE_OFF, "r") /\ scanning[p]
  BY DEF db_nextrec, files, history
<1>2. Types /\ Protocol /\ Locking /\ table # <<>> /\ Shape(s, rk, lp)
  BY DEF Ready
<1>3. pc \in [Procs -> Pcs] /\ call \in [Procs -> CallRecord] /\ db \in [Procs -> DbRecord]
      /\ result = [q \in Procs |-> result[q]]
  BY <1>2 DEF Types, TypeOK, CallRecord
<1>4. Moves(p, "next", call[p], db[p], result[p])
  BY <1>3 DEF Moves, db_nextrec, Goto
<1>5. "next" \in Pcs /\ call[p] \in CallRecord /\ db[p] \in DbRecord
  BY <1>3 DEF Pcs
<1>6. /\ pc'[p] = "next" /\ call'[p] = call[p] /\ db'[p] = db[p] /\ result'[p] = result[p]
      /\ \A q \in Procs : q # p => pc'[q] = pc[q] /\ call'[q] = call[q] /\ db'[q] = db[q] /\ result'[q] = result[q]
  BY <1>2, <1>4, <1>5, MovesOne
<1>7. Takes(p) /\ <<p, FREE_OFF, "r">> \in locks'
  <2>1. FREE_OFF \in 0..DatFile /\ "r" \in {"r", "w"}
    BY HashAssumption DEF FREE_OFF, DatFile
  <2> QED
    BY <2>1, <1>1, <1>2, LockTaken
<1>8. History(p) /\ steady' = steady /\ seen' = seen /\ scanning' = scanning
  BY <1>1, <1>2, HistoryStays
<1>9. Others(p)
  BY <1>6, <1>8 DEF Others
<1>10. call[p] = NoCall /\ result[p] = NONE
  BY <1>1, <1>2 DEF Protocol, InCallOf
<1>11. InCallOf(p)' /\ LocksOf(p)'
  BY <1>1, <1>6, <1>7, <1>8, <1>10 DEF InCallOf, LocksOf, NoCall, Stores, OnChain, OnRecords, Chaining, Holding, Cutting, Adding, Reusing, Appending, Reading
<1>12. Position(p, s, rk, lp)'
  BY <1>6 DEF Position, Holding, Cutting, Adding, Reusing, Appending
<1>13. Scan(p, s)'
  <2>1. Scan(p, s)
    BY <1>2 DEF Shape
  <2>2. call'[p].op \in {"fetch", "nextrec"}
    BY <1>6, <1>10 DEF NoCall
  <2> QED
    BY <2>1, <2>2, <1>1, <1>6, <1>8, <1>9, OwnScanKept
<1> QED
  BY <1>1, <1>4, <1>5, <1>7, <1>8, <1>11, <1>12, <1>13, PlainReady
     DEF Cutting, Reusing, Appending

\* A db_nextrec at an offset that is not a record's ends the process.
LEMMA NextLostKeeps ==
    ASSUME NEW s, NEW rk, NEW lp, Ready(s, rk, lp), NEW p \in Procs, NextLost(p)
    PROVE  Ready(s, rk, lp)'
<1>1. /\ pc[p] = "next" /\ UNCHANGED <<table, rec, dat, kv, call>> /\ UNCHANGED <<steady, seen, scanning, bounds>>
      /\ ReleaseAll(p)
  BY DEF NextLost, files, history
<1>2. Types /\ Protocol /\ Locking /\ table # <<>> /\ Shape(s, rk, lp)
  BY DEF Ready
<1>3. pc \in [Procs -> Pcs] /\ call \in [Procs -> CallRecord] /\ db \in [Procs -> DbRecord]
      /\ result = [q \in Procs |-> result[q]]
  BY <1>2 DEF Types, TypeOK, CallRecord
<1>4. Moves(p, "aborted", call[p], db[p], result[p])
  BY <1>3 DEF Moves, NextLost, Goto
<1>5. "aborted" \in Pcs /\ call[p] \in CallRecord /\ db[p] \in DbRecord
  BY <1>3 DEF Pcs
<1>6. pc'[p] = "aborted" /\ call'[p] = call[p]
  BY <1>2, <1>4, <1>5, MovesOne
<1>7. Takes(p) /\ History(p)
  BY <1>1, <1>2, AllReleased, HistoryStays
<1>8. InCallOf(p)' /\ LocksOf(p)'
  <2>1. call[p].op = "nextrec"
    BY <1>1, <1>2 DEF Protocol, InCallOf, OnRecords, Reading
  <2> QED
    BY <1>6, <2>1 DEF InCallOf, LocksOf, OnChain, OnRecords, Chaining, Holding, Cutting, Adding, Reusing, Appending, Reading, Stores
<1>9. Position(p, s, rk, lp)'
  BY <1>6 DEF Position, Holding, Cutting, Adding, Reusing, Appending
<1>10. Scan(p, s)'
  BY <1>6 DEF Scan
<1> QED
  BY <1>1, <1>4, <1>5, <1>7, <1>8, <1>9, <1>10, PlainReady
     DEF Cutting, Reusing, Appending

\* Where a db_nextrec is.
LEMMA AtRecord ==
    ASSUME NEW s, NEW rk, NEW lp, Ready(s, rk, lp), NEW p \in Procs, pc[p] = "next", db[p].pos # Lost
    PROVE  /\ Types /\ Protocol /\ Locking /\ table # <<>> /\ Shape(s, rk, lp)
           /\ NHash \in Nat /\ Len(rec) \in Nat /\ db[p] \in DbRecord /\ db[p].pos \in Nat /\ db[p].pos > NHash
           /\ call[p] \in CallRecord /\ call[p].op = "nextrec" /\ result[p] = NONE /\ <<p, FREE_OFF, "r">> \in locks
           /\ ~AtEnd(p) => db[p].pos \in Items(Len(rec))
           /\ \A q \in Procs : scanning[q] /\ pc[q] \notin {"dead", "aborted"} =>
                  \A k \in steady[q] : \E o \in s[Hash[k]] : Key(o) = k /\ o \in Items(Len(rec)) /\ k \in Keys
<1>1. Types /\ Protocol /\ Locking /\ table # <<>> /\ Shape(s, rk, lp)
  BY DEF Ready
<1>2. NHash \in Nat /\ Len(rec) \in Nat
  BY <1>1, RecordTypes
<1>3. db[p] \in DbRecord /\ call[p] \in CallRecord
  BY <1>1 DEF Types, TypeOK, CallRecord
<1>4. db[p].pos \in Nat /\ db[p].pos > NHash
  BY <1>3 DEF DbRecord
<1>5. OnRecords(p)
  BY DEF OnRecords, Reading
<1>6. call[p].op = "nextrec" /\ result[p] = NONE
  BY <1>1, <1>5 DEF Protocol, InCallOf
<1>7. <<p, FREE_OFF, "r">> \in locks
  BY <1>1, <1>5 DEF Locking, LocksOf
<1>8. ~AtEnd(p) => db[p].pos \in Items(Len(rec))
  BY <1>2, <1>4 DEF AtEnd, Items
<1>9. ASSUME NEW q \in Procs, scanning[q] /\ pc[q] \notin {"dead", "aborted"}, NEW k \in steady[q]
      PROVE  \E o \in s[Hash[k]] : Key(o) = k /\ o \in Items(Len(rec)) /\ k \in Keys
  <2>1. PICK o \in s[Hash[k]] : Key(o) = k
    BY <1>1, <1>9 DEF Shape, Scan
  <2>2. k \in Keys
    BY <1>1 DEF Types, TypeOK
  <2>3. Hash[k] \in 0..NHash
    BY <2>2, HashAssumption
  <2>4. s[Hash[k]] \subseteq Items(Len(rec))
    BY <1>1, <2>3, ListsApart
  <2> QED
    BY <2>1, <2>2, <2>4
<1> QED
  BY <1>1, <1>2, <1>3, <1>4, <1>6, <1>7, <1>8, <1>9

\* A blank record is skipped: no steady record is lost with it.
LEMMA NextBlankKeeps ==
    ASSUME NEW s, NEW rk, NEW lp, Ready(s, rk, lp), NEW p \in Procs, NextBlank(p)
    PROVE  Ready(s, rk, lp)'
<1> DEFINE o == db[p].pos
           n == o + 1
           d == [db[p] EXCEPT !.pos = n]
<1>1. /\ pc[p] = "next" /\ o # Lost /\ ~AtEnd(p) /\ Key(o) = BLANK
      /\ UNCHANGED <<table, rec, dat, kv, locks, pc, call, result>> /\ UNCHANGED <<steady, seen, scanning, bounds>>
  BY DEF NextBlank, files, history, Key
<1>2. /\ Types /\ Protocol /\ Locking /\ table # <<>> /\ Shape(s, rk, lp)
      /\ NHash \in Nat /\ Len(rec) \in Nat /\ db[p] \in DbRecord /\ o \in Nat /\ o > NHash
      /\ call[p] \in CallRecord /\ call[p].op = "nextrec" /\ result[p] = NONE /\ <<p, FREE_OFF, "r">> \in locks
      /\ \A q \in Procs : scanning[q] /\ pc[q] \notin {"dead", "aborted"} =>
             \A k \in steady[q] : \E x \in s[Hash[k]] : Key(x) = k /\ x \in Items(Len(rec)) /\ k \in Keys
  BY <1>1, AtRecord
<1>3. n \in {Lost} \cup {x \in Nat : x > NHash} /\ n # Lost /\ n = o + 1
  BY <1>2 DEF Lost
<1> HIDE DEF n
<1>4. Fields(d, db[p].ptroff, db[p].next, db[p].idxoff, db[p].ptrval, db[p].datoff, db[p].datlen, db[p].link, n)
  BY <1>2, <1>3, DbFields, ZenonT(30)
<1>5. Moves(p, "next", call[p], d, result[p])
  <2>1. pc \in [Procs -> Pcs] /\ call \in [Procs -> CallRecord] /\ db \in [Procs -> DbRecord]
        /\ result = [q \in Procs |-> result[q]]
    BY <1>2 DEF Types, TypeOK, CallRecord
  <2>2. db' = [db EXCEPT ![p].pos = @ + 1]
    BY DEF NextBlank
  <2>3. db' = [db EXCEPT ![p] = d]
    BY <2>1, <2>2, <1>3
  <2> QED
    BY <1>1, <2>1, <2>3 DEF Moves
<1> HIDE DEF d
<1>6. "next" \in Pcs /\ d \in DbRecord
  BY <1>4 DEF Pcs, Fields
<1>7. /\ pc'[p] = "next" /\ call'[p] = call[p] /\ db'[p] = d /\ result'[p] = result[p]
      /\ \A q \in Procs : q # p => pc'[q] = pc[q] /\ call'[q] = call[q] /\ db'[q] = db[q] /\ result'[q] = result[q]
  BY <1>2, <1>5, <1>6, MovesOne
<1>8. Takes(p) /\ locks' = locks /\ History(p) /\ steady' = steady /\ seen' = seen /\ scanning' = scanning
  BY <1>1, <1>2, LocksStay, HistoryStays
<1>9. InCallOf(p)' /\ LocksOf(p)'
  <2>1. scanning[p]
    BY <1>1, <1>2 DEF Protocol, InCallOf, Reading
  <2> QED
    BY <1>2, <1>7, <1>8, <2>1 DEF InCallOf, LocksOf, Stores, OnChain, OnRecords, Chaining, Holding, Cutting, Adding, Reusing, Appending, Reading
<1>10. Position(p, s, rk, lp)'
  BY <1>7 DEF Position, Holding, Cutting, Adding, Reusing, Appending
<1>11. Scan(p, s)'
  <2> SUFFICES ASSUME scanning'[p], NEW k \in steady'[p]
               PROVE  /\ \A r \in Procs : call'[r].key = k => call'[r].op \in {"fetch", "nextrec"}
                      /\ kv'[k] # NONE
                      /\ \E x \in s[Hash[k]] :
                            /\ Key(x)' = k /\ db'[p].pos # Lost
                            /\ (k \in seen'[p]) = (x < IF pc'[p] = "nextdat" THEN db'[p].pos - 1 ELSE db'[p].pos)
    BY DEF Scan
  <2>1. scanning[p] /\ pc[p] \notin {"dead", "aborted"} /\ k \in steady[p]
    BY <1>1
  <2>2. Scan(p, s)
    BY <1>2 DEF Shape
  <2>3. /\ \A r \in Procs : call[r].key = k => call[r].op \in {"fetch", "nextrec"}
        /\ kv[k] # NONE
        /\ \E x \in s[Hash[k]] : Key(x) = k /\ (k \in seen[p]) = (x < o)
    BY <2>1, <2>2, <1>1 DEF Scan
  <2>4. PICK x \in s[Hash[k]] : Key(x) = k /\ (k \in seen[p]) = (x < o)
    BY <2>3
  <2>5. x \in Items(Len(rec)) /\ k \in Keys
    <3>1. k \in Keys
      BY <1>2, <2>1
    <3>2. Hash[k] \in 0..NHash
      BY <3>1, HashAssumption
    <3> QED
      BY <3>1, <3>2, <1>2, ListsApart
  <2>6. x # o
    BY <1>1, <2>4, <2>5, NoneAssumption
  <2>7. x \in Nat
    BY <1>2, <2>5, RecordTypes
  <2>8. (x < n) = (x < o)
    BY <1>2, <1>3, <2>6, <2>7
  <2>9. db'[p].pos = n /\ pc'[p] # "nextdat"
    BY <1>4, <1>7 DEF Fields
  <2>10. Key(x)' = k
    BY <1>1, <2>4 DEF Key, Record
  <2>11. \A r \in Procs : call'[r].key = k => call'[r].op \in {"fetch", "nextrec"}
    BY <1>1, <2>3
  <2> QED
    BY <1>1, <1>3, <2>3, <2>4, <2>8, <2>9, <2>10, <2>11
<1> QED
  BY <1>1, <1>2, <1>5, <1>6, <1>8, <1>9, <1>10, <1>11, PlainReady
     DEF Cutting, Reusing, Appending

\* A record that db_nextrec finds: its key is what is read next, with its data.
LEMMA NextIdxKeeps ==
    ASSUME NEW s, NEW rk, NEW lp, Ready(s, rk, lp), NEW p \in Procs, NextIdx(p)
    PROVE  Ready(s, rk, lp)'
<1> DEFINE o == db[p].pos
           n == o + 1
           k0 == Record(o).key
           x == Record(o).datoff
           c == [op |-> "nextrec", key |-> k0, data |-> NONE]
           d == [db[p] EXCEPT !.pos = n, !.datoff = x]
<1>1. /\ pc[p] = "next" /\ o # Lost /\ ~AtEnd(p) /\ k0 # BLANK
      /\ UNCHANGED <<table, rec, dat, kv, locks, result>> /\ UNCHANGED <<steady, seen, scanning, bounds>>
  BY DEF NextIdx, files, history
<1>2. /\ Types /\ Protocol /\ Locking /\ table # <<>> /\ Shape(s, rk, lp)
      /\ NHash \in Nat /\ Len(rec) \in Nat /\ db[p] \in DbRecord /\ o \in Nat /\ o > NHash
      /\ result[p] = NONE /\ <<p, FREE_OFF, "r">> \in locks /\ o \in Items(Len(rec))
      /\ \A q \in Procs : scanning[q] /\ pc[q] \notin {"dead", "aborted"} =>
             \A k \in steady[q] : \E i \in s[Hash[k]] : Key(i) = k /\ i \in Items(Len(rec)) /\ k \in Keys
  BY <1>1, AtRecord
<1>3. k0 \in Keys /\ x \in Nat /\ k0 = Key(o) /\ x = Datoff(o)
  <2>1. Key(o) \in Keys \cup {BLANK} /\ Datoff(o) \in Nat
    BY <1>2, RecordTypes
  <2> QED
    BY <1>1, <2>1 DEF Key, Datoff
<1>4. n \in {Lost} \cup {i \in Nat : i > NHash} /\ n # Lost /\ n = o + 1 /\ n - 1 = o
  BY <1>2 DEF Lost
<1> HIDE DEF n, k0, x
<1>5. Fields(d, db[p].ptroff, db[p].next, db[p].idxoff, db[p].ptrval, x, db[p].datlen, db[p].link, n)
  BY <1>2, <1>3, <1>4, DbFields
<1>6. Moves(p, "nextdat", c, d, result[p])
  <2>1. pc \in [Procs -> Pcs] /\ call \in [Procs -> CallRecord] /\ db \in [Procs -> DbRecord]
        /\ result = [q \in Procs |-> result[q]]
    BY <1>2 DEF Types, TypeOK, CallRecord
  <2> QED
    BY <1>1, <2>1 DEF Moves, NextIdx, Goto, n, k0, x
<1>7. c \in CallRecord /\ c.op = "nextrec" /\ c.key = k0
  BY <1>3 DEF CallRecord, Ops, Values
<1> HIDE DEF d, c
<1>8. "nextdat" \in Pcs /\ d \in DbRecord
  BY <1>5 DEF Pcs, Fields
<1>9. /\ pc'[p] = "nextdat" /\ call'[p] = c /\ db'[p] = d /\ result'[p] = result[p]
      /\ \A q \in Procs : q # p => pc'[q] = pc[q] /\ call'[q] = call[q] /\ db'[q] = db[q] /\ result'[q] = result[q]
  BY <1>2, <1>6, <1>7, <1>8, MovesOne
<1>10. Takes(p) /\ locks' = locks /\ History(p) /\ steady' = steady /\ seen' = seen /\ scanning' = scanning
  BY <1>1, <1>2, LocksStay, HistoryStays
<1>11. InCallOf(p)' /\ LocksOf(p)'
  <2>1. scanning[p]
    BY <1>1, <1>2 DEF Protocol, InCallOf, Reading
  <2> QED
    BY <1>2, <1>7, <1>9, <1>10, <2>1 DEF InCallOf, LocksOf, Stores, OnChain, OnRecords, Chaining, Holding, Cutting, Adding, Reusing, Appending, Reading
<1>12. Position(p, s, rk, lp)'
  <2>1. rec' = rec /\ db'[p].pos - 1 = o /\ db'[p].datoff = x /\ call'[p].key = k0
    BY <1>1, <1>4, <1>5, <1>7, <1>9 DEF Fields
  <2>2. rec[o - NHash].key = k0 /\ rec[o - NHash].datoff = x
    BY <1>3 DEF Key, Datoff, Record
  <2> QED
    BY <1>2, <1>3, <1>9, <2>1, <2>2 DEF Position, Holding, Cutting, Adding, Reusing, Appending, Key, Datoff, Record
<1>13. Scan(p, s)'
  <2> SUFFICES ASSUME scanning'[p], NEW k \in steady'[p]
               PROVE  /\ \A r \in Procs : call'[r].key = k => call'[r].op \in {"fetch", "nextrec"}
                      /\ kv'[k] # NONE
                      /\ \E i \in s[Hash[k]] :
                            /\ Key(i)' = k /\ db'[p].pos # Lost
                            /\ (k \in seen'[p]) = (i < IF pc'[p] = "nextdat" THEN db'[p].pos - 1 ELSE db'[p].pos)
    BY DEF Scan
  <2>1. scanning[p] /\ pc[p] \notin {"dead", "aborted"} /\ k \in steady[p]
    BY <1>1, <1>10
  <2>2. Scan(p, s)
    BY <1>2 DEF Shape
  <2>3. /\ \A r \in Procs : call[r].key = k => call[r].op \in {"fetch", "nextrec"}
        /\ kv[k] # NONE
        /\ \E i \in s[Hash[k]] : Key(i) = k /\ (k \in seen[p]) = (i < o)
    BY <2>1, <2>2, <1>1 DEF Scan
  <2>4. PICK i \in s[Hash[k]] : Key(i) = k /\ (k \in seen[p]) = (i < o)
    BY <2>3
  <2>5. db'[p].pos = n /\ pc'[p] = "nextdat"
    BY <1>5, <1>9 DEF Fields
  <2>6. Key(i)' = k
    BY <1>1, <2>4 DEF Key, Record
  <2>7. \A r \in Procs : call'[r].key = k => call'[r].op \in {"fetch", "nextrec"}
    BY <1>7, <1>9, <2>3
  <2> QED
    BY <1>1, <1>4, <1>10, <2>3, <2>4, <2>5, <2>6, <2>7
<1>14. c.op \in {"fetch", "nextrec"}
  BY <1>7
<1> QED
  BY <1>1, <1>2, <1>6, <1>7, <1>8, <1>10, <1>11, <1>12, <1>13, <1>14, PlainReady
     DEF Cutting, Reusing, Appending

\* What db_nextrec reads is a record of the dictionary, or one that a db_store is
\* about to link; and no record that is steady a second time.
LEMMA WhatIsRead ==
    ASSUME NEW s, NEW rk, NEW lp, Ready(s, rk, lp), NEW p \in Procs, pc[p] = "nextdat"
    PROVE  LET k == call[p].key
               o == db[p].pos - 1
               d == dat[db[p].datoff]
           IN  /\ o \in Items(Len(rec)) /\ Key(o) = k /\ k \in Keys
               /\ \/ o \in s[Hash[k]] /\ kv[k] = d
                  \/ \E q \in Procs : pc[q] \in {"link", "dead"} /\ call[q].op \in Stores /\ call[q].key = k /\ call[q].data = d
               /\ k \in steady[p] => o \in s[Hash[k]] /\ k \notin seen[p]
<1> DEFINE k == call[p].key
           o == db[p].pos - 1
           d == dat[db[p].datoff]
           At(q) == pc[q] \in {"link", "dead"} /\ call[q].op \in Stores /\ call[q].key = k /\ call[q].data = d
<1>1. Types /\ Protocol /\ Locking /\ table # <<>> /\ Shape(s, rk, lp)
  BY DEF Ready
<1>2. o \in Items(Len(rec)) /\ Key(o) = k /\ k \in Keys /\ db[p].datoff = Datoff(o)
  BY <1>1 DEF Shape, Position
<1>3. k # BLANK
  BY <1>2, NoneAssumption
<1>4. o \in s[Hash[k]] \/ \E q \in Procs : At(q)
  BY <1>1, <1>2, <1>3 DEF Shape, Named
<1>5. ASSUME o \in s[Hash[k]] PROVE kv[k] = d
  <2>1. Hash[k] \in 1..NHash
    BY <1>2, HashAssumption
  <2>2. dat[Datoff(o)] = kv[Key(o)] \/ \E q \in Procs : pc[q] = "blank" /\ db[q].idxoff = o
    BY <1>1, <1>5, <2>1 DEF Shape, Contents
  <2>3. ~\E q \in Procs : pc[q] = "blank"
    <3> SUFFICES ASSUME NEW q \in Procs, pc[q] = "blank" PROVE FALSE
      OBVIOUS
    <3> QED
      BY <1>1, FreeListAlone
  <2> QED
    BY <2>2, <2>3, <1>2
<1>6. ASSUME k \in steady[p] PROVE o \in s[Hash[k]] /\ k \notin seen[p]
  <2>1. scanning[p] /\ pc[p] \notin {"dead", "aborted"}
    BY <1>1 DEF Protocol, InCallOf, Reading
  <2>2. Scan(p, s)
    BY <1>1 DEF Shape
  <2>3. /\ \A r \in Procs : call[r].key = k => call[r].op \in {"fetch", "nextrec"}
        /\ \E i \in s[Hash[k]] : Key(i) = k /\ (k \in seen[p]) = (i < o)
    BY <1>6, <2>1, <2>2 DEF Scan
  <2>4. o \in s[Hash[k]]
    BY <1>4, <2>3 DEF Stores
  <2>5. PICK i \in s[Hash[k]] : Key(i) = k /\ (k \in seen[p]) = (i < o)
    BY <2>3
  <2>6. Hash[k] \in 1..NHash
    BY <1>2, HashAssumption
  <2>7. i = o
    BY <1>1, <1>2, <2>4, <2>5, <2>6 DEF Shape, Contents
  <2>8. o \in Nat
    BY <1>1, <1>2, RecordTypes
  <2> QED
    BY <2>4, <2>5, <2>7, <2>8
<1> QED
  BY <1>2, <1>4, <1>5, <1>6

\* db_nextrec answers with a record, which it has then seen.
LEMMA NextDatKeeps ==
    ASSUME NEW s, NEW rk, NEW lp, Ready(s, rk, lp), NEW p \in Procs, NextDat(p)
    PROVE  Ready(s, rk, lp)'
<1> DEFINE o == db[p].pos - 1
           k0 == call[p].key
           r0 == <<call[p].op, call[p].key, dat[db[p].datoff]>>
<1>1. /\ pc[p] = "nextdat" /\ UNCHANGED <<table, rec, dat, kv, locks, call, db>> /\ UNCHANGED <<steady, scanning, bounds>>
      /\ seen' = [seen EXCEPT ![p] = seen[p] \cup {k0}]
  BY DEF NextDat, files
<1>2. Types /\ Protocol /\ Locking /\ table # <<>> /\ Shape(s, rk, lp)
  BY DEF Ready
<1>3. o \in Items(Len(rec)) /\ Key(o) = k0 /\ k0 \in Keys /\ (k0 \in steady[p] => o \in s[Hash[k0]] /\ k0 \notin seen[p])
  BY <1>1, WhatIsRead
<1>4. pc \in [Procs -> Pcs] /\ call \in [Procs -> CallRecord] /\ db \in [Procs -> DbRecord]
      /\ result = [q \in Procs |-> result[q]] /\ seen \in [Procs -> SUBSET Keys]
  BY <1>2 DEF Types, TypeOK, CallRecord
<1>5. Moves(p, "unlock", call[p], db[p], r0)
  BY <1>1, <1>4 DEF Moves, NextDat, Answer, Goto
<1> HIDE DEF r0
<1>6. "unlock" \in Pcs /\ call[p] \in CallRecord /\ db[p] \in DbRecord
  BY <1>4 DEF Pcs
<1>7. /\ pc'[p] = "unlock" /\ call'[p] = call[p] /\ db'[p] = db[p] /\ result'[p] = r0
      /\ \A q \in Procs : q # p => pc'[q] = pc[q] /\ call'[q] = call[q] /\ db'[q] = db[q] /\ result'[q] = result[q]
  BY <1>2, <1>5, <1>6, MovesOne
<1>8. Takes(p) /\ locks' = locks
  BY <1>1, <1>2, LocksStay
<1>9. seen' \in [Procs -> SUBSET Keys] /\ seen'[p] = seen[p] \cup {k0} /\ \A q \in Procs : q # p => seen'[q] = seen[q]
  BY <1>1, <1>3, <1>4
<1>10. History(p)
  BY <1>1, <1>2, <1>9 DEF History, Types, TypeOK, bounds
<1>11. call[p].op = "nextrec" /\ <<p, FREE_OFF, "r">> \in locks /\ scanning[p]
  BY <1>1, <1>2 DEF Protocol, InCallOf, Locking, LocksOf, OnRecords, Reading
<1>12. InCallOf(p)' /\ LocksOf(p)'
  BY <1>7, <1>8, <1>11 DEF InCallOf, LocksOf, Stores, OnChain, OnRecords, Chaining, Holding, Cutting, Adding, Reusing, Appending, Reading
<1>13. Position(p, s, rk, lp)'
  BY <1>7 DEF Position, Holding, Cutting, Adding, Reusing, Appending
<1>14. Scan(p, s)'
  <2> SUFFICES ASSUME NEW k \in steady'[p]
               PROVE  /\ \A r \in Procs : call'[r].key = k => call'[r].op \in {"fetch", "nextrec"}
                      /\ kv'[k] # NONE
                      /\ \E i \in s[Hash[k]] :
                            /\ Key(i)' = k /\ db'[p].pos # Lost
                            /\ (k \in seen'[p]) = (i < IF pc'[p] = "nextdat" THEN db'[p].pos - 1 ELSE db'[p].pos)
    BY DEF Scan
  <2>1. k \in steady[p] /\ k \in Keys
    BY <1>1, <1>2 DEF Types, TypeOK
  <2>2. Scan(p, s)
    BY <1>2 DEF Shape
  <2>3. /\ \A r \in Procs : call[r].key = k => call[r].op \in {"fetch", "nextrec"}
        /\ kv[k] # NONE /\ db[p].pos # Lost
        /\ \E i \in s[Hash[k]] : Key(i) = k /\ (k \in seen[p]) = (i < o)
    BY <2>1, <2>2, <1>1, <1>11 DEF Scan
  <2>4. PICK i \in s[Hash[k]] : Key(i) = k /\ (k \in seen[p]) = (i < o)
    BY <2>3
  <2>5. Key(i)' = k
    BY <1>1, <2>4 DEF Key, Record
  <2>6. db'[p].pos = db[p].pos /\ pc'[p] # "nextdat"
    BY <1>7
  <2>7. Hash[k] \in 0..NHash /\ Hash[k] \in 1..NHash
    BY <2>1, HashAssumption
  <2>8. i \in Items(Len(rec))
    BY <1>2, <2>4, <2>7, ListsApart
  <2>9. i \in Nat /\ o \in Nat /\ db[p].pos \in Nat /\ db[p].pos = o + 1
    <3>1. i \in Nat /\ o \in Nat
      BY <1>2, <1>3, <2>8, RecordTypes
    <3>2. db[p].pos \in Nat
      BY <1>4 DEF DbRecord, Lost
    <3> QED
      BY <3>1, <3>2
  <2>10. i = o <=> k = k0
    <3>1. i = o => k = k0
      BY <1>3, <2>4
    <3>2. k = k0 => i = o
      <4>1. ASSUME k = k0 PROVE i = o
        <5>1. o \in s[Hash[k]] /\ Key(o) = k
          BY <4>1, <1>3, <2>1
        <5> QED
          BY <5>1, <2>4, <2>7, <1>2 DEF Shape, Contents
      <4> QED
        BY <4>1
    <3> QED
      BY <3>1, <3>2
  <2>11. (k \in seen'[p]) = (i < db[p].pos)
    <3>1. (k \in seen'[p]) = (k \in seen[p] \/ k = k0)
      BY <1>9
    <3>2. (i < db[p].pos) = (i < o \/ i = o)
      BY <2>9
    <3> QED
      BY <2>4, <2>10, <3>1, <3>2
  <2>12. \A r \in Procs : call'[r].key = k => call'[r].op \in {"fetch", "nextrec"}
    BY <1>1, <2>3
  <2> QED
    BY <1>1, <2>3, <2>4, <2>5, <2>6, <2>11, <2>12
<1> QED
  BY <1>1, <1>2, <1>5, <1>6, <1>8, <1>10, <1>12, <1>13, <1>14, PlainReady
     DEF Cutting, Reusing, Appending

\* db_nextrec meets the end of the index file: the scan is over.
LEMMA NextEOFKeeps ==
    ASSUME NEW s, NEW rk, NEW lp, Ready(s, rk, lp), NEW p \in Procs, NextEOF(p)
    PROVE  Ready(s, rk, lp)'
<1> DEFINE r0 == <<call[p].op, call[p].key, NONE>>
<1>1. /\ pc[p] = "next" /\ UNCHANGED <<table, rec, dat, kv, locks, call, db>> /\ UNCHANGED <<steady, seen, bounds>>
      /\ scanning' = [scanning EXCEPT ![p] = FALSE]
  BY DEF NextEOF, files
<1>2. Types /\ Protocol /\ Locking /\ table # <<>> /\ Shape(s, rk, lp)
  BY DEF Ready
<1>3. pc \in [Procs -> Pcs] /\ call \in [Procs -> CallRecord] /\ db \in [Procs -> DbRecord]
      /\ result = [q \in Procs |-> result[q]] /\ scanning \in [Procs -> BOOLEAN]
  BY <1>2 DEF Types, TypeOK, CallRecord
<1>4. Moves(p, "unlock", call[p], db[p], r0)
  BY <1>1, <1>3 DEF Moves, NextEOF, Answer, Goto
<1> HIDE DEF r0
<1>5. "unlock" \in Pcs /\ call[p] \in CallRecord /\ db[p] \in DbRecord
  BY <1>3 DEF Pcs
<1>6. pc'[p] = "unlock" /\ call'[p] = call[p]
  BY <1>2, <1>4, <1>5, MovesOne
<1>7. Takes(p) /\ locks' = locks
  BY <1>1, <1>2, LocksStay
<1>8. scanning' \in [Procs -> BOOLEAN] /\ ~scanning'[p] /\ \A q \in Procs : q # p => scanning'[q] = scanning[q]
  BY <1>1, <1>3
<1>9. History(p)
  BY <1>1, <1>2, <1>8 DEF History, Types, TypeOK, bounds
<1>10. call[p].op = "nextrec" /\ <<p, FREE_OFF, "r">> \in locks
  BY <1>1, <1>2 DEF Protocol, InCallOf, Locking, LocksOf, OnRecords, Reading
<1>11. InCallOf(p)' /\ LocksOf(p)'
  BY <1>6, <1>7, <1>10 DEF InCallOf, LocksOf, Stores, OnChain, OnRecords, Chaining, Holding, Cutting, Adding, Reusing, Appending, Reading
<1>12. Position(p, s, rk, lp)'
  BY <1>6 DEF Position, Holding, Cutting, Adding, Reusing, Appending
<1>13. Scan(p, s)'
  BY <1>8 DEF Scan
<1> QED
  BY <1>1, <1>2, <1>4, <1>5, <1>7, <1>9, <1>11, <1>12, <1>13, PlainReady
     DEF Cutting, Reusing, Appending

\* db_rewind: a scan begins with the records that nobody is changing.
LEMMA RewindKeeps ==
    ASSUME NEW s, NEW rk, NEW lp, Ready(s, rk, lp), NEW p \in Procs, db_rewind(p)
    PROVE  Ready(s, rk, lp)'
<1> DEFINE n == NHash + 1
           d == [db[p] EXCEPT !.pos = n]
           K == {k \in Keys : kv[k] # NONE /\ ~Busy(k)}
<1>1. /\ pc[p] = "idle" /\ UNCHANGED <<table, rec, dat, kv, locks, call, pc, result>>
      /\ seen' = [seen EXCEPT ![p] = {}] /\ steady' = [steady EXCEPT ![p] = K]
      /\ scanning' = [scanning EXCEPT ![p] = TRUE]
      /\ calls < MaxCalls /\ calls' = calls + 1 /\ deaths' = deaths
  BY DEF db_rewind, files
<1>2. Types /\ Protocol /\ Locking /\ table # <<>> /\ Shape(s, rk, lp)
  BY DEF Ready
<1>3. pc \in [Procs -> Pcs] /\ call \in [Procs -> CallRecord] /\ db \in [Procs -> DbRecord]
      /\ result = [q \in Procs |-> result[q]]
      /\ seen \in [Procs -> SUBSET Keys] /\ steady \in [Procs -> SUBSET Keys] /\ scanning \in [Procs -> BOOLEAN]
  BY <1>2 DEF Types, TypeOK, CallRecord
<1>4. n \in {Lost} \cup {x \in Nat : x > NHash} /\ n # Lost /\ n = NHash + 1 /\ NHash \in Nat
  BY HashAssumption DEF Lost
<1> HIDE DEF n
<1>5. Fields(d, db[p].ptroff, db[p].next, db[p].idxoff, db[p].ptrval, db[p].datoff, db[p].datlen, db[p].link, n)
  BY <1>3, <1>4, DbFields
<1>6. Moves(p, "idle", call[p], d, result[p])
  BY <1>1, <1>3 DEF Moves, db_rewind, n
<1> HIDE DEF d
<1>7. "idle" \in Pcs /\ d \in DbRecord /\ call[p] \in CallRecord
  BY <1>3, <1>5 DEF Pcs, Fields
<1>8. pc'[p] = "idle" /\ call'[p] = call[p] /\ db'[p] = d /\ result'[p] = result[p]
  BY <1>2, <1>6, <1>7, MovesOne
<1>9. Takes(p)
  BY <1>1, <1>2, LocksStay
<1>10. /\ K \in SUBSET Keys /\ steady'[p] = K /\ seen'[p] = {}
       /\ steady' \in [Procs -> SUBSET Keys] /\ seen' \in [Procs -> SUBSET Keys] /\ scanning' \in [Procs -> BOOLEAN]
       /\ \A q \in Procs : q # p => steady'[q] = steady[q] /\ seen'[q] = seen[q] /\ scanning'[q] = scanning[q]
  <2>1. K \in SUBSET Keys
    OBVIOUS
  <2> HIDE DEF K
  <2> QED
    BY <1>1, <1>3, <2>1
<1>11. History(p)
  <2>1. calls' \in 0..MaxCalls /\ deaths' \in 0..MaxDeaths
    BY <1>1, <1>2, BoundAssumption DEF Types, TypeOK
  <2> QED
    BY <1>10, <2>1 DEF History
<1>12. call[p] = NoCall /\ result[p] = NONE
  BY <1>1, <1>2 DEF Protocol, InCallOf
<1>13. InCallOf(p)' /\ LocksOf(p)'
  BY <1>8, <1>12 DEF InCallOf, LocksOf, NoCall, Stores, OnChain, OnRecords, Chaining, Holding, Cutting, Adding, Reusing, Appending, Reading
<1>14. Position(p, s, rk, lp)'
  BY <1>8 DEF Position, Holding, Cutting, Adding, Reusing, Appending
<1>15. Scan(p, s)'
  <2> SUFFICES ASSUME NEW k \in steady'[p]
               PROVE  /\ \A r \in Procs : call'[r].key = k => call'[r].op \in {"fetch", "nextrec"}
                      /\ kv'[k] # NONE
                      /\ \E i \in s[Hash[k]] :
                            /\ Key(i)' = k /\ db'[p].pos # Lost
                            /\ (k \in seen'[p]) = (i < IF pc'[p] = "nextdat" THEN db'[p].pos - 1 ELSE db'[p].pos)
    BY DEF Scan
  <2>1. k \in Keys /\ kv[k] # NONE /\ ~Busy(k)
    BY <1>10
  <2>2. \A r \in Procs : call[r].key = k => call[r].op \in {"fetch", "nextrec"}
    BY <2>1 DEF Busy
  <2>3. ASSUME NEW q \in Procs, Replacing(q), call[q].key = k PROVE FALSE
    BY <1>2, <2>2, <2>3 DEF Replacing, Protocol, InCallOf, Stores
  <2>4. PICK i \in s[Hash[k]] : Key(i) = k
    BY <1>2, <2>1, <2>3 DEF Shape, Contents
  <2>5. Hash[k] \in 0..NHash
    BY <2>1, HashAssumption
  <2>6. i \in Nat /\ i > NHash
    <3>1. i \in Items(Len(rec))
      BY <1>2, <2>4, <2>5, ListsApart
    <3> QED
      BY <1>2, <3>1, RecordTypes
  <2>7. ~(i < n)
    BY <1>4, <2>6
  <2>8. Key(i)' = k
    BY <1>1, <2>4 DEF Key, Record
  <2>9. db'[p].pos = n /\ pc'[p] # "nextdat"
    BY <1>5, <1>8 DEF Fields
  <2> QED
    BY <1>1, <1>4, <1>10, <2>1, <2>2, <2>4, <2>7, <2>8, <2>9
<1> QED
  BY <1>1, <1>2, <1>6, <1>7, <1>9, <1>11, <1>13, <1>14, <1>15, PlainReady
     DEF Cutting, Reusing, Appending

-----------------------------------------------------------------------------
(* Steps that change the files.  A call that may change its chain leaves to  *)
(* the others their chains, their records and their places in the data file: *)
(* it may change one record T and one place X, which are its own, its chain, *)
(* and the free list when it has that locked.                                *)

OwnPlace(p, X, s) ==
    X \in 1..Len(dat) => \E o \in Items(Len(rec)) : X = Datoff(o) /\ (o \in s[Chain(p)] \/ (InHand(p) /\ o = db[p].idxoff))

Leaves(p, T, X, s, rk, lp, s2, rk2, lp2) ==
    /\ \A d \in 0..NHash : d # Chain(p) /\ d # 0 => SameList(d, s, rk, lp, s2, rk2, lp2) /\ table'[d] = table[d]
    /\ pc[p] \in {"blank", "freewalk"} \cup Cutting \/ (SameList(0, s, rk, lp, s2, rk2, lp2) /\ table'[0] = table[0])
    /\ Len(rec') \in Nat /\ Len(rec) <= Len(rec')
    /\ \A o \in Items(Len(rec)) :
          o # T => /\ Key(o)' = Key(o) /\ Datoff(o)' = Datoff(o)
                   /\ o \notin s[Chain(p)] \cup s[0] => rec'[o - NHash] = rec[o - NHash]
    /\ T \in Items(Len(rec)) => \/ pc[p] = "blank" /\ T \in s[Chain(p)]
                                \/ pc[p] = "reuseidx" /\ T = db[p].idxoff
    /\ \A x \in 1..Len(dat) : x # X => dat'[x] = dat[x]
    /\ OwnPlace(p, X, s)
    /\ Len(dat') = Len(dat) \/ pc[p] = "datwrite"
    /\ Len(rec') = Len(rec) \/ pc[p] = "idxwrite"
    /\ \A k \in Keys : k # call[p].key => kv'[k] = kv[k]
    /\ \A o \in s[Chain(p)] : Key(o) # call[p].key => o \in s2[Chain(p)] /\ Key(o)' = Key(o)

\* The others on their chains.
LEMMA ChainUndisturbed ==
    ASSUME NEW s, NEW rk, NEW lp, Ready(s, rk, lp), NEW p \in Procs, OnChain(p), call[p].op # "fetch",
           NEW T, NEW X, NEW s2, NEW rk2, NEW lp2, Leaves(p, T, X, s, rk, lp, s2, rk2, lp2),
           NEW q \in Procs, q # p, pc[q] \in Chaining
    PROVE  /\ SameList(Chain(q), s, rk, lp, s2, rk2, lp2) /\ table'[Chain(q)] = table[Chain(q)]
           /\ kv'[call[q].key] = kv[call[q].key]
           /\ \A o \in s[Chain(q)] : Key(o)' = Key(o) /\ Datoff(o)' = Datoff(o)
<1>1. Types /\ Protocol /\ Locking /\ table # <<>> /\ Shape(s, rk, lp) /\ OnChain(q)
  BY DEF Ready, OnChain
<1>2. Chain(q) # Chain(p) /\ call[q].key # call[p].key
  BY <1>1, ChainAlone
<1>3. /\ Chain(q) \in 0..NHash /\ Chain(q) # 0 /\ call[q].key \in Keys
      /\ Chain(p) \in 0..NHash
  BY <1>1, CallTypes
<1>4. SameList(Chain(q), s, rk, lp, s2, rk2, lp2) /\ table'[Chain(q)] = table[Chain(q)]
  BY <1>2, <1>3 DEF Leaves
<1>5. kv'[call[q].key] = kv[call[q].key]
  BY <1>2, <1>3 DEF Leaves
<1>6. ASSUME NEW o \in s[Chain(q)] PROVE Key(o)' = Key(o) /\ Datoff(o)' = Datoff(o)
  <2>1. o \in Items(Len(rec))
    BY <1>1, <1>3, ListsApart
  <2>2. o \notin s[Chain(p)]
    BY <1>1, <1>2, <1>3, ListsApart
  <2>3. pc[p] = "reuseidx" => o # db[p].idxoff
    BY <1>1, <1>3 DEF Shape, Hands, InHand, Reusing
  <2>4. o # T
    BY <2>1, <2>2, <2>3 DEF Leaves
  <2> QED
    BY <2>1, <2>4 DEF Leaves
<1> QED
  BY <1>4, <1>5, <1>6

\* The others' records, and their places in the data file.
LEMMA RecordsUndisturbed ==
    ASSUME NEW s, NEW rk, NEW lp, Ready(s, rk, lp), NEW p \in Procs, OnChain(p), call[p].op # "fetch",
           NEW T, NEW X, NEW s2, NEW rk2, NEW lp2, Leaves(p, T, X, s, rk, lp, s2, rk2, lp2),
           NEW q \in Procs, q # p
    PROVE  /\ InHand(q) => rec'[db[q].idxoff - NHash] = rec[db[q].idxoff - NHash]
           /\ InHand(q) => dat'[Datoff(db[q].idxoff)] = dat[Datoff(db[q].idxoff)]
           /\ Reserving(q) => dat'[db[q].datoff] = dat[db[q].datoff]
           /\ pc[q] = "nextdat" => /\ Items(Len(rec)) \subseteq Items(Len(rec'))
                                   /\ rec'[db[q].pos - 1 - NHash].key = Key(db[q].pos - 1)
                                   /\ rec'[db[q].pos - 1 - NHash].datoff = Datoff(db[q].pos - 1)
<1>1. Types /\ Protocol /\ Locking /\ table # <<>> /\ Shape(s, rk, lp)
  BY DEF Ready
<1>2. Chain(p) \in 0..NHash /\ 0 \in 0..NHash
  <2>1. Chain(p) \in 0..NHash
    BY <1>1, CallTypes
  <2> QED
    BY <2>1, HashAssumption
<1>6. ASSUME X \in 1..Len(dat)
      PROVE  \E o \in Items(Len(rec)) : X = Datoff(o) /\ (o \in s[Chain(p)] \/ (InHand(p) /\ o = db[p].idxoff))
  <2>1. OwnPlace(p, X, s)
    BY DEF Leaves
  <2> QED
    BY <1>6, <2>1 DEF OwnPlace
<1>3. ASSUME InHand(q)
      PROVE  /\ rec'[db[q].idxoff - NHash] = rec[db[q].idxoff - NHash]
             /\ dat'[Datoff(db[q].idxoff)] = dat[Datoff(db[q].idxoff)]
  <2> DEFINE i == db[q].idxoff
  <2>1. i \in Items(Len(rec)) /\ (\A c \in 0..NHash : i \notin s[c]) /\ (InHand(p) => db[p].idxoff # i)
    BY <1>1, <1>3 DEF Shape, Hands
  <2>2. i \notin s[Chain(p)] /\ i \notin s[0]
    BY <1>2, <2>1
  <2>3. i # T
    BY <2>1, <2>2 DEF Leaves, InHand, Reusing
  <2>4. rec'[i - NHash] = rec[i - NHash]
    BY <2>1, <2>2, <2>3 DEF Leaves
  <2>5. Datoff(i) \in 1..Len(dat) /\ \A o \in Items(Len(rec)) : Datoff(o) = Datoff(i) => o = i
    BY <1>1, <2>1 DEF Shape, Space
  <2>6. Datoff(i) # X
    <3> SUFFICES ASSUME Datoff(i) = X PROVE FALSE
      OBVIOUS
    <3>1. PICK o \in Items(Len(rec)) : X = Datoff(o) /\ (o \in s[Chain(p)] \/ (InHand(p) /\ o = db[p].idxoff))
      BY <1>6, <2>5
    <3> QED
      BY <2>1, <2>2, <2>5, <3>1
  <2>7. dat'[Datoff(i)] = dat[Datoff(i)]
    BY <2>5, <2>6 DEF Leaves
  <2> QED
    BY <2>4, <2>7
<1>4. ASSUME Reserving(q) PROVE dat'[db[q].datoff] = dat[db[q].datoff]
  <2>1. db[q].datoff \in 1..Len(dat) /\ \A o \in Items(Len(rec)) : Datoff(o) # db[q].datoff
    BY <1>1, <1>4 DEF Shape, Space
  <2>2. db[q].datoff # X
    BY <1>6, <2>1
  <2> QED
    BY <2>1, <2>2 DEF Leaves
<1>5. ASSUME pc[q] = "nextdat"
      PROVE  /\ Items(Len(rec)) \subseteq Items(Len(rec'))
             /\ rec'[db[q].pos - 1 - NHash].key = Key(db[q].pos - 1)
             /\ rec'[db[q].pos - 1 - NHash].datoff = Datoff(db[q].pos - 1)
  <2>1. Items(Len(rec)) \subseteq Items(Len(rec'))
    BY <1>1, RecordTypes DEF Leaves, Items
  <2>2. PICK o : o = db[q].pos - 1
    OBVIOUS
  <2>3. o \in Items(Len(rec)) /\ Key(o) = call[q].key /\ call[q].key \in Keys
    BY <1>1, <1>5, <2>2 DEF Shape, Position
  <2>4. pc[p] # "blank"
    BY <1>1, <1>5, FreeListAlone
  <2>5. pc[p] = "reuseidx" => o # db[p].idxoff
    <3>1. pc[p] = "reuseidx" => Key(db[p].idxoff) = BLANK
      BY <1>1 DEF Shape, Position, Reusing
    <3> QED
      BY <2>3, <3>1, NoneAssumption
  <2>6. o # T
    BY <2>3, <2>4, <2>5 DEF Leaves
  <2>7. Key(o)' = Key(o) /\ Datoff(o)' = Datoff(o)
    BY <2>3, <2>6 DEF Leaves
  <2>8. rec'[o - NHash].key = Key(o) /\ rec'[o - NHash].datoff = Datoff(o)
    BY <2>7 DEF Key, Datoff, Record
  <2> QED
    BY <2>1, <2>2, <2>8
<1> QED
  BY <1>3, <1>4, <1>5

\* The steps of a call leave every other process where it is, and its scan right.
LEMMA OthersStay ==
    ASSUME NEW s, NEW rk, NEW lp, Ready(s, rk, lp), NEW p \in Procs, OnChain(p), call[p].op \notin {"fetch", "nextrec"},
           NEW T, NEW X, NEW s2, NEW rk2, NEW lp2, Leaves(p, T, X, s, rk, lp, s2, rk2, lp2), Others(p), call'[p] = call[p],
           NEW q \in Procs, q # p
    PROVE  Position(q, s2, rk2, lp2)' /\ Scan(q, s2)'
<1>1. Types /\ Protocol /\ Locking /\ table # <<>> /\ Shape(s, rk, lp)
  BY DEF Ready
<1>2. pc'[q] = pc[q] /\ call'[q] = call[q] /\ db'[q] = db[q] /\ steady'[q] \subseteq steady[q]
  BY DEF Others
<1>3. Undisturbed(q, s, rk, lp, s2, rk2, lp2)
  <2>1. pc[q] \in Chaining => /\ SameList(Chain(q), s, rk, lp, s2, rk2, lp2)
                              /\ table'[Chain(q)] = table[Chain(q)]
                              /\ kv'[call[q].key] = kv[call[q].key]
                              /\ \A o \in s[Chain(q)] : Key(o)' = Key(o) /\ Datoff(o)' = Datoff(o)
    BY ChainUndisturbed
  <2>2. /\ pc[q] = "freewalk" => SameList(FREE_OFF, s, rk, lp, s2, rk2, lp2)
        /\ pc[q] = "free" => table'[FREE_OFF] = table[FREE_OFF]
    <3>1. CASE pc[p] \in {"blank", "freewalk"} \cup Cutting
      BY <1>1, <3>1, FreeListAlone DEF Cutting
    <3>2. CASE pc[p] \notin {"blank", "freewalk"} \cup Cutting
      BY <3>2 DEF Leaves, FREE_OFF
    <3> QED
      BY <3>1, <3>2
  <2>3. /\ InHand(q) => rec'[db[q].idxoff - NHash] = rec[db[q].idxoff - NHash]
        /\ InHand(q) => dat'[Datoff(db[q].idxoff)] = dat[Datoff(db[q].idxoff)]
        /\ Reserving(q) => dat'[db[q].datoff] = dat[db[q].datoff]
        /\ pc[q] = "nextdat" => /\ Items(Len(rec)) \subseteq Items(Len(rec'))
                                /\ rec'[db[q].pos - 1 - NHash].key = Key(db[q].pos - 1)
                                /\ rec'[db[q].pos - 1 - NHash].datoff = Datoff(db[q].pos - 1)
    BY RecordsUndisturbed
  <2>4. pc[q] = "reuseidx" => db[q].datoff = Datoff(db[q].idxoff)
    BY <1>1 DEF Shape, Position, Reusing
  <2>5. pc[q] \in {"reuseidx", "idxseek", "idxwrite"} => dat'[db[q].datoff] = dat[db[q].datoff]
    BY <2>3, <2>4 DEF InHand, Reusing, Reserving
  <2>6. pc[q] = "link" => dat'[Datoff(db[q].idxoff)] = dat[Datoff(db[q].idxoff)]
    BY <2>3 DEF InHand
  <2>7. pc[q] = "datwrite" => Len(dat') = Len(dat)
    <3>1. CASE pc[p] = "datwrite" /\ pc[q] = "datwrite"
      <4>1. <<p, DatFile, "w">> \in locks /\ <<q, DatFile, "w">> \in locks
        BY <1>1, <3>1 DEF Locking, LocksOf
      <4> QED
        BY <1>1, <4>1, Excluded
    <3> QED
      BY <3>1 DEF Leaves
  <2>8. pc[q] = "idxwrite" => Len(rec') = Len(rec)
    <3>1. CASE pc[p] = "idxwrite" /\ pc[q] = "idxwrite"
      <4>1. <<p, IdxEnd, "w">> \in locks /\ <<q, IdxEnd, "w">> \in locks
        BY <1>1, <3>1 DEF Locking, LocksOf
      <4> QED
        BY <1>1, <4>1, Excluded
    <3> QED
      BY <3>1 DEF Leaves
  <2> QED
    BY <2>1, <2>2, <2>3, <2>5, <2>6, <2>7, <2>8 DEF Undisturbed
<1>4. Position(q, s, rk, lp) /\ Scan(q, s)
  BY <1>1 DEF Shape
<1>5. Position(q, s2, rk2, lp2)'
  BY <1>2, <1>3, <1>4, PositionKept
<1>6. ASSUME scanning[q] /\ pc[q] \notin {"dead", "aborted"}, NEW k \in steady'[q]
      PROVE  /\ call'[p].key = k => call'[p].op \in {"fetch", "nextrec"}
             /\ kv'[k] = kv[k]
             /\ \A o \in s[Hash[k]] : Key(o) = k => o \in s2[Hash[k]] /\ Key(o)' = k
  <2>1. k \in steady[q] /\ k \in Keys
    BY <1>1, <1>2 DEF Types, TypeOK
  <2>2. call[p].key # k
    BY <1>4, <1>6, <2>1 DEF Scan
  <2>3. kv'[k] = kv[k]
    BY <2>1, <2>2 DEF Leaves
  <2>4. Hash[k] \in 0..NHash /\ Hash[k] # 0
    BY <2>1, HashAssumption
  <2>5. ASSUME NEW o \in s[Hash[k]], Key(o) = k PROVE o \in s2[Hash[k]] /\ Key(o)' = k
    <3>1. CASE Hash[k] = Chain(p)
      BY <2>2, <2>5, <3>1 DEF Leaves
    <3>2. CASE Hash[k] # Chain(p)
      <4>1. s2[Hash[k]] = s[Hash[k]]
        BY <2>4, <3>2 DEF Leaves, SameList
      <4>2. o \in Items(Len(rec)) /\ o \notin s[Chain(p)]
        <5>1. Chain(p) \in 0..NHash
          BY <1>1, CallTypes
        <5> QED
          BY <1>1, <2>4, <3>2, <5>1, ListsApart
      <4>3. pc[p] = "reuseidx" => o # db[p].idxoff
        BY <1>1, <2>4 DEF Shape, Hands, InHand, Reusing
      <4>4. o # T
        BY <4>2, <4>3 DEF Leaves
      <4> QED
        BY <2>5, <4>1, <4>2, <4>4 DEF Leaves
    <3> QED
      BY <3>1, <3>2
  <2> QED
    BY <2>2, <2>3, <2>5
<1>7. Scan(q, s2)'
  BY <1>4, <1>6, ScanKept
<1> QED
  BY <1>5, <1>7

\* What a step that changes the files makes of its own chain, the free list and
\* the record it works on.
OwnRight(p, T, X, s, lp, s2, lp2) ==
    LET k == call[p].key
        c == Chain(p)
    IN
    /\ \A o \in s2[0] : Key(o)' = BLANK
    /\ \A o \in s2[c] : Key(o)' # k => o \in s[c] /\ Key(o)' = Key(o) /\ Datoff(o) # X
    /\ \A o \in s2[c] : Key(o)' = k =>
          /\ kv'[k] # NONE
          /\ dat'[Datoff(o)'] = kv'[k] \/ (pc'[p] = "blank" /\ db'[p].idxoff = o)
          /\ \A o2 \in s2[c] : Key(o2)' = k => o2 = o
    /\ kv'[k] # NONE => Replacing(p)' \/ \E o \in s2[c] : Key(o)' = k
    /\ \A d \in 0..NHash : \A o \in s2[d] : o \in s[d] \/ (InHand(p) /\ o = db[p].idxoff)
    /\ InHand(p)' => /\ db'[p].idxoff \in Items(Len(rec')) /\ \A d \in 0..NHash : db'[p].idxoff \notin s2[d]
                     /\ \/ \E d \in 0..NHash : db'[p].idxoff \in s[d]
                        \/ db'[p].idxoff \notin Items(Len(rec))
                        \/ InHand(p) /\ db'[p].idxoff = db[p].idxoff
    /\ \A o \in Items(Len(rec')) : o = T \/ o \notin Items(Len(rec)) => Key(o)' \in {BLANK, k}
    /\ \A o \in Items(Len(rec')) : Key(o)' = k /\ (o \in s[c] \/ o = T \/ o \notin Items(Len(rec)) \/ (pc[p] = "link" /\ o = db[p].idxoff)) =>
          \/ o \in s2[c]
          \/ pc'[p] \in {"link", "dead"} /\ db'[p].idxoff = o /\ call[p].op \in Stores /\ call[p].data = dat'[Datoff(o)']
    /\ Unlinking(p)' => lp2[db'[p].ptroff] = db'[p].ptrval
    /\ \A m \in 0..(NHash + Len(rec')) :
          \/ Unlinking(p)' /\ m = db'[p].ptroff
          \/ lp2[m] = _db_readptr(m)'
          \/ /\ m \in 0..(NHash + Len(rec)) /\ lp2[m] = lp[m] /\ _db_readptr(m)' = _db_readptr(m)
             /\ ~(Unlinking(p) /\ m = db[p].ptroff)

Changing(p, T, X, s, rk, lp, s2, rk2, lp2) ==
    /\ Ready(s, rk, lp) /\ OnChain(p) /\ call[p].op \notin {"fetch", "nextrec"}
    /\ Others(p) /\ call'[p] = call[p]
    /\ Leaves(p, T, X, s, rk, lp, s2, rk2, lp2) /\ OwnRight(p, T, X, s, lp, s2, lp2)

\* Records of others, on a list or not, stay with their data.
LEMMA Untouched ==
    ASSUME NEW p \in Procs, NEW T, NEW X, NEW s, NEW rk, NEW lp, NEW s2, NEW rk2, NEW lp2,
           Changing(p, T, X, s, rk, lp, s2, rk2, lp2),
           NEW o \in Items(Len(rec)), o \notin s[Chain(p)], ~(InHand(p) /\ o = db[p].idxoff)
    PROVE  /\ Key(o)' = Key(o) /\ Datoff(o)' = Datoff(o) /\ o # T
           /\ Datoff(o) # X /\ Datoff(o) \in 1..Len(dat) /\ dat'[Datoff(o)] = dat[Datoff(o)]
<1>1. Types /\ Protocol /\ Locking /\ table # <<>> /\ Shape(s, rk, lp) /\ Leaves(p, T, X, s, rk, lp, s2, rk2, lp2)
  BY DEF Ready, Changing
<1>2. o # T
  BY <1>1 DEF Leaves, InHand, Reusing
<1>3. Datoff(o) \in 1..Len(dat) /\ \A i \in Items(Len(rec)) : Datoff(i) = Datoff(o) => i = o
  BY <1>1 DEF Shape, Space
<1>4. Datoff(o) # X
  <2> SUFFICES ASSUME Datoff(o) = X PROVE FALSE
    OBVIOUS
  <2>1. X \in 1..Len(dat)
    BY <1>3
  <2>2. OwnPlace(p, X, s)
    BY <1>1 DEF Leaves
  <2>3. PICK i \in Items(Len(rec)) : X = Datoff(i) /\ (i \in s[Chain(p)] \/ (InHand(p) /\ i = db[p].idxoff))
    BY <2>1, <2>2 DEF OwnPlace
  <2> QED
    BY <1>3, <2>3
<1>5. Key(o)' = Key(o) /\ Datoff(o)' = Datoff(o)
  BY <1>1, <1>2 DEF Leaves
<1>6. dat'[Datoff(o)] = dat[Datoff(o)]
  BY <1>1, <1>3, <1>4 DEF Leaves
<1> QED
  BY <1>2, <1>3, <1>4, <1>5, <1>6

\* The chains of the others, and the rest of one's own, hold their records.
LEMMA ChangeContents ==
    ASSUME NEW p \in Procs, NEW T, NEW X, NEW s, NEW rk, NEW lp, NEW s2, NEW rk2, NEW lp2,
           Changing(p, T, X, s, rk, lp, s2, rk2, lp2)
    PROVE  Contents(s2)'
<1>1. /\ Types /\ Protocol /\ Locking /\ table # <<>> /\ Shape(s, rk, lp) /\ OnChain(p)
      /\ Leaves(p, T, X, s, rk, lp, s2, rk2, lp2) /\ OwnRight(p, T, X, s, lp, s2, lp2) /\ Others(p)
      /\ call[p].op # "fetch" /\ call'[p] = call[p]
  BY DEF Ready, Changing
<1>2. Contents(s)
  BY <1>1 DEF Shape
<1>3. Chain(p) \in 0..NHash /\ Chain(p) # 0 /\ call[p].key \in Keys /\ Hash[call[p].key] = Chain(p)
  BY <1>1, CallTypes
<1>4. \A o \in s2[0] : Key(o)' = BLANK
  BY <1>1 DEF OwnRight
<1>5. ASSUME NEW c \in 1..NHash, NEW o \in s2[c]
      PROVE  /\ Key(o)' \in Keys /\ Hash[Key(o)'] = c /\ kv'[Key(o)'] # NONE
             /\ dat'[Datoff(o)'] = kv'[Key(o)'] \/ \E q \in Procs : pc'[q] = "blank" /\ db'[q].idxoff = o
             /\ \A o2 \in s2[c] : Key(o2)' = Key(o)' => o2 = o
  <2>1. c \in 0..NHash /\ c # 0
    BY HashAssumption
  <2>2. CASE c # Chain(p)
    <3>1. s2[c] = s[c]
      BY <1>1, <2>1, <2>2 DEF Leaves, SameList
    <3>2. ASSUME NEW i \in s[c]
          PROVE  /\ Key(i)' = Key(i) /\ Datoff(i)' = Datoff(i) /\ dat'[Datoff(i)] = dat[Datoff(i)]
                 /\ i \notin s[Chain(p)]
      <4>1. i \in Items(Len(rec)) /\ i \notin s[Chain(p)]
        BY <1>1, <1>3, <2>1, <2>2, ListsApart
      <4>2. ~(InHand(p) /\ i = db[p].idxoff)
        BY <1>1, <2>1 DEF Shape, Hands
      <4> QED
        BY <4>1, <4>2, Untouched
    <3>3. /\ Key(o) \in Keys /\ Hash[Key(o)] = c /\ kv[Key(o)] # NONE
          /\ dat[Datoff(o)] = kv[Key(o)] \/ \E q \in Procs : pc[q] = "blank" /\ db[q].idxoff = o
          /\ \A o2 \in s[c] : Key(o2) = Key(o) => o2 = o
      BY <1>2, <3>1 DEF Contents
    <3>4. kv'[Key(o)] = kv[Key(o)]
      BY <1>1, <1>3, <2>2, <3>3 DEF Leaves
    <3>5. ASSUME NEW q \in Procs, pc[q] = "blank", db[q].idxoff = o PROVE pc'[q] = "blank" /\ db'[q].idxoff = o
      <4>1. q # p
        <5>1. pc[p] = "blank" => db[p].idxoff \in s[Chain(p)]
          BY <1>1 DEF Shape, Position, Holding
        <5> QED
          BY <3>1, <3>2, <3>5, <5>1
      <4> QED
        BY <1>1, <3>5, <4>1 DEF Others
    <3> QED
      BY <3>1, <3>2, <3>3, <3>4, <3>5
  <2>3. CASE c = Chain(p) /\ Key(o)' = call[p].key
    BY <1>1, <1>3, <2>3 DEF OwnRight
  <2>4. CASE c = Chain(p) /\ Key(o)' # call[p].key
    <3>1. \A i \in s2[c] : Key(i)' # call[p].key => i \in s[c] /\ Key(i)' = Key(i) /\ Datoff(i) # X
      BY <1>1, <2>4 DEF OwnRight
    <3>2. o \in s[c] /\ Key(o)' = Key(o) /\ Datoff(o) # X
      BY <2>4, <3>1
    <3>3. /\ Key(o) \in Keys /\ Hash[Key(o)] = c /\ kv[Key(o)] # NONE
          /\ dat[Datoff(o)] = kv[Key(o)] \/ \E q \in Procs : pc[q] = "blank" /\ db[q].idxoff = o
          /\ \A o2 \in s[c] : Key(o2) = Key(o) => o2 = o
      BY <1>2, <3>2 DEF Contents
    <3>4. kv'[Key(o)] = kv[Key(o)]
      BY <1>1, <2>4, <3>2, <3>3 DEF Leaves
    <3>5. o \in Items(Len(rec))
      BY <1>1, <2>1, <3>2, ListsApart
    <3>6. o # T
      <4>1. Items(Len(rec)) \subseteq Items(Len(rec'))
        BY <1>1, RecordTypes DEF Leaves, Items
      <4>2. o = T => Key(o)' \in {BLANK, call[p].key}
        BY <1>1, <3>5, <4>1 DEF OwnRight
      <4> QED
        BY <2>4, <3>2, <3>3, <4>2, NoneAssumption
    <3>7. Datoff(o)' = Datoff(o)
      BY <1>1, <3>5, <3>6 DEF Leaves
    <3>8. dat'[Datoff(o)] = dat[Datoff(o)]
      <4>1. Datoff(o) \in 1..Len(dat)
        BY <1>1, <3>5 DEF Shape, Space
      <4> QED
        BY <1>1, <3>2, <4>1 DEF Leaves
    <3>9. ASSUME NEW q \in Procs, pc[q] = "blank", db[q].idxoff = o PROVE FALSE
      <4>1. OnChain(q) /\ db[q].idxoff \in s[Chain(q)] /\ Key(db[q].idxoff) = call[q].key
        BY <1>1, <3>9 DEF Shape, Position, Holding, OnChain, Chaining
      <4>2. q # p
        BY <2>4, <3>2, <3>9, <4>1
      <4>3. Chain(q) # Chain(p) /\ Chain(q) \in 0..NHash
        BY <1>1, <4>1, <4>2, ChainAlone, CallTypes
      <4> QED
        BY <1>1, <1>3, <2>4, <3>2, <3>9, <4>1, <4>3, ListsApart
    <3> QED
      BY <2>4, <3>1, <3>2, <3>3, <3>4, <3>7, <3>8, <3>9
  <2> QED
    BY <2>2, <2>3, <2>4
<1>6. ASSUME NEW k \in Keys, kv'[k] # NONE
      PROVE  \/ \E o \in s2[Hash[k]] : Key(o)' = k
             \/ \E q \in Procs : Replacing(q)' /\ call'[q].key = k
  <2>1. CASE k = call[p].key
    BY <1>1, <1>3, <1>6, <2>1 DEF OwnRight
  <2>2. CASE k # call[p].key
    <3>1. kv[k] # NONE
      BY <1>1, <1>6, <2>2 DEF Leaves
    <3>2. Hash[k] \in 0..NHash /\ Hash[k] # 0
      BY HashAssumption
    <3>3. CASE \E q \in Procs : Replacing(q) /\ call[q].key = k
      <4>1. PICK q \in Procs : Replacing(q) /\ call[q].key = k
        BY <3>3
      <4>2. q # p
        BY <2>2, <4>1
      <4> QED
        BY <1>1, <4>1, <4>2 DEF Others, Replacing
    <3>4. CASE \E o \in s[Hash[k]] : Key(o) = k
      <4>1. PICK o \in s[Hash[k]] : Key(o) = k
        BY <3>4
      <4>2. CASE Hash[k] = Chain(p)
        BY <1>1, <2>2, <4>1, <4>2 DEF Leaves
      <4>3. CASE Hash[k] # Chain(p)
        <5>1. o \in Items(Len(rec)) /\ o \notin s[Chain(p)]
          BY <1>1, <1>3, <3>2, <4>1, <4>3, ListsApart
        <5>2. ~(InHand(p) /\ o = db[p].idxoff)
          BY <1>1, <3>2 DEF Shape, Hands
        <5>3. Key(o)' = Key(o)
          BY <5>1, <5>2, Untouched
        <5>4. s2[Hash[k]] = s[Hash[k]]
          BY <1>1, <3>2, <4>3 DEF Leaves, SameList
        <5> QED
          BY <4>1, <5>3, <5>4
      <4> QED
        BY <4>2, <4>3
    <3> QED
      BY <1>2, <3>1, <3>3, <3>4 DEF Contents
  <2> QED
    BY <2>1, <2>2
<1> QED
  BY <1>4, <1>5, <1>6 DEF Contents

\* Records in others' hands stay there.
LEMMA ChangeHands ==
    ASSUME NEW p \in Procs, NEW T, NEW X, NEW s, NEW rk, NEW lp, NEW s2, NEW rk2, NEW lp2,
           Changing(p, T, X, s, rk, lp, s2, rk2, lp2)
    PROVE  Hands(s2)'
<1>1. /\ Types /\ table # <<>> /\ Shape(s, rk, lp)
      /\ Leaves(p, T, X, s, rk, lp, s2, rk2, lp2) /\ OwnRight(p, T, X, s, lp, s2, lp2) /\ Others(p)
  BY DEF Ready, Changing
<1>2. Items(Len(rec)) \subseteq Items(Len(rec'))
  BY <1>1, RecordTypes DEF Leaves, Items
<1>3. /\ \A d \in 0..NHash : \A o \in s2[d] : o \in s[d] \/ (InHand(p) /\ o = db[p].idxoff)
      /\ InHand(p)' => /\ db'[p].idxoff \in Items(Len(rec')) /\ \A d \in 0..NHash : db'[p].idxoff \notin s2[d]
                       /\ \/ \E d \in 0..NHash : db'[p].idxoff \in s[d]
                          \/ db'[p].idxoff \notin Items(Len(rec))
                          \/ InHand(p) /\ db'[p].idxoff = db[p].idxoff
  BY <1>1 DEF OwnRight
<1>4. ASSUME NEW q \in Procs, q # p, InHand(q)'
      PROVE  /\ InHand(q) /\ db'[q].idxoff = db[q].idxoff
             /\ db[q].idxoff \in Items(Len(rec)) /\ (\A d \in 0..NHash : db[q].idxoff \notin s[d])
             /\ \A r \in Procs : InHand(r) /\ db[r].idxoff = db[q].idxoff => r = q
  <2>1. InHand(q) /\ db'[q].idxoff = db[q].idxoff
    BY <1>1, <1>4 DEF Others, InHand
  <2> QED
    BY <1>1, <2>1 DEF Shape, Hands
<1>5. ASSUME NEW q \in Procs, q # p, InHand(q)', InHand(p)' PROVE db'[p].idxoff # db'[q].idxoff
  BY <1>3, <1>4, <1>5
<1>6. ASSUME NEW q \in Procs, InHand(q)'
      PROVE  /\ db'[q].idxoff \in Items(Len(rec')) /\ \A d \in 0..NHash : db'[q].idxoff \notin s2[d]
             /\ \A r \in Procs : InHand(r)' /\ db'[r].idxoff = db'[q].idxoff => r = q
  <2>1. CASE q = p
    BY <1>3, <1>5, <1>6, <2>1
  <2>2. CASE q # p
    <3>1. db'[q].idxoff \in Items(Len(rec'))
      BY <1>2, <1>4, <1>6, <2>2
    <3>2. \A d \in 0..NHash : db'[q].idxoff \notin s2[d]
      BY <1>3, <1>4, <1>6, <2>2
    <3>3. ASSUME NEW r \in Procs, InHand(r)', db'[r].idxoff = db'[q].idxoff PROVE r = q
      <4>1. r # p
        BY <1>5, <1>6, <2>2, <3>3
      <4> QED
        BY <1>4, <1>6, <2>2, <3>3, <4>1
    <3> QED
      BY <3>1, <3>2, <3>3
  <2> QED
    BY <2>1, <2>2
<1> QED
  BY <1>6 DEF Hands

\* A record with a key stays where its key says, or with the process that stores it.
LEMMA ChangeNamed ==
    ASSUME NEW p \in Procs, NEW T, NEW X, NEW s, NEW rk, NEW lp, NEW s2, NEW rk2, NEW lp2,
           Changing(p, T, X, s, rk, lp, s2, rk2, lp2)
    PROVE  Named(s2)'
<1>1. /\ Types /\ Protocol /\ Locking /\ table # <<>> /\ Shape(s, rk, lp) /\ OnChain(p)
      /\ Leaves(p, T, X, s, rk, lp, s2, rk2, lp2) /\ OwnRight(p, T, X, s, lp, s2, lp2) /\ Others(p)
      /\ call'[p] = call[p]
  BY DEF Ready, Changing
<1>2. Chain(p) \in 0..NHash /\ Chain(p) \in 1..NHash /\ call[p].key \in Keys /\ Hash[call[p].key] = Chain(p)
  BY <1>1, CallTypes
<1> SUFFICES ASSUME NEW o \in Items(Len(rec')), Key(o)' # BLANK
             PROVE  \/ o \in s2[Hash[Key(o)']]
                    \/ \E q \in Procs : /\ pc'[q] \in {"link", "dead"} /\ db'[q].idxoff = o
                                        /\ call'[q].op \in Stores /\ call'[q].key = Key(o)'
                                        /\ call'[q].data = dat'[Datoff(o)']
  BY DEF Named
<1>3. CASE /\ Key(o)' = call[p].key
           /\ o \in s[Chain(p)] \/ o = T \/ o \notin Items(Len(rec)) \/ (pc[p] = "link" /\ o = db[p].idxoff)
  <2>1. \/ o \in s2[Chain(p)]
        \/ /\ pc'[p] \in {"link", "dead"} /\ db'[p].idxoff = o /\ call[p].op \in Stores
           /\ call[p].data = dat'[Datoff(o)']
    BY <1>1, <1>3 DEF OwnRight
  <2> QED
    BY <1>1, <1>2, <1>3, <2>1
<1>4. o = T \/ o \notin Items(Len(rec)) => Key(o)' = call[p].key
  BY <1>1 DEF OwnRight
<1>5. CASE o \in Items(Len(rec)) /\ o # T /\ o \in s[Chain(p)] /\ Key(o)' # call[p].key
  <2>1. Key(o)' = Key(o)
    BY <1>1, <1>5 DEF Leaves
  <2>2. o \in s2[Chain(p)]
    BY <1>1, <1>5, <2>1 DEF Leaves
  <2>3. Hash[Key(o)] = Chain(p)
    BY <1>1, <1>2, <1>5 DEF Shape, Contents
  <2> QED
    BY <2>1, <2>2, <2>3
<1>6. CASE o \in Items(Len(rec)) /\ o # T /\ o \notin s[Chain(p)] /\ InHand(p) /\ o = db[p].idxoff /\ Key(o)' # call[p].key
  <2>1. Key(o)' = Key(o)
    BY <1>1, <1>6 DEF Leaves
  <2>2. Position(p, s, rk, lp)
    BY <1>1 DEF Shape
  <2>3. Key(o) \in {BLANK, call[p].key}
    BY <1>6, <2>2 DEF Position, InHand
  <2> QED
    BY <1>6, <2>1, <2>3
<1>7. CASE o \in Items(Len(rec)) /\ o # T /\ o \notin s[Chain(p)] /\ InHand(p) /\ o = db[p].idxoff /\ pc[p] # "link"
  <2>1. Key(o)' = Key(o)
    BY <1>1, <1>7 DEF Leaves
  <2>2. Position(p, s, rk, lp)
    BY <1>1 DEF Shape
  <2>3. Key(o) = BLANK
    BY <1>7, <2>2 DEF Position, InHand
  <2> QED
    BY <2>1, <2>3
<1>8. CASE o \in Items(Len(rec)) /\ o # T /\ o \notin s[Chain(p)] /\ ~(InHand(p) /\ o = db[p].idxoff)
  <2>1. Key(o)' = Key(o) /\ Datoff(o)' = Datoff(o) /\ dat'[Datoff(o)] = dat[Datoff(o)]
    BY <1>8, Untouched
  <2>2. Key(o) \in Keys
    BY <1>1, <1>8, <2>1, RecordTypes
  <2>3. Hash[Key(o)] \in 0..NHash /\ Hash[Key(o)] # 0
    BY <2>2, HashAssumption
  <2>4. CASE o \in s[Hash[Key(o)]]
    <3>1. Hash[Key(o)] # Chain(p)
      BY <1>8, <2>4
    <3>2. s2[Hash[Key(o)]] = s[Hash[Key(o)]]
      BY <1>1, <2>3, <3>1 DEF Leaves, SameList
    <3> QED
      BY <2>1, <2>4, <3>2
  <2>5. CASE o \notin s[Hash[Key(o)]]
    <3>1. PICK q \in Procs : /\ pc[q] \in {"link", "dead"} /\ db[q].idxoff = o
                             /\ call[q].op \in Stores /\ call[q].key = Key(o) /\ call[q].data = dat[Datoff(o)]
      BY <1>1, <1>8, <2>1, <2>5 DEF Shape, Named
    <3>2. q # p
      BY <1>1, <1>8, <3>1 DEF InHand, OnChain, Chaining, Holding, Cutting, Adding, Reusing, Appending
    <3>3. pc'[q] = pc[q] /\ db'[q] = db[q] /\ call'[q] = call[q]
      BY <1>1, <3>2 DEF Others
    <3> QED
      BY <2>1, <3>1, <3>3
  <2> QED
    BY <2>4, <2>5
<1> QED
  BY <1>3, <1>4, <1>5, <1>6, <1>7, <1>8

\* The pointers of the lists are those in the file, but for the one that a
\* deletion has yet to write.
LEMMA ChangeAgree ==
    ASSUME NEW p \in Procs, NEW T, NEW X, NEW s, NEW rk, NEW lp, NEW s2, NEW rk2, NEW lp2,
           Changing(p, T, X, s, rk, lp, s2, rk2, lp2)
    PROVE  Agree(lp2)'
<1>1. /\ Types /\ Protocol /\ Locking /\ table # <<>> /\ Shape(s, rk, lp) /\ OnChain(p)
      /\ Leaves(p, T, X, s, rk, lp, s2, rk2, lp2) /\ OwnRight(p, T, X, s, lp, s2, lp2) /\ Others(p)
      /\ call[p].op # "fetch"
  BY DEF Ready, Changing
<1>2. /\ Unlinking(p)' => lp2[db'[p].ptroff] = db'[p].ptrval
      /\ \A m \in 0..(NHash + Len(rec')) :
            \/ Unlinking(p)' /\ m = db'[p].ptroff
            \/ lp2[m] = _db_readptr(m)'
            \/ /\ m \in 0..(NHash + Len(rec)) /\ lp2[m] = lp[m] /\ _db_readptr(m)' = _db_readptr(m)
               /\ ~(Unlinking(p) /\ m = db[p].ptroff)
  BY <1>1 DEF OwnRight
<1>3. \A q \in Procs : q # p => db'[q] = db[q] /\ Unlinking(q)' = Unlinking(q)
  BY <1>1 DEF Others, Unlinking
<1>4. Agree(lp)
  BY <1>1 DEF Shape
<1>5. ASSUME NEW m \in 0..(NHash + Len(rec')), \A q \in Procs : Unlinking(q)' => db'[q].ptroff # m
      PROVE  lp2[m] = _db_readptr(m)'
  <2>1. CASE /\ m \in 0..(NHash + Len(rec)) /\ lp2[m] = lp[m] /\ _db_readptr(m)' = _db_readptr(m)
             /\ ~(Unlinking(p) /\ m = db[p].ptroff)
    <3>1. \A q \in Procs : Unlinking(q) => db[q].ptroff # m
      BY <1>3, <1>5, <2>1
    <3> QED
      BY <1>4, <2>1, <3>1 DEF Agree
  <2> QED
    BY <1>2, <1>5, <2>1
<1>6. ASSUME NEW q \in Procs, Unlinking(q)' PROVE lp2[db'[q].ptroff] = db'[q].ptrval
  <2>1. CASE q = p
    BY <1>2, <1>6, <2>1
  <2>2. CASE q # p
    <3>1. Unlinking(q) /\ db'[q] = db[q] /\ OnChain(q)
      BY <1>3, <1>6, <2>2 DEF Unlinking, OnChain, Chaining
    <3>2. Chain(q) # Chain(p) /\ Chain(q) \in 0..NHash /\ Chain(q) # 0
      BY <1>1, <2>2, <3>1, ChainAlone, CallTypes
    <3>3. db[q].ptroff \in {Chain(q)} \cup s[Chain(q)]
      BY <1>1, <3>1 DEF Shape, Position, Unlinking
    <3>4. lp2[db[q].ptroff] = lp[db[q].ptroff]
      BY <1>1, <3>2, <3>3 DEF Leaves, SameList
    <3> QED
      BY <1>4, <3>1, <3>4 DEF Agree
  <2> QED
    BY <2>1, <2>2
<1> QED
  BY <1>5, <1>6 DEF Agree

SpaceSame(p, s, s2) ==
    /\ Len(rec') = Len(rec) /\ Len(dat') = Len(dat) /\ \A o \in Items(Len(rec)) : Datoff(o)' = Datoff(o)
    /\ (Reserving(p) => ~NoDead') /\ ~Reserving(p)' /\ pc[p] # "dead"
    /\ NoDead' => \A o \in Items(Len(rec)) :
          (\E d \in 0..NHash : o \in s[d]) \/ (InHand(p) /\ o = db[p].idxoff) =>
             (\E d \in 0..NHash : o \in s2[d]) \/ (InHand(p)' /\ o = db'[p].idxoff)

\* Space is not lost when a record is taken in hand, or put on a list, and no
\* place is given away.
LEMMA SpaceStays ==
    ASSUME NEW p \in Procs, NEW s, NEW s2, Space(s), Others(p), SpaceSame(p, s, s2)
    PROVE  Space(s2)'
<1>1. /\ Len(rec') = Len(rec) /\ Len(dat') = Len(dat) /\ \A o \in Items(Len(rec)) : Datoff(o)' = Datoff(o)
      /\ \A q \in Procs : Reserving(q)' => Reserving(q) /\ q # p /\ db'[q].datoff = db[q].datoff
      /\ \A q \in Procs : Reserving(q) => ~NoDead' \/ (Reserving(q)' /\ db'[q].datoff = db[q].datoff)
      /\ \A q \in Procs : q # p => InHand(q)' = InHand(q) /\ db'[q] = db[q]
  BY DEF SpaceSame, Others, Reserving, InHand
<1>2. \A o \in Items(Len(rec')) : Datoff(o)' \in 1..Len(dat')
  BY <1>1 DEF Space
<1>3. \A o, o2 \in Items(Len(rec')) : Datoff(o)' = Datoff(o2)' => o = o2
  BY <1>1 DEF Space
<1>4. ASSUME NEW q \in Procs, Reserving(q)'
      PROVE  /\ db'[q].datoff \in 1..Len(dat')
             /\ \A o \in Items(Len(rec')) : Datoff(o)' # db'[q].datoff
             /\ \A r \in Procs : Reserving(r)' /\ db'[r].datoff = db'[q].datoff => r = q
  BY <1>1, <1>4 DEF Space
<1>5. ASSUME NoDead'
      PROVE  /\ \A o \in Items(Len(rec')) : \/ \E c \in 0..NHash : o \in s2[c]
                                            \/ \E q \in Procs : InHand(q)' /\ db'[q].idxoff = o
             /\ \A d \in 1..Len(dat') : \/ \E o \in Items(Len(rec')) : Datoff(o)' = d
                                        \/ \E q \in Procs : Reserving(q)' /\ db'[q].datoff = d
  <2>1. NoDead
    BY <1>5 DEF NoDead, SpaceSame, Others
  <2>2. ASSUME NEW o \in Items(Len(rec'))
        PROVE  \/ \E c \in 0..NHash : o \in s2[c]
               \/ \E q \in Procs : InHand(q)' /\ db'[q].idxoff = o
    <3>1. o \in Items(Len(rec))
      BY <1>1
    <3>2. CASE (\E d \in 0..NHash : o \in s[d]) \/ (InHand(p) /\ o = db[p].idxoff)
      BY <1>5, <3>1, <3>2 DEF SpaceSame
    <3>3. CASE ~((\E d \in 0..NHash : o \in s[d]) \/ (InHand(p) /\ o = db[p].idxoff))
      <4>1. PICK q \in Procs : InHand(q) /\ db[q].idxoff = o
        BY <2>1, <3>1, <3>3 DEF Space
      <4> QED
        BY <1>1, <3>3, <4>1
    <3> QED
      BY <3>2, <3>3
  <2>3. \A d \in 1..Len(dat') : \/ \E o \in Items(Len(rec')) : Datoff(o)' = d
                                \/ \E q \in Procs : Reserving(q)' /\ db'[q].datoff = d
    BY <1>1, <1>5, <2>1 DEF Space
  <2> QED
    BY <2>2, <2>3
<1> QED
  BY <1>2, <1>3, <1>4, <1>5 DEF Space

FilesTyped ==
    /\ table' \in [0..NHash -> Nat] /\ rec' \in Seq(Records) /\ dat' \in Seq(Data \cup {BLANK})
    /\ kv' \in [Keys -> Values]

\* A step that changes the files keeps the invariant when it is right about its
\* own chain, record and place.
LEMMA ChangeReady ==
    ASSUME NEW p \in Procs, NEW T, NEW X, NEW s, NEW rk, NEW lp, NEW s2, NEW rk2, NEW lp2,
           Ready(s, rk, lp), OnChain(p), call[p].op \notin {"fetch", "nextrec"},
           NEW l \in Pcs, NEW d \in DbRecord, NEW r, Moves(p, l, call[p], d, r),
           Takes(p), History(p), steady' = steady, l # "init", FilesTyped, InCallOf(p)', LocksOf(p)',
           Leaves(p, T, X, s, rk, lp, s2, rk2, lp2), OwnRight(p, T, X, s, lp, s2, lp2),
           Typed(s2, rk2, lp2, Len(rec')), Lists(lp2, s2, rk2, Len(rec')), Space(s2)',
           Position(p, s2, rk2, lp2)'
    PROVE  Ready(s2, rk2, lp2)'
<1>1. Types /\ Protocol /\ Locking /\ table # <<>> /\ Shape(s, rk, lp) /\ \A q \in Procs : pc[q] # "init"
  BY DEF Ready
<1>2. call[p] \in CallRecord
  BY <1>1 DEF Types, TypeOK, CallRecord
<1>3. /\ pc'[p] = l /\ call'[p] = call[p] /\ db'[p] = d /\ result'[p] = r
      /\ \A q \in Procs : q # p => pc'[q] = pc[q] /\ call'[q] = call[q] /\ db'[q] = db[q] /\ result'[q] = result[q]
      /\ pc' \in [Procs -> Pcs] /\ call' \in [Procs -> CallRecord] /\ db' \in [Procs -> DbRecord]
      /\ result' = [q \in Procs |-> result'[q]]
  BY <1>1, <1>2, MovesOne
<1>4. Others(p)
  BY <1>3 DEF Others, History
<1>5. Protocol' /\ Locking'
  BY <1>1, <1>4, ProtocolKept, LockingKept
<1>6. Types'
  BY <1>1, <1>3 DEF Types, TypeOK, Takes, LockSet, History, CallRecord, FilesTyped
<1>7. Changing(p, T, X, s, rk, lp, s2, rk2, lp2)
  BY <1>3, <1>4 DEF Changing
<1>8. Agree(lp2)' /\ Contents(s2)' /\ Hands(s2)' /\ Named(s2)'
  BY <1>7, ChangeAgree, ChangeContents, ChangeHands, ChangeNamed
<1>9. ASSUME NEW q \in Procs PROVE Position(q, s2, rk2, lp2)' /\ Scan(q, s2)'
  <2>1. CASE q = p
    <3>1. steady'[p] = {}
      BY <1>1 DEF Protocol, InCallOf
    <3> QED
      BY <2>1, <3>1 DEF Scan
  <2>2. CASE q # p
    BY <1>3, <1>4, <2>2, OthersStay
  <2> QED
    BY <2>1, <2>2
<1>10. table' # <<>> /\ \A q \in Procs : pc'[q] # "init"
  <2>1. DOMAIN table' = 0..NHash /\ 0 \in 0..NHash
    BY HashAssumption DEF FilesTyped
  <2>2. table' # <<>>
    <3>1. <<>> \in Seq(Nat) /\ Len(<<>>) = 0
      BY EmptySeq
    <3>2. DOMAIN <<>> = 1..0
      BY <3>1, LenProperties
    <3>3. 0 \notin DOMAIN <<>>
      BY <3>2
    <3>4. 0 \in DOMAIN table'
      BY <2>1
    <3>5. ASSUME NEW t, 0 \in DOMAIN t PROVE t # <<>>
      BY <3>3, <3>5
    <3> QED
      BY <3>4, <3>5
  <2> QED
    BY <1>1, <1>3, <2>2
<1>11. Shape(s2, rk2, lp2)'
  BY <1>8, <1>9 DEF Shape
<1> QED
  BY <1>5, <1>6, <1>10, <1>11 DEF Ready

\* Where a step takes its own call (DB and the call's arguments in db/db.c), and
\* that it stays the same call.
LEMMA ChangeMoves ==
    ASSUME NEW s, NEW rk, NEW lp, Ready(s, rk, lp), NEW p \in Procs,
           NEW l \in Pcs, NEW d \in DbRecord, NEW r, Moves(p, l, call[p], d, r),
           UNCHANGED <<steady, seen, scanning, bounds>>
    PROVE  /\ pc'[p] = l /\ call'[p] = call[p] /\ db'[p] = d /\ result'[p] = r
           /\ Others(p) /\ History(p) /\ steady' = steady /\ scanning' = scanning
           /\ Chain(p)' = Chain(p) /\ Mode(p)' = Mode(p)
<1>1. Types /\ call[p] \in CallRecord
  BY DEF Ready, Types, TypeOK, CallRecord
<1>2. /\ pc'[p] = l /\ call'[p] = call[p] /\ db'[p] = d /\ result'[p] = r
      /\ \A q \in Procs : q # p => pc'[q] = pc[q] /\ call'[q] = call[q] /\ db'[q] = db[q] /\ result'[q] = result[q]
  BY <1>1, MovesOne
<1>3. History(p) /\ steady' = steady /\ seen' = seen /\ scanning' = scanning
  BY <1>1, HistoryStays
<1>4. Others(p)
  BY <1>2, <1>3 DEF Others
<1>5. Chain(p)' = Chain(p) /\ Mode(p)' = Mode(p)
  BY <1>2 DEF Chain, Mode
<1> QED
  BY <1>2, <1>3, <1>4, <1>5

\* db_store writes over the data of the record it found.
LEMMA OverwriteKeeps ==
    ASSUME NEW s, NEW rk, NEW lp, Ready(s, rk, lp), NEW p \in Procs, Overwrite(p)
    PROVE  Ready(s, rk, lp)'
<1> DEFINE c == Chain(p)
           k == call[p].key
           v == call[p].data
           x == db[p].datoff
           a == <<call[p].op, k, "ok">>
<1>0. PICK i : i = db[p].idxoff
  OBVIOUS
<1>1. /\ pc[p] = "overwrite" /\ dat' = [dat EXCEPT ![x] = v] /\ kv' = [kv EXCEPT ![k] = v]
      /\ UNCHANGED <<table, rec, locks, call, db>> /\ UNCHANGED <<steady, seen, scanning, bounds>>
  BY DEF Overwrite
<1>2. OnChain(p) /\ ~Unlinking(p) /\ ~InHand(p) /\ ~Reserving(p)
  BY <1>1 DEF OnChain, Chaining, Holding, Unlinking, Cutting, InHand, Reusing, Reserving
<1>3. /\ Types /\ Protocol /\ Locking /\ table # <<>> /\ Shape(s, rk, lp)
      /\ c \in 0..NHash /\ c # 0 /\ c \in 1..NHash /\ c = Hash[k]
      /\ call[p] \in CallRecord /\ k \in Keys /\ db[p] \in DbRecord
      /\ InCallOf(p) /\ LocksOf(p) /\ steady[p] = {} /\ Position(p, s, rk, lp)
      /\ s[c] \subseteq Items(Len(rec))
  BY <1>2, OnOwnChain
<1>4. call[p].op \in {"replace", "store"} /\ v \in Data /\ result[p] = NONE /\ v # NONE
  BY <1>1, <1>3, NoneAssumption DEF InCallOf, Stores
<1>5. i \in s[c] /\ i \in Items(Len(rec)) /\ Key(i) = k /\ x = Datoff(i)
  BY <1>0, <1>1, <1>3 DEF Position, Holding
<1>6. x \in 1..Len(dat) /\ \A o \in Items(Len(rec)) : Datoff(o) = x => o = i
  BY <1>3, <1>5 DEF Shape, Space
<1>7. "unlock" \in Pcs /\ Moves(p, "unlock", call[p], db[p], a)
  <2>1. pc \in [Procs -> Pcs] /\ call \in [Procs -> CallRecord] /\ db \in [Procs -> DbRecord]
        /\ result = [q \in Procs |-> result[q]]
    BY <1>3 DEF Types, TypeOK, CallRecord
  <2> QED
    BY <1>1, <2>1 DEF Moves, Overwrite, Answer, Goto, Pcs
<1> HIDE DEF a
<1>8. /\ pc'[p] = "unlock" /\ call'[p] = call[p] /\ db'[p] = db[p] /\ result'[p] = a
      /\ Others(p) /\ History(p) /\ steady' = steady /\ Chain(p)' = Chain(p) /\ Mode(p)' = Mode(p)
      /\ ~InHand(p)' /\ ~Unlinking(p)' /\ ~Reserving(p)'
  <2>1. /\ pc'[p] = "unlock" /\ call'[p] = call[p] /\ db'[p] = db[p] /\ result'[p] = a
        /\ Others(p) /\ History(p) /\ steady' = steady /\ Chain(p)' = Chain(p) /\ Mode(p)' = Mode(p)
    <3>1. UNCHANGED <<steady, seen, scanning, bounds>> /\ db[p] \in DbRecord /\ "unlock" \in Pcs
      BY <1>1, <1>3, <1>7
    <3>2. Moves(p, "unlock", call[p], db[p], a)
      BY <1>7
    <3> QED
      BY <3>1, <3>2, ChangeMoves
  <2> QED
    BY <2>1 DEF InHand, Unlinking, Reserving, Reusing, Cutting
<1>9. Takes(p) /\ locks' = locks
  BY <1>1, <1>3, LocksStay
<1>10. /\ Len(rec) \in Nat /\ Len(dat) \in Nat /\ rec \in Seq(Records) /\ dat \in Seq(Data \cup {BLANK})
       /\ table \in [0..NHash -> Nat] /\ kv \in [Keys -> Values]
  BY <1>3 DEF Types, TypeOK
<1>11. FilesTyped /\ Len(dat') = Len(dat)
  <2>1. dat' \in Seq(Data \cup {BLANK}) /\ Len(dat') = Len(dat)
    BY <1>1, <1>4, <1>6, <1>10
  <2>2. kv' \in [Keys -> Values]
    BY <1>1, <1>4, <1>10 DEF Values
  <2> QED
    BY <1>1, <1>10, <2>1, <2>2 DEF FilesTyped
<1>12. /\ kv'[k] = v /\ \A k2 \in Keys : k2 # k => kv'[k2] = kv[k2]
       /\ dat'[x] = v /\ \A y \in 1..Len(dat) : y # x => dat'[y] = dat[y]
  BY <1>1, <1>3, <1>6, <1>10
<1>13. \A o : Key(o)' = Key(o) /\ Datoff(o)' = Datoff(o) /\ _db_readptr(o)' = _db_readptr(o)
  BY <1>1 DEF Key, Datoff, Record, _db_readptr
<1>14. Leaves(p, 0, x, s, rk, lp, s, rk, lp)
  <2>1. OwnPlace(p, x, s)
    BY <1>5 DEF OwnPlace
  <2>2. 0 \notin Items(Len(rec))
    BY HashAssumption DEF Items
  <2>3. \A d \in 0..NHash : SameList(d, s, rk, lp, s, rk, lp) /\ table'[d] = table[d]
    BY <1>1 DEF SameList
  <2> QED
    BY <1>1, <1>3, <1>10, <1>11, <1>12, <1>13, <2>1, <2>2, <2>3, HashAssumption DEF Leaves
<1>15. OwnRight(p, 0, x, s, lp, s, lp)
  <2>1. Contents(s) /\ Agree(lp) /\ Typed(s, rk, lp, Len(rec))
    BY <1>3 DEF Shape
  <2>2. \A o \in s[0] : Key(o)' = BLANK
    BY <1>13, <2>1 DEF Contents
  <2>3. ASSUME NEW o \in s[c] PROVE /\ Key(o)' = k => o = i
                                    /\ Key(o)' # k => Datoff(o) # x
    BY <1>3, <1>5, <1>6, <1>13, <2>1 DEF Contents
  <2>4. dat'[Datoff(i)'] = kv'[k] /\ kv'[k] # NONE
    BY <1>4, <1>5, <1>12, <1>13
  <2>5. 0 \notin Items(Len(rec)) /\ rec' = rec
    BY <1>1, HashAssumption DEF Items
  <2>6. \A m \in 0..(NHash + Len(rec')) :
          /\ m \in 0..(NHash + Len(rec)) /\ lp[m] = lp[m] /\ _db_readptr(m)' = _db_readptr(m)
          /\ ~(Unlinking(p) /\ m = db[p].ptroff)
    BY <1>2, <1>13, <2>5
  <2> QED
    BY <1>1, <1>5, <1>8, <1>13, <2>2, <2>3, <2>4, <2>5, <2>6 DEF OwnRight
<1>16. Typed(s, rk, lp, Len(rec')) /\ Lists(lp, s, rk, Len(rec'))
  BY <1>1, <1>3 DEF Shape
<1>17. Space(s)'
  <2>1. SpaceSame(p, s, s)
    BY <1>1, <1>2, <1>8, <1>11, <1>13 DEF SpaceSame
  <2> QED
    BY <1>3, <1>8, <2>1, SpaceStays DEF Shape
<1>18. InCallOf(p)'
  BY <1>1, <1>2, <1>3, <1>4, <1>8
     DEF InCallOf, OnChain, OnRecords, Chaining, Holding, Cutting, Adding, Reusing, Appending, Reading
<1>19. LocksOf(p)'
  <2>1. OnChain(p)' /\ ~OnRecords(p)'
    BY <1>4, <1>8 DEF OnChain, OnRecords, Reading
  <2> QED
    BY <1>2, <1>3, <1>8, <1>9, <2>1 DEF LocksOf, Cutting
<1>20. Position(p, s, rk, lp)'
  BY <1>8 DEF Position, Holding, Cutting, Adding, Reusing, Appending
<1>21. call[p].op \notin {"fetch", "nextrec"} /\ "unlock" # "init"
  BY <1>4
<1> HIDE DEF c, k, v, x
<1> QED
  BY <1>2, <1>3, <1>7, <1>8, <1>9, <1>11, <1>14, <1>15, <1>16, <1>17, <1>18, <1>19, <1>20, <1>21, ChangeReady

\* While db_store adds a record its key is not stored, but for a record that it
\* has just deleted.
LEMMA NotStored ==
    ASSUME NEW s, NEW rk, NEW lp, Ready(s, rk, lp), NEW p \in Procs, pc[p] \in Adding,
           kv[call[p].key] # NONE
    PROVE  Replacing(p)
<1>1. OnChain(p) /\ call[p].op # "fetch"
  <2>1. InCallOf(p)
    BY DEF Ready, Protocol
  <2> QED
    BY <2>1 DEF OnChain, Chaining, InCallOf, Adding, Stores
<1>2. /\ Types /\ Protocol /\ Locking /\ Shape(s, rk, lp) /\ call[p].key \in Keys /\ Position(p, s, rk, lp)
      /\ Chain(p) = Hash[call[p].key]
  BY <1>1, OnOwnChain
<1>3. \A o \in s[Chain(p)] : Key(o) # call[p].key
  BY <1>2 DEF Position
<1>4. PICK q \in Procs : Replacing(q) /\ call[q].key = call[p].key
  BY <1>2, <1>3 DEF Shape, Contents
<1>5. OnChain(q)
  BY <1>4 DEF OnChain, Chaining, Replacing, Adding
<1>6. q = p
  BY <1>1, <1>2, <1>4, <1>5, ChainAlone
<1> QED
  BY <1>4, <1>6

\* _db_dodelete locks the free list and blanks the data.
LEMMA DelDataKeeps ==
    ASSUME NEW s, NEW rk, NEW lp, Ready(s, rk, lp), NEW p \in Procs, DelData(p)
    PROVE  Ready(s, rk, lp)'
<1> DEFINE c == Chain(p)
           k == call[p].key
           x == db[p].datoff
<1>0. PICK i : i = db[p].idxoff
  OBVIOUS
<1>1. /\ pc[p] = "delete" /\ dat' = [dat EXCEPT ![x] = BLANK] /\ Lock(p, FREE_OFF, "w")
      /\ UNCHANGED <<table, rec, kv, call, db, result>> /\ UNCHANGED <<steady, seen, scanning, bounds>>
  BY DEF DelData, history
<1>2. OnChain(p) /\ ~Unlinking(p) /\ ~InHand(p) /\ ~Reserving(p)
  BY <1>1 DEF OnChain, Chaining, Holding, Unlinking, Cutting, InHand, Reusing, Reserving
<1>3. /\ Types /\ Protocol /\ Locking /\ table # <<>> /\ Shape(s, rk, lp)
      /\ c \in 0..NHash /\ c # 0 /\ c \in 1..NHash /\ c = Hash[k]
      /\ call[p] \in CallRecord /\ k \in Keys /\ db[p] \in DbRecord
      /\ InCallOf(p) /\ LocksOf(p) /\ steady[p] = {} /\ Position(p, s, rk, lp)
      /\ s[c] \subseteq Items(Len(rec))
  BY <1>2, OnOwnChain
<1>4. call[p].op \in {"delete", "replace", "store"} /\ result[p] = NONE
  BY <1>1, <1>3 DEF InCallOf
<1>5. i \in s[c] /\ i \in Items(Len(rec)) /\ Key(i) = k /\ x = Datoff(i)
  BY <1>0, <1>1, <1>3 DEF Position, Holding
<1>6. x \in 1..Len(dat) /\ \A o \in Items(Len(rec)) : Datoff(o) = x => o = i
  BY <1>3, <1>5 DEF Shape, Space
<1>7. "blank" \in Pcs /\ Moves(p, "blank", call[p], db[p], result[p])
  <2>1. pc \in [Procs -> Pcs] /\ call \in [Procs -> CallRecord] /\ db \in [Procs -> DbRecord]
        /\ result = [q \in Procs |-> result[q]]
    BY <1>3 DEF Types, TypeOK, CallRecord
  <2> QED
    BY <1>1, <2>1 DEF Moves, DelData, Goto, Pcs
<1>8. /\ pc'[p] = "blank" /\ call'[p] = call[p] /\ db'[p] = db[p] /\ result'[p] = result[p]
      /\ Others(p) /\ History(p) /\ steady' = steady /\ Chain(p)' = Chain(p) /\ Mode(p)' = Mode(p)
      /\ ~InHand(p)' /\ ~Unlinking(p)' /\ ~Reserving(p)'
  <2>1. /\ pc'[p] = "blank" /\ call'[p] = call[p] /\ db'[p] = db[p] /\ result'[p] = result[p]
        /\ Others(p) /\ History(p) /\ steady' = steady /\ Chain(p)' = Chain(p) /\ Mode(p)' = Mode(p)
    <3>1. UNCHANGED <<steady, seen, scanning, bounds>> /\ db[p] \in DbRecord /\ "blank" \in Pcs
      BY <1>1, <1>3, <1>7
    <3>2. Moves(p, "blank", call[p], db[p], result[p])
      BY <1>7
    <3> QED
      BY <3>1, <3>2, ChangeMoves
  <2> QED
    BY <2>1 DEF InHand, Unlinking, Reserving, Reusing, Cutting
<1>9. Takes(p) /\ <<p, FREE_OFF, "w">> \in locks' /\ \A j \in locks : j \in locks'
  <2>1. FREE_OFF \in 0..DatFile /\ "w" \in {"r", "w"}
    BY HashAssumption DEF DatFile, FREE_OFF
  <2> QED
    BY <1>1, <1>3, <2>1, LockTaken
<1>10. /\ Len(rec) \in Nat /\ Len(dat) \in Nat /\ rec \in Seq(Records) /\ dat \in Seq(Data \cup {BLANK})
       /\ table \in [0..NHash -> Nat] /\ kv \in [Keys -> Values]
  BY <1>3 DEF Types, TypeOK
<1>11. FilesTyped /\ Len(dat') = Len(dat)
  <2>1. dat' \in Seq(Data \cup {BLANK}) /\ Len(dat') = Len(dat)
    BY <1>1, <1>6, <1>10
  <2> QED
    BY <1>1, <1>10, <2>1 DEF FilesTyped
<1>12. \A y \in 1..Len(dat) : y # x => dat'[y] = dat[y]
  BY <1>1, <1>6, <1>10
<1>13. \A o : Key(o)' = Key(o) /\ Datoff(o)' = Datoff(o) /\ _db_readptr(o)' = _db_readptr(o)
  BY <1>1 DEF Key, Datoff, Record, _db_readptr
<1>14. Leaves(p, 0, x, s, rk, lp, s, rk, lp)
  <2>1. OwnPlace(p, x, s)
    BY <1>5 DEF OwnPlace
  <2>2. 0 \notin Items(Len(rec))
    BY HashAssumption DEF Items
  <2>3. \A d \in 0..NHash : SameList(d, s, rk, lp, s, rk, lp) /\ table'[d] = table[d]
    BY <1>1 DEF SameList
  <2> QED
    BY <1>1, <1>3, <1>10, <1>11, <1>12, <1>13, <2>1, <2>2, <2>3, HashAssumption DEF Leaves
<1>15. OwnRight(p, 0, x, s, lp, s, lp)
  <2>1. Contents(s) /\ Agree(lp) /\ Typed(s, rk, lp, Len(rec))
    BY <1>3 DEF Shape
  <2>2. \A o \in s[0] : Key(o)' = BLANK
    BY <1>13, <2>1 DEF Contents
  <2>3. ASSUME NEW o \in s[c] PROVE /\ Key(o)' = k => o = i
                                    /\ Key(o)' # k => Datoff(o) # x
    BY <1>3, <1>5, <1>6, <1>13, <2>1 DEF Contents
  <2>4. kv'[k] # NONE
    BY <1>1, <1>3, <1>5, <2>1 DEF Contents
  <2>5. 0 \notin Items(Len(rec)) /\ rec' = rec
    BY <1>1, HashAssumption DEF Items
  <2>6. \A m \in 0..(NHash + Len(rec')) :
          /\ m \in 0..(NHash + Len(rec)) /\ lp[m] = lp[m] /\ _db_readptr(m)' = _db_readptr(m)
          /\ ~(Unlinking(p) /\ m = db[p].ptroff)
    BY <1>2, <1>13, <2>5
  <2> QED
    BY <1>0, <1>1, <1>5, <1>8, <1>13, <2>2, <2>3, <2>4, <2>5, <2>6 DEF OwnRight
<1>16. Typed(s, rk, lp, Len(rec')) /\ Lists(lp, s, rk, Len(rec'))
  BY <1>1, <1>3 DEF Shape
<1>17. Space(s)'
  <2>1. SpaceSame(p, s, s)
    BY <1>1, <1>2, <1>8, <1>11, <1>13 DEF SpaceSame
  <2> QED
    BY <1>3, <1>8, <2>1, SpaceStays DEF Shape
<1>18. InCallOf(p)'
  BY <1>1, <1>2, <1>3, <1>4, <1>8
     DEF InCallOf, OnChain, OnRecords, Chaining, Holding, Cutting, Adding, Reusing, Appending, Reading
<1>19. LocksOf(p)'
  <2>1. OnChain(p)' /\ ~OnRecords(p)'
    BY <1>4, <1>8 DEF OnChain, OnRecords, Reading, Chaining, Holding
  <2> QED
    BY <1>2, <1>3, <1>8, <1>9, <2>1 DEF LocksOf, Cutting
<1>20. Position(p, s, rk, lp)'
  <2>1. rec' = rec /\ table' = table
    BY <1>1
  <2> QED
    BY <1>1, <1>3, <1>8, <2>1 DEF Position, Holding, Cutting, Adding, Reusing, Appending, Key, Datoff, Record
<1>21. call[p].op \notin {"fetch", "nextrec"} /\ "blank" # "init"
  BY <1>4
<1> HIDE DEF c, k, x
<1> QED
  BY <1>2, <1>3, <1>7, <1>8, <1>9, <1>11, <1>14, <1>15, <1>16, <1>17, <1>18, <1>19, <1>20, <1>21, ChangeReady

Written(i, key, v) ==
    /\ Len(rec') = Len(rec) /\ rec' \in Seq(Records)
    /\ Key(i)' = key /\ _db_readptr(i)' = v /\ rec'[i - NHash].ptr = v
    /\ \A o \in Items(Len(rec)) : Datoff(o)' = Datoff(o)
    /\ \A o \in Items(Len(rec)) : o # i => /\ rec'[o - NHash] = rec[o - NHash]
                                           /\ Key(o)' = Key(o) /\ _db_readptr(o)' = _db_readptr(o)
    /\ \A o \in 0..NHash : _db_readptr(o)' = _db_readptr(o)

\* _db_writeidx over a record that is there: its key and pointer.
LEMMA RecordWritten ==
    ASSUME Types, table # <<>>, NEW i \in Items(Len(rec)), NEW key \in Keys \cup {BLANK}, NEW v \in Nat,
           NEW n, n = i - NHash, rec' = [rec EXCEPT ![n].key = key, ![n].ptr = v], table' = table
    PROVE  Written(i, key, v)
<1>1. /\ NHash \in Nat /\ Len(rec) \in Nat /\ rec \in [1..Len(rec) -> Records] /\ rec \in Seq(Records)
      /\ n \in 1..Len(rec) /\ i \in Nat /\ i > NHash
  BY RecordTypes DEF Types, TypeOK
<1> DEFINE r == [rec[n] EXCEPT !.key = key, !.ptr = v]
<1>2. rec[n] \in Records
  BY <1>1
<1>3. r \in Records /\ r.key = key /\ r.ptr = v /\ r.datoff = rec[n].datoff
  BY <1>2 DEF Records
<1>4. rec' = [rec EXCEPT ![n] = r]
  BY <1>1, <1>2
<1> HIDE DEF r
<1>5. Len(rec') = Len(rec) /\ rec' \in Seq(Records)
  BY <1>1, <1>3, <1>4
<1>6. rec'[n] = r /\ \A j \in 1..Len(rec) : j # n => rec'[j] = rec[j]
  BY <1>1, <1>4
<1>7. Key(i)' = key /\ rec'[i - NHash].ptr = v /\ Datoff(i)' = Datoff(i)
  BY <1>3, <1>6 DEF Key, Datoff, Record
<1>8. _db_readptr(i)' = v
  BY <1>1, <1>3, <1>6 DEF _db_readptr, Record
<1>9. ASSUME NEW o \in Items(Len(rec)), o # i
      PROVE  /\ rec'[o - NHash] = rec[o - NHash] /\ Key(o)' = Key(o) /\ Datoff(o)' = Datoff(o)
             /\ _db_readptr(o)' = _db_readptr(o)
  <2>1. o - NHash \in 1..Len(rec) /\ o \in Nat /\ o > NHash
    BY RecordTypes
  <2>2. o - NHash # n
    BY <1>1, <1>9, <2>1
  <2>3. rec'[o - NHash] = rec[o - NHash]
    BY <1>6, <2>1, <2>2
  <2>4. _db_readptr(o)' = _db_readptr(o)
    BY <1>1, <2>1, <2>3 DEF _db_readptr, Record
  <2> QED
    BY <2>3, <2>4 DEF Key, Datoff, Record
<1>10. \A o \in 0..NHash : _db_readptr(o)' = _db_readptr(o)
  BY <1>1 DEF _db_readptr
<1> QED
  BY <1>5, <1>7, <1>8, <1>9, <1>10 DEF Written

\* _db_dodelete blanks the key: from here on the record is off its chain, whose
\* pointer is yet to be written.
LEMMA DelIdxKeeps ==
    ASSUME NEW s, NEW rk, NEW lp, Ready(s, rk, lp), NEW p \in Procs, DelIdx(p)
    PROVE  \E s2, rk2, lp2 : Ready(s2, rk2, lp2)'
<1> DEFINE c == Chain(p)
           k == call[p].key
<1>0. PICK i, m, v, y, n : i = db[p].idxoff /\ m = db[p].ptroff /\ v = table[0] /\ y = c /\ n = i - NHash
  OBVIOUS
<1>01. PICK s2, lp2 : Removed(y, m, i, v, s, lp, s2, lp2)
  BY DEF Removed
<1>1. /\ pc[p] = "blank" /\ rec' = [rec EXCEPT ![n].key = BLANK, ![n].ptr = v]
      /\ UNCHANGED <<table, dat, locks, kv, call, db, result>> /\ UNCHANGED <<steady, seen, scanning, bounds>>
  BY <1>0 DEF DelIdx, history, FREE_OFF
<1>2. OnChain(p) /\ ~Unlinking(p) /\ ~InHand(p) /\ ~Reserving(p)
  BY <1>1 DEF OnChain, Chaining, Holding, Unlinking, Cutting, InHand, Reusing, Reserving
<1>3. /\ Types /\ Protocol /\ Locking /\ table # <<>> /\ Shape(s, rk, lp)
      /\ c \in 0..NHash /\ c # 0 /\ c \in 1..NHash /\ c = Hash[k]
      /\ call[p] \in CallRecord /\ k \in Keys /\ db[p] \in DbRecord
      /\ InCallOf(p) /\ LocksOf(p) /\ steady[p] = {} /\ Position(p, s, rk, lp)
      /\ s[c] \subseteq Items(Len(rec))
  BY <1>2, OnOwnChain
<1>4. call[p].op \in {"delete", "replace", "store"} /\ result[p] = NONE
  BY <1>1, <1>3 DEF InCallOf
<1>5. /\ i \in s[c] /\ i \in Items(Len(rec)) /\ Key(i) = k /\ m \in {c} \cup s[c]
      /\ lp[m] = i /\ lp[i] = db[p].ptrval
  BY <1>0, <1>1, <1>3 DEF Position, Holding
<1>6. /\ Len(rec) \in Nat /\ Len(dat) \in Nat /\ rec \in Seq(Records) /\ dat \in Seq(Data \cup {BLANK})
      /\ table \in [0..NHash -> Nat] /\ kv \in [Keys -> Values] /\ NHash \in Nat /\ v \in Nat
      /\ 0 \in 0..NHash /\ n \in 1..Len(rec)
  <2>1. NHash \in Nat /\ 0 \in 0..NHash
    BY HashAssumption
  <2>2. n \in 1..Len(rec)
    BY <1>0, <1>3, <1>5, RecordTypes
  <2> QED
    BY <1>0, <1>3, <2>1, <2>2 DEF Types, TypeOK
<1>7. "free" \in Pcs /\ Moves(p, "free", call[p], db[p], result[p])
  <2>1. pc \in [Procs -> Pcs] /\ call \in [Procs -> CallRecord] /\ db \in [Procs -> DbRecord]
        /\ result = [q \in Procs |-> result[q]]
    BY <1>3 DEF Types, TypeOK, CallRecord
  <2> QED
    BY <1>1, <2>1 DEF Moves, DelIdx, Goto, Pcs
<1>8. /\ pc'[p] = "free" /\ call'[p] = call[p] /\ db'[p] = db[p] /\ result'[p] = result[p]
      /\ Others(p) /\ History(p) /\ steady' = steady /\ Chain(p)' = Chain(p) /\ Mode(p)' = Mode(p)
      /\ InHand(p)' /\ Unlinking(p)' /\ ~Reserving(p)' /\ Replacing(p)'
  <2>1. /\ pc'[p] = "free" /\ call'[p] = call[p] /\ db'[p] = db[p] /\ result'[p] = result[p]
        /\ Others(p) /\ History(p) /\ steady' = steady /\ Chain(p)' = Chain(p) /\ Mode(p)' = Mode(p)
    <3>1. UNCHANGED <<steady, seen, scanning, bounds>> /\ db[p] \in DbRecord /\ "free" \in Pcs
      BY <1>1, <1>3, <1>7
    <3>2. Moves(p, "free", call[p], db[p], result[p])
      BY <1>7
    <3> QED
      BY <3>1, <3>2, ChangeMoves
  <2> QED
    BY <1>4, <2>1 DEF InHand, Unlinking, Reserving, Reusing, Cutting, Replacing
<1>9. Takes(p) /\ locks' = locks
  BY <1>1, <1>3, LocksStay
<1>10. Typed(s2, rk, lp2, Len(rec)) /\ Lists(lp2, s2, rk, Len(rec)) /\ m # i
       /\ \A d \in 0..NHash : d # y => SameList(d, s, rk, lp, s2, rk, lp2)
  <2>1. Typed(s, rk, lp, Len(rec)) /\ Lists(lp, s, rk, Len(rec))
    BY <1>3 DEF Shape
  <2>2. y \in 0..NHash /\ i \in s[y] /\ m \in {y} \cup s[y] /\ lp[m] = i
    BY <1>0, <1>3, <1>5
  <2> QED
    BY <1>01, <1>6, <2>1, <2>2, ListRemove
<1>11. Written(i, BLANK, v)
  BY <1>0, <1>1, <1>3, <1>5, <1>6, RecordWritten
<1>12. /\ \A o \in Items(Len(rec)) : Datoff(o)' = Datoff(o)
       /\ \A o \in Items(Len(rec)) : o # i => /\ rec'[o - NHash] = rec[o - NHash]
                                              /\ Key(o)' = Key(o) /\ _db_readptr(o)' = _db_readptr(o)
       /\ Key(i)' = BLANK /\ _db_readptr(i)' = v /\ rec'[n].ptr = v
       /\ \A o \in 0..NHash : _db_readptr(o)' = _db_readptr(o)
       /\ Len(rec') = Len(rec) /\ rec' \in Seq(Records)
  BY <1>0, <1>11 DEF Written
<1>13. /\ s2[c] = s[c] \ {i} /\ (\A d \in 0..NHash : d # c => s2[d] = s[d])
       /\ lp2[m] = lp[i] /\ lp2[i] = v /\ \A o \in 0..(NHash + Len(rec)) : o # m /\ o # i => lp2[o] = lp[o]
  <2>1. s \in [0..NHash -> SUBSET Items(Len(rec))] /\ lp \in [0..(NHash + Len(rec)) -> Nat]
    BY <1>3 DEF Shape, Typed
  <2>2. m \in 0..(NHash + Len(rec)) /\ i \in 0..(NHash + Len(rec))
    <3>1. \A o \in {c} \cup s[c] : o \in 0..(NHash + Len(rec))
      BY <1>2, OnOwnChain
    <3> QED
      BY <1>5, <3>1
  <2>3. s2[c] = s[c] \ {i} /\ \A d \in 0..NHash : d # c => s2[d] = s[d]
    BY <1>0, <1>01, <1>3, <2>1 DEF Removed
  <2> QED
    BY <1>01, <1>10, <2>1, <2>2, <2>3 DEF Removed
<1>14. Contents(s) /\ Agree(lp)
  BY <1>3 DEF Shape
<1>15. \A o \in s[c] : o # i => Key(o) # k
  BY <1>3, <1>5, <1>14 DEF Contents
<1>16. FilesTyped
  BY <1>1, <1>6, <1>12 DEF FilesTyped
<1>17. Leaves(p, i, 0, s, rk, lp, s2, rk, lp2)
  <2>1. OwnPlace(p, 0, s)
    BY DEF OwnPlace
  <2>2. \A d \in 0..NHash : d # c /\ d # 0 => SameList(d, s, rk, lp, s2, rk, lp2) /\ table'[d] = table[d]
    BY <1>0, <1>1, <1>10
  <2>3. \A o \in Items(Len(rec)) :
          o # i => /\ Key(o)' = Key(o) /\ Datoff(o)' = Datoff(o)
                   /\ o \notin s[c] \cup s[0] => rec'[o - NHash] = rec[o - NHash]
    BY <1>12
  <2>4. \A o \in s[c] : Key(o) # k => o \in s2[c] /\ Key(o)' = Key(o)
    BY <1>3, <1>5, <1>12, <1>13
  <2>5. /\ \A j \in 1..Len(dat) : j # 0 => dat'[j] = dat[j]
        /\ \A j \in Keys : j # k => kv'[j] = kv[j]
        /\ Len(dat') = Len(dat) /\ pc[p] = "blank"
    BY <1>1
  <2>6. Len(rec') = Len(rec) /\ Len(rec') \in Nat /\ Len(rec) <= Len(rec')
    BY <1>6, <1>12
  <2> QED
    BY <1>5, <2>1, <2>2, <2>3, <2>4, <2>5, <2>6 DEF Leaves
<1>18. OwnRight(p, i, 0, s, lp, s2, lp2)
  <2>1. \A o \in Items(Len(rec)) : Datoff(o) # 0
    BY <1>3 DEF Shape, Space
  <2>2. \A o \in s2[0] : Key(o)' = BLANK
    <3>1. \A o \in s[0] : o \in Items(Len(rec)) /\ Key(o) = BLANK
      BY <1>3, <1>6, <1>14, ListsApart DEF Contents
    <3>2. s2[0] = s[0]
      BY <1>3, <1>6, <1>13
    <3>3. ASSUME NEW o \in s[0] PROVE Key(o)' = BLANK
      BY <1>12, <3>1
    <3> QED
      BY <3>2, <3>3
  <2>3. \A o \in s2[c] : o \in s[c] /\ Key(o)' = Key(o) /\ Key(o)' # k /\ Datoff(o) # 0
    BY <1>3, <1>12, <1>13, <1>15, <2>1
  <2>4. \A d \in 0..NHash : s2[d] \subseteq s[d] /\ i \notin s2[d]
    <3>1. \A d \in 0..NHash : d # c => i \notin s[d]
      BY <1>3, <1>5, ListsApart
    <3> QED
      BY <1>13, <3>1
  <2>5. lp2[db'[p].ptroff] = db'[p].ptrval
    BY <1>0, <1>5, <1>8, <1>13
  <2>6. \A z \in 0..(NHash + Len(rec')) :
          \/ z = db'[p].ptroff
          \/ lp2[z] = _db_readptr(z)'
          \/ /\ z \in 0..(NHash + Len(rec)) /\ lp2[z] = lp[z] /\ _db_readptr(z)' = _db_readptr(z)
    <3> TAKE z \in 0..(NHash + Len(rec'))
    <3>1. CASE z = m \/ z = i
      BY <1>0, <1>8, <1>12, <1>13, <3>1
    <3>2. CASE z # m /\ z # i
      <4>1. z \in 0..NHash \/ z \in Items(Len(rec))
        BY <1>6, <1>12 DEF Items
      <4> QED
        BY <1>12, <1>13, <3>2, <4>1
    <3> QED
      BY <3>1, <3>2
  <2>7. db'[p].idxoff = i
    BY <1>0, <1>8
  <2>8. \A o \in Items(Len(rec')) : Key(o)' = k => ~(o \in s[c] \/ o = i \/ o \notin Items(Len(rec)) \/ pc[p] = "link")
    <3>1. BLANK # k
      BY <1>3, NoneAssumption
    <3> QED
      BY <1>1, <1>12, <1>15, <3>1
  <2>9. /\ db'[p].idxoff \in Items(Len(rec')) /\ (\A d \in 0..NHash : db'[p].idxoff \notin s2[d])
        /\ db'[p].idxoff \in s[c]
    BY <1>5, <1>12, <2>4, <2>7
  <2>10. \A o \in Items(Len(rec')) : o = i \/ o \notin Items(Len(rec)) => Key(o)' \in {BLANK, k}
    BY <1>12
  <2> QED
    BY <1>2, <1>3, <1>8, <2>2, <2>3, <2>4, <2>5, <2>6, <2>8, <2>9, <2>10 DEF OwnRight
<1>19. Space(s2)'
  <2>1. ASSUME NEW o \in Items(Len(rec)), NEW d \in 0..NHash, o \in s[d]
        PROVE  o \in s2[d] \/ o = db'[p].idxoff
    BY <1>0, <1>8, <1>13, <2>1
  <2>2. SpaceSame(p, s, s2)
    BY <1>1, <1>2, <1>8, <1>12, <2>1 DEF SpaceSame
  <2> QED
    BY <1>3, <1>8, <2>2, SpaceStays DEF Shape
<1>20. InCallOf(p)'
  BY <1>1, <1>2, <1>3, <1>4, <1>8
     DEF InCallOf, OnChain, OnRecords, Chaining, Holding, Cutting, Adding, Reusing, Appending, Reading
<1>21. LocksOf(p)'
  <2>1. OnChain(p)' /\ ~OnRecords(p)'
    BY <1>4, <1>8 DEF OnChain, OnRecords, Reading, Chaining, Cutting
  <2> QED
    BY <1>1, <1>2, <1>3, <1>8, <1>9, <2>1 DEF LocksOf, Cutting
<1>22. Position(p, s2, rk, lp2)'
  <2>1. /\ m \in {c} \cup s2[c] /\ (\A o \in s2[c] : Key(o)' # k) /\ kv'[k] # NONE
    <3>1. m \in {c} \cup s2[c]
      BY <1>5, <1>10, <1>13
    <3>2. \A o \in s2[c] : Key(o)' # k
      BY <1>3, <1>12, <1>13, <1>15
    <3>3. kv[k] # NONE
      BY <1>3, <1>5, <1>14 DEF Contents
    <3> QED
      BY <1>1, <3>1, <3>2, <3>3
  <2>2. Key(i)' = BLANK /\ Record(i).ptr' = table'[FREE_OFF]
    BY <1>0, <1>1, <1>12 DEF FREE_OFF, Record
  <2>3. db'[p].idxoff = i /\ db'[p].ptroff = m /\ call'[p].key = k /\ Chain(p)' = c
    BY <1>0, <1>8
  <2> QED
    BY <1>8, <2>1, <2>2, <2>3 DEF Position, Holding, Cutting, Adding, Reusing, Appending
<1>23. call[p].op \notin {"fetch", "nextrec"} /\ "free" # "init"
  BY <1>4
<1> HIDE DEF c, k
<1>24. Typed(s2, rk, lp2, Len(rec')) /\ Lists(lp2, s2, rk, Len(rec'))
  BY <1>10, <1>12
<1>25. Ready(s2, rk, lp2)'
  BY <1>2, <1>3, <1>7, <1>8, <1>9, <1>16, <1>17, <1>18, <1>19, <1>20, <1>21, <1>22, <1>23, <1>24, ChangeReady
<1> QED
  BY <1>25

Pointed(m, v) ==
    /\ Len(rec') = Len(rec) /\ rec' \in Seq(Records) /\ table' \in [0..NHash -> Nat]
    /\ _db_readptr(m)' = v
    /\ \A o \in Items(Len(rec)) : Key(o)' = Key(o) /\ Datoff(o)' = Datoff(o)
    /\ \A o \in Items(Len(rec)) : o # m => rec'[o - NHash] = rec[o - NHash]
    /\ \A o \in 0..(NHash + Len(rec)) : o # m => _db_readptr(o)' = _db_readptr(o)
    /\ \A d \in 0..NHash : d # m => table'[d] = table[d]
    /\ m \in 0..NHash => rec' = rec /\ table'[m] = v

\* _db_writeptr changes one pointer, in the hash table or of a record.
LEMMA PointerWritten ==
    ASSUME Types, table # <<>>, NEW m \in 0..(NHash + Len(rec)), NEW v \in Nat, _db_writeptr(m, v)
    PROVE  Pointed(m, v)
<1>1. /\ NHash \in Nat /\ Len(rec) \in Nat /\ rec \in [1..Len(rec) -> Records] /\ rec \in Seq(Records)
      /\ table \in [0..NHash -> Nat]
      /\ \A o \in Items(Len(rec)) : o - NHash \in 1..Len(rec) /\ o \in Nat /\ o > NHash
  BY RecordTypes DEF Types, TypeOK
<1>2. CASE m <= NHash
  <2>1. m \in 0..NHash
    BY <1>1, <1>2
  <2>2. table' = [table EXCEPT ![m] = v] /\ rec' = rec
    BY <1>2 DEF _db_writeptr
  <2>3. table' \in [0..NHash -> Nat] /\ table'[m] = v /\ \A d \in 0..NHash : d # m => table'[d] = table[d]
    BY <1>1, <2>1, <2>2
  <2>4. _db_readptr(m)' = v
    BY <1>2, <2>3 DEF _db_readptr
  <2>5. \A o \in Items(Len(rec)) : Key(o)' = Key(o) /\ Datoff(o)' = Datoff(o) /\ rec'[o - NHash] = rec[o - NHash]
    BY <2>2 DEF Key, Datoff, Record
  <2>6. \A o \in 0..(NHash + Len(rec)) : o # m => _db_readptr(o)' = _db_readptr(o)
    <3> TAKE o \in 0..(NHash + Len(rec))
    <3>1. CASE o <= NHash
      <4>1. o \in 0..NHash
        BY <1>1, <3>1
      <4> QED
        BY <2>3, <3>1, <4>1 DEF _db_readptr
    <3>2. CASE ~(o <= NHash)
      BY <2>2, <3>2 DEF _db_readptr, Record
    <3> QED
      BY <3>1, <3>2
  <2> QED
    BY <1>1, <2>2, <2>3, <2>4, <2>5, <2>6 DEF Pointed
<1>3. CASE ~(m <= NHash)
  <2> DEFINE n == m - NHash
  <2>1. n \in 1..Len(rec) /\ m \notin 0..NHash
    BY <1>1, <1>3
  <2>2. table' = table /\ rec' = [rec EXCEPT ![n].ptr = v]
    BY <1>3 DEF _db_writeptr
  <2> DEFINE r == [rec[n] EXCEPT !.ptr = v]
  <2>3. rec[n] \in Records
    BY <1>1, <2>1
  <2>4. r \in Records /\ r.ptr = v /\ r.key = rec[n].key /\ r.datoff = rec[n].datoff
    BY <2>3 DEF Records
  <2>5. rec' = [rec EXCEPT ![n] = r]
    BY <1>1, <2>1, <2>2, <2>3
  <2> HIDE DEF r
  <2>6. Len(rec') = Len(rec) /\ rec' \in Seq(Records)
    BY <1>1, <2>1, <2>4, <2>5
  <2>7. rec'[n] = r /\ \A j \in 1..Len(rec) : j # n => rec'[j] = rec[j]
    BY <1>1, <2>1, <2>5
  <2>8. _db_readptr(m)' = v
    BY <1>3, <2>4, <2>7 DEF _db_readptr, Record
  <2>9. ASSUME NEW o \in Items(Len(rec))
        PROVE  /\ Key(o)' = Key(o) /\ Datoff(o)' = Datoff(o)
               /\ o # m => rec'[o - NHash] = rec[o - NHash]
    <3>1. o - NHash \in 1..Len(rec) /\ o \in Nat
      BY <1>1
    <3>2. o # m => rec'[o - NHash] = rec[o - NHash]
      BY <1>1, <2>1, <2>7, <3>1
    <3>3. rec'[o - NHash].key = rec[o - NHash].key /\ rec'[o - NHash].datoff = rec[o - NHash].datoff
      BY <2>4, <2>7, <3>2
    <3> QED
      BY <3>2, <3>3 DEF Key, Datoff, Record
  <2>10. \A o \in 0..(NHash + Len(rec)) : o # m => _db_readptr(o)' = _db_readptr(o)
    <3> SUFFICES ASSUME NEW o \in 0..(NHash + Len(rec)), o # m PROVE _db_readptr(o)' = _db_readptr(o)
      OBVIOUS
    <3>1. CASE o <= NHash
      BY <2>2, <3>1 DEF _db_readptr
    <3>2. CASE ~(o <= NHash)
      <4>1. o \in Items(Len(rec))
        BY <1>1, <3>2 DEF Items
      <4>2. rec'[o - NHash] = rec[o - NHash]
        BY <2>9, <4>1
      <4> QED
        BY <3>2, <4>2 DEF _db_readptr, Record
    <3> QED
      BY <3>1, <3>2
  <2> HIDE DEF n
  <2> QED
    BY <1>1, <2>1, <2>2, <2>6, <2>8, <2>9, <2>10 DEF Pointed
<1> QED
  BY <1>2, <1>3

\* _db_dodelete puts the record on the free list.
LEMMA DelFreeKeeps ==
    ASSUME NEW s, NEW rk, NEW lp, Ready(s, rk, lp), NEW p \in Procs, DelFree(p)
    PROVE  \E s2, rk2, lp2 : Ready(s2, rk2, lp2)'
<1> DEFINE c == Chain(p)
           k == call[p].key
<1>0. PICK i, m : i = db[p].idxoff /\ m = db[p].ptroff
  OBVIOUS
<1>01. PICK s2, rk2, lp2 : Inserted(0, i, s, rk, lp, s2, rk2, lp2)
  BY DEF Inserted
<1>1. /\ pc[p] = "free" /\ _db_writeptr(0, i)
      /\ UNCHANGED <<dat, locks, kv, call, db, result>> /\ UNCHANGED <<steady, seen, scanning, bounds>>
  BY <1>0 DEF DelFree, history, FREE_OFF
<1>2. OnChain(p) /\ Unlinking(p) /\ InHand(p) /\ ~Reserving(p)
  BY <1>1 DEF OnChain, Chaining, Holding, Unlinking, Cutting, InHand, Reusing, Reserving
<1>3. /\ Types /\ Protocol /\ Locking /\ table # <<>> /\ Shape(s, rk, lp)
      /\ c \in 0..NHash /\ c # 0 /\ c \in 1..NHash /\ c = Hash[k]
      /\ call[p] \in CallRecord /\ k \in Keys /\ db[p] \in DbRecord
      /\ InCallOf(p) /\ LocksOf(p) /\ steady[p] = {} /\ Position(p, s, rk, lp)
      /\ s[c] \subseteq Items(Len(rec))
  BY <1>2, OnOwnChain
<1>4. call[p].op \in {"delete", "replace", "store"} /\ result[p] = NONE
  BY <1>1, <1>3 DEF InCallOf, Cutting
<1>5. /\ i \in Items(Len(rec)) /\ (\A d \in 0..NHash : i \notin s[d])
      /\ m \in {c} \cup s[c] /\ Record(i).ptr = table[0] /\ Key(i) = BLANK
      /\ (\A o \in s[c] : Key(o) # k) /\ kv[k] # NONE
  <2>1. i \in Items(Len(rec)) /\ \A d \in 0..NHash : i \notin s[d]
    BY <1>0, <1>2, <1>3 DEF Shape, Hands
  <2> QED
    BY <1>0, <1>1, <1>3, <2>1 DEF Position, Cutting, FREE_OFF
<1>6. /\ Len(rec) \in Nat /\ Len(dat) \in Nat /\ rec \in Seq(Records) /\ dat \in Seq(Data \cup {BLANK})
      /\ table \in [0..NHash -> Nat] /\ kv \in [Keys -> Values] /\ NHash \in Nat /\ i \in Nat
      /\ 0 \in 0..NHash /\ 0 \in 0..(NHash + Len(rec)) /\ i > NHash /\ i \in 0..(NHash + Len(rec))
  <2>1. NHash \in Nat /\ 0 \in 0..NHash
    BY HashAssumption
  <2>2. i \in Nat /\ i > NHash /\ i \in 0..(NHash + Len(rec)) /\ Len(rec) \in Nat
    BY <1>3, <1>5, RecordTypes
  <2> QED
    BY <1>3, <2>1, <2>2 DEF Types, TypeOK
<1>7. "unchain" \in Pcs /\ Moves(p, "unchain", call[p], db[p], result[p])
  <2>1. pc \in [Procs -> Pcs] /\ call \in [Procs -> CallRecord] /\ db \in [Procs -> DbRecord]
        /\ result = [q \in Procs |-> result[q]]
    BY <1>3 DEF Types, TypeOK, CallRecord
  <2> QED
    BY <1>1, <2>1 DEF Moves, DelFree, Goto, Pcs
<1>8. /\ pc'[p] = "unchain" /\ call'[p] = call[p] /\ db'[p] = db[p] /\ result'[p] = result[p]
      /\ Others(p) /\ History(p) /\ steady' = steady /\ Chain(p)' = Chain(p) /\ Mode(p)' = Mode(p)
      /\ ~InHand(p)' /\ Unlinking(p)' /\ ~Reserving(p)' /\ Replacing(p)'
  <2>1. /\ pc'[p] = "unchain" /\ call'[p] = call[p] /\ db'[p] = db[p] /\ result'[p] = result[p]
        /\ Others(p) /\ History(p) /\ steady' = steady /\ Chain(p)' = Chain(p) /\ Mode(p)' = Mode(p)
    <3>1. UNCHANGED <<steady, seen, scanning, bounds>> /\ db[p] \in DbRecord /\ "unchain" \in Pcs
      BY <1>1, <1>3, <1>7
    <3>2. Moves(p, "unchain", call[p], db[p], result[p])
      BY <1>7
    <3> QED
      BY <3>1, <3>2, ChangeMoves
  <2> QED
    BY <1>4, <2>1 DEF InHand, Unlinking, Reserving, Reusing, Cutting, Replacing
<1>9. Takes(p) /\ locks' = locks
  BY <1>1, <1>3, LocksStay
<1>10. Typed(s2, rk2, lp2, Len(rec)) /\ Lists(lp2, s2, rk2, Len(rec))
       /\ \A d \in 0..NHash : d # 0 => SameList(d, s, rk, lp, s2, rk2, lp2)
  <2>1. Typed(s, rk, lp, Len(rec)) /\ Lists(lp, s, rk, Len(rec))
    BY <1>3 DEF Shape
  <2> QED
    BY <1>01, <1>5, <1>6, <2>1, ListInsert
<1>11. Pointed(0, i)
  BY <1>1, <1>3, <1>6, PointerWritten
<1>12. /\ Len(rec') = Len(rec) /\ rec' = rec /\ table' \in [0..NHash -> Nat] /\ table'[0] = i
       /\ _db_readptr(0)' = i
       /\ \A o \in Items(Len(rec)) : Key(o)' = Key(o) /\ Datoff(o)' = Datoff(o)
       /\ \A o \in 0..(NHash + Len(rec)) : o # 0 => _db_readptr(o)' = _db_readptr(o)
       /\ \A d \in 0..NHash : d # 0 => table'[d] = table[d]
  BY <1>6, <1>11 DEF Pointed
<1>13. /\ s2[0] = s[0] \cup {i} /\ (\A d \in 0..NHash : d # 0 => s2[d] = s[d])
       /\ lp2[0] = i /\ lp2[i] = lp[0] /\ \A o \in 0..(NHash + Len(rec)) : o # 0 /\ o # i => lp2[o] = lp[o]
  <2>1. s \in [0..NHash -> SUBSET Items(Len(rec))] /\ lp \in [0..(NHash + Len(rec)) -> Nat]
    BY <1>3 DEF Shape, Typed
  <2>2. s2[0] = s[0] \cup {i} /\ \A d \in 0..NHash : d # 0 => s2[d] = s[d]
    BY <1>01, <1>6, <2>1 DEF Inserted
  <2>3. i # 0
    BY <1>6
  <2> QED
    BY <1>01, <1>6, <2>1, <2>2, <2>3 DEF Inserted
<1>14. Contents(s) /\ Agree(lp)
  BY <1>3 DEF Shape
<1>15. lp[0] = _db_readptr(i)
  <2>1. lp[0] = _db_readptr(0)
    BY FreePointers
  <2>2. _db_readptr(0) = table[0] /\ _db_readptr(i) = Record(i).ptr
    BY <1>3, <1>5, <1>6, RecordTypes
  <2> QED
    BY <1>5, <2>1, <2>2
<1>16. FilesTyped
  BY <1>1, <1>6, <1>12 DEF FilesTyped
<1>17. Leaves(p, 0, 0, s, rk, lp, s2, rk2, lp2)
  <2>1. OwnPlace(p, 0, s)
    BY DEF OwnPlace
  <2>2. \A d \in 0..NHash : d # c /\ d # 0 => SameList(d, s, rk, lp, s2, rk2, lp2) /\ table'[d] = table[d]
    BY <1>10, <1>12
  <2>3. \A o \in Items(Len(rec)) :
          o # 0 => /\ Key(o)' = Key(o) /\ Datoff(o)' = Datoff(o)
                   /\ o \notin s[c] \cup s[0] => rec'[o - NHash] = rec[o - NHash]
    BY <1>12
  <2>4. \A o \in s[c] : Key(o) # k => o \in s2[c] /\ Key(o)' = Key(o)
    BY <1>3, <1>12, <1>13
  <2>5. /\ \A j \in 1..Len(dat) : j # 0 => dat'[j] = dat[j]
        /\ \A j \in Keys : j # k => kv'[j] = kv[j]
        /\ Len(dat') = Len(dat) /\ pc[p] \in Cutting
    BY <1>1 DEF Cutting
  <2>6. Len(rec') = Len(rec) /\ Len(rec') \in Nat /\ Len(rec) <= Len(rec')
    BY <1>6, <1>12
  <2>7. 0 \notin Items(Len(rec))
    BY <1>6 DEF Items
  <2> QED
    BY <2>1, <2>2, <2>3, <2>4, <2>5, <2>6, <2>7 DEF Leaves
<1>18. OwnRight(p, 0, 0, s, lp, s2, lp2)
  <2>1. \A o \in Items(Len(rec)) : Datoff(o) # 0
    BY <1>3 DEF Shape, Space
  <2>2. \A o \in s2[0] : Key(o)' = BLANK
    <3>1. \A o \in s[0] : o \in Items(Len(rec)) /\ Key(o) = BLANK
      BY <1>3, <1>6, <1>14, ListsApart DEF Contents
    <3> QED
      BY <1>5, <1>12, <1>13, <3>1
  <2>3. \A o \in s2[c] : o \in s[c] /\ Key(o)' = Key(o) /\ Key(o)' # k /\ Datoff(o) # 0
    BY <1>3, <1>5, <1>12, <1>13, <2>1
  <2>4. \A d \in 0..NHash : \A o \in s2[d] : o \in s[d] \/ o = db[p].idxoff
    BY <1>0, <1>13
  <2>5. lp2[db'[p].ptroff] = db'[p].ptrval
    <3>1. lp[m] = db[p].ptrval
      BY <1>0, <1>2, <1>14 DEF Agree
    <3>2. m \in 0..(NHash + Len(rec)) /\ m # 0 /\ m # i
      <4>1. \A o \in {c} \cup s[c] : o \in 0..(NHash + Len(rec))
        BY <1>2, OnOwnChain
      <4>2. 0 \notin Items(Len(rec)) /\ c \notin Items(Len(rec))
        BY <1>3, <1>6 DEF Items
      <4> QED
        BY <1>3, <1>5, <4>1, <4>2
    <3> QED
      BY <1>0, <1>8, <1>13, <3>1, <3>2
  <2>6. \A z \in 0..(NHash + Len(rec')) :
          \/ z = db'[p].ptroff
          \/ lp2[z] = _db_readptr(z)'
          \/ /\ z \in 0..(NHash + Len(rec)) /\ lp2[z] = lp[z] /\ _db_readptr(z)' = _db_readptr(z)
             /\ z # db[p].ptroff
    <3> TAKE z \in 0..(NHash + Len(rec'))
    <3>0. z \in 0..(NHash + Len(rec)) /\ db'[p] = db[p]
      BY <1>8, <1>12
    <3>1. CASE z = 0
      BY <1>12, <1>13, <3>1
    <3>2. CASE z = i
      <4>1. i # 0
        BY <1>6
      <4>2. _db_readptr(i)' = _db_readptr(i)
        BY <1>6, <1>12, <4>1
      <4> QED
        BY <1>13, <1>15, <3>2, <4>2
    <3>3. CASE z # 0 /\ z # i
      BY <1>12, <1>13, <3>0, <3>3
    <3> QED
      BY <3>1, <3>2, <3>3
  <2>8. \A o \in Items(Len(rec')) : Key(o)' = k => ~(o \in s[c] \/ o = 0 \/ o \notin Items(Len(rec)) \/ pc[p] = "link")
    <3>1. 0 \notin Items(Len(rec))
      BY <1>6 DEF Items
    <3> QED
      BY <1>1, <1>5, <1>12, <3>1
  <2>10. \A o \in Items(Len(rec')) : ~(o = 0 \/ o \notin Items(Len(rec)))
    BY <1>6, <1>12 DEF Items
  <2> QED
    BY <1>2, <1>3, <1>8, <2>2, <2>3, <2>4, <2>5, <2>6, <2>8, <2>10 DEF OwnRight
<1>19. Space(s2)'
  <2>1. ASSUME NEW o \in Items(Len(rec)), NEW d \in 0..NHash, o \in s[d] PROVE o \in s2[d]
    BY <1>13, <2>1
  <2>2. i \in s2[0]
    BY <1>13
  <2>3. SpaceSame(p, s, s2)
    BY <1>0, <1>1, <1>2, <1>6, <1>8, <1>12, <2>1, <2>2 DEF SpaceSame
  <2> QED
    BY <1>3, <1>8, <2>3, SpaceStays DEF Shape
<1>20. InCallOf(p)'
  BY <1>1, <1>2, <1>3, <1>4, <1>8
     DEF InCallOf, OnChain, OnRecords, Chaining, Holding, Cutting, Adding, Reusing, Appending, Reading
<1>21. LocksOf(p)'
  <2>1. OnChain(p)' /\ ~OnRecords(p)'
    BY <1>4, <1>8 DEF OnChain, OnRecords, Reading, Chaining, Cutting
  <2> QED
    BY <1>1, <1>2, <1>3, <1>8, <1>9, <2>1 DEF LocksOf, Cutting
<1>22. Position(p, s2, rk2, lp2)'
  <2>1. /\ m \in {c} \cup s2[c] /\ (\A o \in s2[c] : Key(o)' # k) /\ kv'[k] # NONE
    BY <1>1, <1>3, <1>5, <1>12, <1>13
  <2>3. db'[p].ptroff = m /\ call'[p].key = k /\ Chain(p)' = c
    BY <1>0, <1>8
  <2> QED
    BY <1>8, <2>1, <2>3 DEF Position, Holding, Cutting, Adding, Reusing, Appending
<1>23. call[p].op \notin {"fetch", "nextrec"} /\ "unchain" # "init"
  BY <1>4
<1> HIDE DEF c, k
<1>24. Typed(s2, rk2, lp2, Len(rec')) /\ Lists(lp2, s2, rk2, Len(rec'))
  BY <1>10, <1>12
<1>25. Ready(s2, rk2, lp2)'
  BY <1>2, <1>3, <1>7, <1>8, <1>9, <1>16, <1>17, <1>18, <1>19, <1>20, <1>21, <1>22, <1>23, <1>24, ChangeReady
<1> QED
  BY <1>25

\* _db_dodelete takes the record off its chain; db_store goes on to append.
LEMMA DelChainKeeps ==
    ASSUME NEW s, NEW rk, NEW lp, Ready(s, rk, lp), NEW p \in Procs, DelChain(p)
    PROVE  Ready(s, rk, lp)'
<1> DEFINE c == Chain(p)
           k == call[p].key
<1>0. PICK m, v, y, w : m = db[p].ptroff /\ v = db[p].ptrval /\ y = c /\ w = table'[y]
  OBVIOUS
<1> DEFINE d == [db[p] EXCEPT !.pos = Lost, !.link = w]
           l == IF call[p].op = "delete" THEN "unlock" ELSE "datseek"
           r == IF call[p].op = "delete" THEN <<call[p].op, k, "ok">> ELSE result[p]
<1>1. /\ pc[p] = "unchain" /\ _db_writeptr(m, v) /\ Release(p, FREE_OFF)
      /\ call[p].op = "delete" => kv' = [kv EXCEPT ![k] = NONE]
      /\ call[p].op # "delete" => kv' = kv
      /\ UNCHANGED <<dat, call>> /\ UNCHANGED <<steady, seen, scanning, bounds>>
  BY <1>0 DEF DelChain, history, FREE_OFF
<1>2. OnChain(p) /\ Unlinking(p) /\ ~InHand(p) /\ ~Reserving(p)
  BY <1>1 DEF OnChain, Chaining, Holding, Unlinking, Cutting, InHand, Reusing, Reserving
<1>3. /\ Types /\ Protocol /\ Locking /\ table # <<>> /\ Shape(s, rk, lp)
      /\ c \in 0..NHash /\ c # 0 /\ c \in 1..NHash /\ c = Hash[k]
      /\ call[p] \in CallRecord /\ k \in Keys /\ db[p] \in DbRecord
      /\ InCallOf(p) /\ LocksOf(p) /\ steady[p] = {} /\ Position(p, s, rk, lp)
      /\ s[c] \subseteq Items(Len(rec))
  BY <1>2, OnOwnChain
<1>4. call[p].op \in {"delete", "replace", "store"} /\ result[p] = NONE
  BY <1>1, <1>3 DEF InCallOf, Cutting
<1>5. /\ m \in {c} \cup s[c] /\ (\A o \in s[c] : Key(o) # k) /\ kv[k] # NONE /\ lp[m] = v
  <2>1. lp[m] = v
    BY <1>0, <1>2, <1>3 DEF Shape, Agree
  <2> QED
    BY <1>0, <1>1, <1>3, <2>1 DEF Position, Cutting, FREE_OFF
<1>6. /\ Len(rec) \in Nat /\ Len(dat) \in Nat /\ rec \in Seq(Records) /\ dat \in Seq(Data \cup {BLANK})
      /\ table \in [0..NHash -> Nat] /\ kv \in [Keys -> Values] /\ NHash \in Nat
      /\ 0 \in 0..NHash /\ m \in 0..(NHash + Len(rec)) /\ v \in Nat
      /\ 0 \notin Items(Len(rec)) /\ m # 0
  <2>1. NHash \in Nat /\ 0 \in 0..NHash /\ 0 \notin Items(Len(rec))
    BY HashAssumption DEF Items
  <2>2. m \in 0..(NHash + Len(rec)) /\ v \in Nat
    <3>1. \A o \in {c} \cup s[c] : o \in 0..(NHash + Len(rec)) /\ lp[o] \in Nat
      BY <1>2, OnOwnChain
    <3> QED
      BY <1>5, <3>1
  <2>3. m # 0
    BY <1>3, <1>5, <2>1
  <2> QED
    BY <1>3, <2>1, <2>2, <2>3 DEF Types, TypeOK
<1>11. Pointed(m, v)
  BY <1>1, <1>3, <1>6, PointerWritten
<1>12. /\ Len(rec') = Len(rec) /\ rec' \in Seq(Records) /\ table' \in [0..NHash -> Nat]
       /\ _db_readptr(m)' = v
       /\ \A o \in Items(Len(rec)) : Key(o)' = Key(o) /\ Datoff(o)' = Datoff(o)
       /\ \A o \in Items(Len(rec)) : o # m => rec'[o - NHash] = rec[o - NHash]
       /\ \A o \in 0..(NHash + Len(rec)) : o # m => _db_readptr(o)' = _db_readptr(o)
       /\ \A e \in 0..NHash : e # m => table'[e] = table[e]
  BY <1>6, <1>11 DEF Pointed
<1>61. w \in Nat
  BY <1>0, <1>3, <1>12
<1>62. Fields(d, m, db[p].next, db[p].idxoff, v, db[p].datoff, db[p].datlen, w, Lost)
  BY <1>0, <1>3, <1>61, DbFields
<1>7. l \in Pcs /\ Moves(p, l, call[p], d, r)
  <2>1. pc \in [Procs -> Pcs] /\ call \in [Procs -> CallRecord] /\ db \in [Procs -> DbRecord]
        /\ result = [q \in Procs |-> result[q]]
    BY <1>3 DEF Types, TypeOK, CallRecord
  <2>2. db' = [db EXCEPT ![p] = d]
    BY <1>0, <2>1 DEF DelChain
  <2>3. CASE call[p].op = "delete"
    BY <1>1, <2>1, <2>2, <2>3 DEF Moves, DelChain, Goto, Pcs, Answer
  <2>4. CASE call[p].op # "delete"
    BY <1>1, <2>1, <2>2, <2>4 DEF Moves, DelChain, Goto, Pcs
  <2> QED
    BY <2>3, <2>4
<1>71. \/ call[p].op = "delete" /\ l = "unlock" /\ kv'[k] = NONE
       \/ call[p].op \in {"replace", "store"} /\ l = "datseek" /\ kv' = kv /\ r = NONE
  BY <1>1, <1>3, <1>4, <1>6
<1> HIDE DEF d, l, r
<1>8. /\ pc'[p] = l /\ call'[p] = call[p] /\ db'[p] = d /\ result'[p] = r
      /\ Others(p) /\ History(p) /\ steady' = steady /\ Chain(p)' = Chain(p) /\ Mode(p)' = Mode(p)
      /\ ~InHand(p)' /\ ~Unlinking(p)' /\ ~Reserving(p)'
  <2>1. /\ pc'[p] = l /\ call'[p] = call[p] /\ db'[p] = d /\ result'[p] = r
        /\ Others(p) /\ History(p) /\ steady' = steady /\ Chain(p)' = Chain(p) /\ Mode(p)' = Mode(p)
    <3>1. UNCHANGED <<steady, seen, scanning, bounds>> /\ d \in DbRecord /\ l \in Pcs
      BY <1>1, <1>62, <1>7 DEF Fields
    <3>2. Moves(p, l, call[p], d, r)
      BY <1>7
    <3> QED
      BY <3>1, <3>2, ChangeMoves
  <2> QED
    BY <1>71, <2>1 DEF InHand, Unlinking, Reserving, Reusing, Cutting
<1>9. Takes(p) /\ \A j \in locks : j[2] # 0 => j \in locks'
  BY <1>1, <1>3, LockReleased DEF FREE_OFF
<1>14. Contents(s) /\ Agree(lp)
  BY <1>3 DEF Shape
<1>15. /\ \A j \in Keys : j # k => kv'[j] = kv[j]
       /\ kv' \in [Keys -> Values]
  <2>1. CASE call[p].op = "delete"
    BY <1>1, <1>6, <2>1 DEF Values
  <2>2. CASE call[p].op # "delete"
    BY <1>1, <1>6, <2>2
  <2> QED
    BY <2>1, <2>2
<1>16. FilesTyped
  BY <1>1, <1>6, <1>12, <1>15 DEF FilesTyped
<1>17. Leaves(p, 0, 0, s, rk, lp, s, rk, lp)
  <2>1. OwnPlace(p, 0, s)
    BY DEF OwnPlace
  <2>2. \A e \in 0..NHash : e # c => SameList(e, s, rk, lp, s, rk, lp) /\ table'[e] = table[e]
    <3>1. \A e \in 0..NHash : e # c => e # m
      <4>1. \A e \in 0..NHash : e \notin Items(Len(rec))
        BY <1>6 DEF Items
      <4> QED
        BY <1>3, <1>5, <4>1
    <3> QED
      BY <1>12, <3>1 DEF SameList
  <2>3. \A o \in Items(Len(rec)) :
          o # 0 => /\ Key(o)' = Key(o) /\ Datoff(o)' = Datoff(o)
                   /\ o \notin s[c] \cup s[0] => rec'[o - NHash] = rec[o - NHash]
    <3>1. c \notin Items(Len(rec))
      BY <1>3, <1>6 DEF Items
    <3> QED
      BY <1>5, <1>12, <3>1
  <2>4. \A o \in s[c] : Key(o) # k => o \in s[c] /\ Key(o)' = Key(o)
    BY <1>3, <1>12
  <2>5. /\ \A j \in 1..Len(dat) : j # 0 => dat'[j] = dat[j]
        /\ \A j \in Keys : j # k => kv'[j] = kv[j]
        /\ Len(dat') = Len(dat) /\ pc[p] \in Cutting
    BY <1>1, <1>15 DEF Cutting
  <2>6. Len(rec') = Len(rec) /\ Len(rec') \in Nat /\ Len(rec) <= Len(rec')
    BY <1>6, <1>12
  <2> QED
    BY <1>6, <2>1, <2>2, <2>3, <2>4, <2>5, <2>6 DEF Leaves
<1>18. OwnRight(p, 0, 0, s, lp, s, lp)
  <2>1. \A o \in Items(Len(rec)) : Datoff(o) # 0
    BY <1>3 DEF Shape, Space
  <2>2. \A o \in s[0] : Key(o)' = BLANK
    <3>1. \A o \in s[0] : o \in Items(Len(rec)) /\ Key(o) = BLANK
      BY <1>3, <1>6, <1>14, ListsApart DEF Contents
    <3> QED
      BY <1>12, <3>1
  <2>3. \A o \in s[c] : o \in s[c] /\ Key(o)' = Key(o) /\ Key(o)' # k /\ Datoff(o) # 0
    BY <1>3, <1>5, <1>12, <2>1
  <2>4. kv'[k] # NONE => Replacing(p)'
    BY <1>8, <1>71 DEF Replacing, Appending
  <2>6. \A z \in 0..(NHash + Len(rec')) :
          \/ lp[z] = _db_readptr(z)'
          \/ /\ z \in 0..(NHash + Len(rec)) /\ lp[z] = lp[z] /\ _db_readptr(z)' = _db_readptr(z)
             /\ z # db[p].ptroff
    <3> TAKE z \in 0..(NHash + Len(rec'))
    <3>1. CASE z = m
      BY <1>5, <1>12, <3>1
    <3>2. CASE z # m
      BY <1>0, <1>12, <3>2
    <3> QED
      BY <3>1, <3>2
  <2>8. \A o \in Items(Len(rec')) : Key(o)' = k => ~(o \in s[c] \/ o = 0 \/ o \notin Items(Len(rec)) \/ pc[p] = "link")
    BY <1>1, <1>5, <1>6, <1>12
  <2>10. \A o \in Items(Len(rec')) : ~(o = 0 \/ o \notin Items(Len(rec)))
    BY <1>6, <1>12
  <2> QED
    BY <1>2, <1>3, <1>8, <2>2, <2>3, <2>4, <2>6, <2>8, <2>10 DEF OwnRight
<1>19. Space(s)'
  <2>3. SpaceSame(p, s, s)
    BY <1>1, <1>2, <1>6, <1>8, <1>12 DEF SpaceSame
  <2> QED
    BY <1>3, <1>8, <2>3, SpaceStays DEF Shape
<1>20. InCallOf(p)'
  BY <1>1, <1>2, <1>3, <1>71, <1>8
     DEF InCallOf, OnChain, OnRecords, Chaining, Holding, Cutting, Adding, Reusing, Appending, Reading, Stores
<1>21. LocksOf(p)'
  <2>1. OnChain(p)' /\ ~OnRecords(p)'
    BY <1>71, <1>8 DEF OnChain, OnRecords, Reading, Chaining, Adding, Appending
  <2>2. <<p, c, Mode(p)>> \in locks
    BY <1>2, <1>3 DEF LocksOf
  <2>3. <<p, c, Mode(p)>> \in locks'
    BY <1>3, <1>9, <2>2
  <2> QED
    BY <1>8, <1>71, <2>1, <2>3 DEF LocksOf, Cutting
<1>22. Position(p, s, rk, lp)'
  <2>1. (\A o \in s[c] : Key(o)' # k) /\ w = table'[c] /\ (l = "datseek" => kv'[k] # NONE)
    BY <1>0, <1>3, <1>5, <1>12, <1>71
  <2>3. db'[p].link = w /\ call'[p].key = k /\ Chain(p)' = c
    BY <1>0, <1>8, <1>62 DEF Fields
  <2> QED
    BY <1>8, <1>71, <2>1, <2>3 DEF Position, Holding, Cutting, Adding, Reusing, Appending
<1>23. call[p].op \notin {"fetch", "nextrec"} /\ l # "init" /\ d \in DbRecord
  BY <1>4, <1>71, <1>62 DEF Fields
<1> HIDE DEF c, k
<1>24. Typed(s, rk, lp, Len(rec')) /\ Lists(lp, s, rk, Len(rec'))
  BY <1>3, <1>12 DEF Shape
<1> QED
  BY <1>2, <1>3, <1>7, <1>8, <1>9, <1>16, <1>17, <1>18, <1>19, <1>20, <1>21, <1>22, <1>23, <1>24, ChangeReady

\* _db_findfree takes a record of the right sizes off the free list.
LEMMA TakeFreeKeeps ==
    ASSUME NEW s, NEW rk, NEW lp, Ready(s, rk, lp), NEW p \in Procs, TakeFree(p)
    PROVE  \E s2, rk2, lp2 : Ready(s2, rk2, lp2)'
<1> DEFINE c == Chain(p)
           k == call[p].key
<1>0. PICK i, m, v, x : i = db[p].next /\ m = db[p].ptroff /\ v = Record(i).ptr /\ x = Datoff(i)
  OBVIOUS
<1>01. PICK s2, lp2 : Removed(0, m, i, v, s, lp, s2, lp2)
  BY DEF Removed
<1> DEFINE d == [db[p] EXCEPT !.idxoff = i, !.datoff = x]
<1>1. /\ pc[p] = "freewalk" /\ i # 0 /\ _db_writeptr(m, v) /\ Release(p, FREE_OFF)
      /\ UNCHANGED <<dat, kv, call, result>> /\ UNCHANGED <<steady, seen, scanning, bounds>>
  BY <1>0 DEF TakeFree, history, FREE_OFF
<1>2. OnChain(p) /\ ~Unlinking(p) /\ ~InHand(p) /\ ~Reserving(p)
  BY <1>1 DEF OnChain, Chaining, Holding, Adding, Unlinking, Cutting, InHand, Reusing, Reserving
<1>3. /\ Types /\ Protocol /\ Locking /\ table # <<>> /\ Shape(s, rk, lp)
      /\ c \in 0..NHash /\ c # 0 /\ c \in 1..NHash /\ c = Hash[k]
      /\ call[p] \in CallRecord /\ k \in Keys /\ db[p] \in DbRecord
      /\ InCallOf(p) /\ LocksOf(p) /\ steady[p] = {} /\ Position(p, s, rk, lp)
      /\ s[c] \subseteq Items(Len(rec))
  BY <1>2, OnOwnChain
<1>4. call[p].op \in {"insert", "store"} /\ result[p] = NONE
  BY <1>1, <1>3 DEF InCallOf
<1>5. /\ m \in {0} \cup s[0] /\ lp[m] = i
      /\ (\A o \in s[c] : Key(o) # k) /\ db[p].link = table[c]
  BY <1>0, <1>1, <1>3 DEF Position, Adding, FREE_OFF
<1>6. /\ Len(rec) \in Nat /\ Len(dat) \in Nat /\ rec \in Seq(Records) /\ dat \in Seq(Data \cup {BLANK})
      /\ table \in [0..NHash -> Nat] /\ kv \in [Keys -> Values] /\ NHash \in Nat
      /\ 0 \in 0..NHash /\ m \in 0..(NHash + Len(rec)) /\ 0 \notin Items(Len(rec))
  <2>1. NHash \in Nat /\ 0 \in 0..NHash /\ 0 \notin Items(Len(rec))
    BY HashAssumption DEF Items
  <2>2. m \in 0..(NHash + Len(rec))
    BY <1>3, <1>5, <2>1, ListsApart
  <2> QED
    BY <1>3, <2>1, <2>2 DEF Types, TypeOK
<1>51. i \in s[0]
  <2>1. List(lp, s[0], rk, 0)
    BY <1>3, <1>6, ListsAreLists DEF Shape
  <2> QED
    BY <1>1, <1>5, <2>1 DEF List
<1>52. /\ i \in Items(Len(rec)) /\ v \in Nat /\ x \in Nat /\ lp[i] = v /\ i \in Nat /\ Key(i) = BLANK
       /\ \A e \in 0..NHash : e # 0 => i \notin s[e]
  <2>1. i \in Items(Len(rec)) /\ \A e \in 0..NHash : e # 0 => i \notin s[e]
    BY <1>3, <1>6, <1>51, ListsApart
  <2>2. Record(i) \in Records /\ _db_readptr(i) = Record(i).ptr /\ i \in Nat /\ Datoff(i) \in Nat
    BY <1>3, <2>1, RecordTypes
  <2>3. lp[i] = _db_readptr(i)
    BY <1>51, FreePointers
  <2>4. Key(i) = BLANK
    BY <1>3, <1>51 DEF Shape, Contents
  <2> QED
    BY <1>0, <2>1, <2>2, <2>3, <2>4 DEF Records
<1>62. Fields(d, m, i, i, db[p].ptrval, x, db[p].datlen, db[p].link, db[p].pos)
  BY <1>0, <1>3, <1>52, DbFields
<1>7. "reusedat" \in Pcs /\ Moves(p, "reusedat", call[p], d, result[p])
  <2>1. pc \in [Procs -> Pcs] /\ call \in [Procs -> CallRecord] /\ db \in [Procs -> DbRecord]
        /\ result = [q \in Procs |-> result[q]]
    BY <1>3 DEF Types, TypeOK, CallRecord
  <2>2. db' = [db EXCEPT ![p] = d]
    BY <1>0, <2>1 DEF TakeFree, Datoff
  <2> QED
    BY <1>1, <2>1, <2>2 DEF Moves, TakeFree, Goto, Pcs
<1> HIDE DEF d
<1>8. /\ pc'[p] = "reusedat" /\ call'[p] = call[p] /\ db'[p] = d /\ result'[p] = result[p]
      /\ Others(p) /\ History(p) /\ steady' = steady /\ Chain(p)' = Chain(p) /\ Mode(p)' = Mode(p)
      /\ InHand(p)' /\ ~Unlinking(p)' /\ ~Reserving(p)'
  <2>1. /\ pc'[p] = "reusedat" /\ call'[p] = call[p] /\ db'[p] = d /\ result'[p] = result[p]
        /\ Others(p) /\ History(p) /\ steady' = steady /\ Chain(p)' = Chain(p) /\ Mode(p)' = Mode(p)
    <3>1. UNCHANGED <<steady, seen, scanning, bounds>> /\ d \in DbRecord /\ "reusedat" \in Pcs
      BY <1>1, <1>62, <1>7 DEF Fields
    <3>2. Moves(p, "reusedat", call[p], d, result[p])
      BY <1>7
    <3> QED
      BY <3>1, <3>2, ChangeMoves
  <2> QED
    BY <2>1 DEF InHand, Unlinking, Reserving, Reusing, Cutting
<1>9. Takes(p) /\ \A j \in locks : j[2] # 0 => j \in locks'
  BY <1>1, <1>3, LockReleased DEF FREE_OFF
<1>10. Typed(s2, rk, lp2, Len(rec)) /\ Lists(lp2, s2, rk, Len(rec)) /\ m # i
       /\ \A e \in 0..NHash : e # 0 => SameList(e, s, rk, lp, s2, rk, lp2)
  <2>1. Typed(s, rk, lp, Len(rec)) /\ Lists(lp, s, rk, Len(rec))
    BY <1>3 DEF Shape
  <2> QED
    BY <1>01, <1>5, <1>51, <1>52, <1>6, <2>1, ListRemove
<1>11. Pointed(m, v)
  BY <1>1, <1>3, <1>52, <1>6, PointerWritten
<1>12. /\ Len(rec') = Len(rec) /\ rec' \in Seq(Records) /\ table' \in [0..NHash -> Nat]
       /\ _db_readptr(m)' = v
       /\ \A o \in Items(Len(rec)) : Key(o)' = Key(o) /\ Datoff(o)' = Datoff(o)
       /\ \A o \in Items(Len(rec)) : o # m => rec'[o - NHash] = rec[o - NHash]
       /\ \A o \in 0..(NHash + Len(rec)) : o # m => _db_readptr(o)' = _db_readptr(o)
       /\ \A e \in 0..NHash : e # m => table'[e] = table[e]
  BY <1>6, <1>11 DEF Pointed
<1>13. /\ s2[0] = s[0] \ {i} /\ (\A e \in 0..NHash : e # 0 => s2[e] = s[e])
       /\ lp2[m] = v /\ lp2[i] = v /\ \A o \in 0..(NHash + Len(rec)) : o # m /\ o # i => lp2[o] = lp[o]
  <2>1. s \in [0..NHash -> SUBSET Items(Len(rec))] /\ lp \in [0..(NHash + Len(rec)) -> Nat]
    BY <1>3 DEF Shape, Typed
  <2>2. i \in 0..(NHash + Len(rec))
    BY <1>3, <1>52, RecordTypes
  <2>3. s2[0] = s[0] \ {i} /\ \A e \in 0..NHash : e # 0 => s2[e] = s[e]
    BY <1>01, <1>6, <2>1 DEF Removed
  <2> QED
    BY <1>01, <1>10, <1>52, <1>6, <2>1, <2>2, <2>3 DEF Removed
<1>14. Contents(s) /\ Agree(lp)
  BY <1>3 DEF Shape
<1>16. FilesTyped
  BY <1>1, <1>6, <1>12 DEF FilesTyped
<1>17. Leaves(p, 0, 0, s, rk, lp, s2, rk, lp2)
  <2>1. OwnPlace(p, 0, s)
    BY DEF OwnPlace
  <2>2. \A e \in 0..NHash : e # c /\ e # 0 => SameList(e, s, rk, lp, s2, rk, lp2) /\ table'[e] = table[e]
    <3>1. \A e \in 0..NHash : e # 0 => e # m
      <4>1. \A e \in 0..NHash : e \notin Items(Len(rec))
        BY <1>6 DEF Items
      <4>2. s[0] \subseteq Items(Len(rec))
        BY <1>3, <1>6, ListsApart
      <4> QED
        BY <1>5, <4>1, <4>2
    <3> QED
      BY <1>10, <1>12, <3>1
  <2>3. \A o \in Items(Len(rec)) :
          o # 0 => /\ Key(o)' = Key(o) /\ Datoff(o)' = Datoff(o)
                   /\ o \notin s[c] \cup s[0] => rec'[o - NHash] = rec[o - NHash]
    BY <1>5, <1>12
  <2>4. \A o \in s[c] : Key(o) # k => o \in s2[c] /\ Key(o)' = Key(o)
    BY <1>3, <1>12, <1>13
  <2>5. /\ \A j \in 1..Len(dat) : j # 0 => dat'[j] = dat[j]
        /\ \A j \in Keys : j # k => kv'[j] = kv[j]
        /\ Len(dat') = Len(dat)
    BY <1>1
  <2>6. Len(rec') = Len(rec) /\ Len(rec') \in Nat /\ Len(rec) <= Len(rec')
    BY <1>6, <1>12
  <2> QED
    BY <1>1, <1>6, <2>1, <2>2, <2>3, <2>4, <2>5, <2>6 DEF Leaves
<1>18. OwnRight(p, 0, 0, s, lp, s2, lp2)
  <2>1. \A o \in Items(Len(rec)) : Datoff(o) # 0
    BY <1>3 DEF Shape, Space
  <2>2. \A o \in s2[0] : Key(o)' = BLANK
    <3>1. \A o \in s[0] : o \in Items(Len(rec)) /\ Key(o) = BLANK
      BY <1>3, <1>6, <1>14, ListsApart DEF Contents
    <3> QED
      BY <1>12, <1>13, <3>1
  <2>3. \A o \in s2[c] : o \in s[c] /\ Key(o)' = Key(o) /\ Key(o)' # k /\ Datoff(o) # 0
    BY <1>3, <1>5, <1>12, <1>13, <2>1
  <2>4. kv'[k] # NONE => Replacing(p)'
    <3>1. kv[k] = NONE
      BY <1>1, NotStored DEF Replacing, Adding, Cutting, Appending
    <3> QED
      BY <1>1, <3>1
  <2>5. \A e \in 0..NHash : s2[e] \subseteq s[e] /\ i \notin s2[e]
    BY <1>13, <1>52
  <2>6. \A z \in 0..(NHash + Len(rec')) :
          \/ lp2[z] = _db_readptr(z)'
          \/ /\ z \in 0..(NHash + Len(rec)) /\ lp2[z] = lp[z] /\ _db_readptr(z)' = _db_readptr(z)
    <3> TAKE z \in 0..(NHash + Len(rec'))
    <3>1. CASE z = m
      BY <1>12, <1>13, <3>1
    <3>2. CASE z = i
      <4>1. _db_readptr(i)' = _db_readptr(i) /\ _db_readptr(i) = v
        <5>1. i \in 0..(NHash + Len(rec)) /\ _db_readptr(i) = Record(i).ptr
          BY <1>3, <1>52, RecordTypes
        <5> QED
          BY <1>0, <1>10, <1>12, <5>1
      <4> QED
        BY <1>13, <3>2, <4>1
    <3>3. CASE z # m /\ z # i
      BY <1>12, <1>13, <3>3
    <3> QED
      BY <3>1, <3>2, <3>3
  <2>7. db'[p].idxoff = i
    BY <1>8, <1>62 DEF Fields
  <2>8. \A o \in Items(Len(rec')) : Key(o)' = k => ~(o \in s[c] \/ o = 0 \/ o \notin Items(Len(rec)) \/ pc[p] = "link")
    BY <1>1, <1>5, <1>6, <1>12
  <2>9. /\ db'[p].idxoff \in Items(Len(rec')) /\ (\A e \in 0..NHash : db'[p].idxoff \notin s2[e])
        /\ db'[p].idxoff \in s[0]
    BY <1>12, <1>51, <1>52, <2>5, <2>7
  <2>10. \A o \in Items(Len(rec')) : ~(o = 0 \/ o \notin Items(Len(rec)))
    BY <1>6, <1>12
  <2> QED
    BY <1>2, <1>3, <1>6, <1>8, <2>2, <2>3, <2>4, <2>5, <2>6, <2>8, <2>9, <2>10 DEF OwnRight
<1>19. Space(s2)'
  <2>1. ASSUME NEW o \in Items(Len(rec)), NEW e \in 0..NHash, o \in s[e] PROVE o \in s2[e] \/ o = db'[p].idxoff
    BY <1>13, <1>8, <1>62, <2>1 DEF Fields
  <2>3. SpaceSame(p, s, s2)
    BY <1>1, <1>2, <1>6, <1>8, <1>12, <2>1 DEF SpaceSame
  <2> QED
    BY <1>3, <1>8, <2>3, SpaceStays DEF Shape
<1>20. InCallOf(p)'
  BY <1>1, <1>2, <1>3, <1>4, <1>8
     DEF InCallOf, OnChain, OnRecords, Chaining, Holding, Cutting, Adding, Reusing, Appending, Reading, Stores
<1>21. LocksOf(p)'
  <2>1. OnChain(p)' /\ ~OnRecords(p)'
    BY <1>8 DEF OnChain, OnRecords, Reading, Chaining, Adding, Appending, Reusing
  <2>2. <<p, c, Mode(p)>> \in locks
    BY <1>2, <1>3 DEF LocksOf
  <2>3. <<p, c, Mode(p)>> \in locks'
    BY <1>3, <1>9, <2>2
  <2> QED
    BY <1>8, <2>1, <2>3 DEF LocksOf, Cutting
<1>22. Position(p, s2, rk, lp2)'
  <2>1. (\A o \in s2[c] : Key(o)' # k) /\ db[p].link = table'[c] /\ Key(i)' = BLANK /\ Datoff(i)' = x
    <3>1. c # m
      <4>1. c \notin s[0]
        BY <1>3, <1>6, ListsApart
      <4> QED
        BY <1>3, <1>5, <4>1
    <3>2. table'[c] = table[c]
      BY <1>3, <1>12, <3>1
    <3>3. \A o \in s2[c] : Key(o)' # k
      BY <1>3, <1>5, <1>12, <1>13
    <3>4. Key(i)' = BLANK /\ Datoff(i)' = x
      BY <1>0, <1>12, <1>52
    <3> QED
      BY <1>5, <3>2, <3>3, <3>4
  <2>3. /\ db'[p].link = db[p].link /\ db'[p].idxoff = i /\ db'[p].datoff = x
        /\ call'[p].key = k /\ Chain(p)' = c
    BY <1>8, <1>62 DEF Fields
  <2> QED
    BY <1>8, <2>1, <2>3 DEF Position, Holding, Cutting, Adding, Reusing, Appending
<1>23. call[p].op \notin {"fetch", "nextrec"} /\ "reusedat" # "init" /\ d \in DbRecord
  BY <1>4, <1>62 DEF Fields
<1> HIDE DEF c, k
<1>24. Typed(s2, rk, lp2, Len(rec')) /\ Lists(lp2, s2, rk, Len(rec'))
  BY <1>10, <1>12
<1>25. Ready(s2, rk, lp2)'
  BY <1>2, <1>3, <1>7, <1>8, <1>9, <1>16, <1>17, <1>18, <1>19, <1>20, <1>21, <1>22, <1>23, <1>24, ChangeReady
<1> QED
  BY <1>25

\* db_store links the record to the front of its chain.
LEMMA LinkKeeps ==
    ASSUME NEW s, NEW rk, NEW lp, Ready(s, rk, lp), NEW p \in Procs, Link(p)
    PROVE  \E s2, rk2, lp2 : Ready(s2, rk2, lp2)'
<1> DEFINE c == Chain(p)
           k == call[p].key
           v == call[p].data
           d == [db[p] EXCEPT !.pos = Lost]
           r == <<call[p].op, k, "ok">>
<1>0. PICK i, y : i = db[p].idxoff /\ y = c
  OBVIOUS
<1>01. PICK s2, rk2, lp2 : Inserted(y, i, s, rk, lp, s2, rk2, lp2)
  BY DEF Inserted
<1>1. /\ pc[p] = "link" /\ _db_writeptr(y, i) /\ kv' = [kv EXCEPT ![k] = v]
      /\ UNCHANGED <<dat, locks, call>> /\ UNCHANGED <<steady, seen, scanning, bounds>>
  BY <1>0 DEF Link, history
<1>2. OnChain(p) /\ ~Unlinking(p) /\ InHand(p) /\ ~Reserving(p)
  BY <1>1 DEF OnChain, Chaining, Holding, Adding, Appending, Unlinking, Cutting, InHand, Reusing, Reserving
<1>3. /\ Types /\ Protocol /\ Locking /\ table # <<>> /\ Shape(s, rk, lp)
      /\ c \in 0..NHash /\ c # 0 /\ c \in 1..NHash /\ c = Hash[k]
      /\ call[p] \in CallRecord /\ k \in Keys /\ db[p] \in DbRecord
      /\ InCallOf(p) /\ LocksOf(p) /\ steady[p] = {} /\ Position(p, s, rk, lp)
      /\ s[c] \subseteq Items(Len(rec))
  BY <1>2, OnOwnChain
<1>4. call[p].op \in Stores /\ result[p] = NONE /\ v \in Data /\ v # NONE
  BY <1>1, <1>3, NoneAssumption DEF InCallOf, Appending
<1>5. /\ i \in Items(Len(rec)) /\ (\A e \in 0..NHash : i \notin s[e])
      /\ Record(i).ptr = table[c] /\ Key(i) = k /\ dat[Datoff(i)] = v
      /\ (\A o \in s[c] : Key(o) # k)
  <2>1. i \in Items(Len(rec)) /\ \A e \in 0..NHash : i \notin s[e]
    BY <1>0, <1>2, <1>3 DEF Shape, Hands
  <2> QED
    BY <1>0, <1>1, <1>3, <2>1 DEF Position, Adding, Appending
<1>6. /\ Len(rec) \in Nat /\ Len(dat) \in Nat /\ rec \in Seq(Records) /\ dat \in Seq(Data \cup {BLANK})
      /\ table \in [0..NHash -> Nat] /\ kv \in [Keys -> Values] /\ NHash \in Nat /\ i \in Nat
      /\ 0 \in 0..NHash /\ y \in 0..NHash /\ y \in 0..(NHash + Len(rec)) /\ y # 0 /\ y = c
      /\ i > NHash /\ i \in 0..(NHash + Len(rec)) /\ i # y /\ 0 \notin Items(Len(rec))
  <2>1. NHash \in Nat /\ 0 \in 0..NHash /\ 0 \notin Items(Len(rec))
    BY HashAssumption DEF Items
  <2>2. i \in Nat /\ i > NHash /\ i \in 0..(NHash + Len(rec)) /\ Len(rec) \in Nat
    BY <1>3, <1>5, RecordTypes
  <2>3. y \in 0..NHash /\ y \in 0..(NHash + Len(rec)) /\ y # 0 /\ i # y
    BY <1>0, <1>3, <2>1, <2>2
  <2> QED
    BY <1>0, <1>3, <2>1, <2>2, <2>3 DEF Types, TypeOK
<1>62. Fields(d, db[p].ptroff, db[p].next, i, db[p].ptrval, db[p].datoff, db[p].datlen, db[p].link, Lost)
  BY <1>0, <1>3, DbFields
<1>7. "unlock" \in Pcs /\ Moves(p, "unlock", call[p], d, r)
  <2>1. pc \in [Procs -> Pcs] /\ call \in [Procs -> CallRecord] /\ db \in [Procs -> DbRecord]
        /\ result = [q \in Procs |-> result[q]]
    BY <1>3 DEF Types, TypeOK, CallRecord
  <2>2. db' = [db EXCEPT ![p] = d]
    BY <2>1 DEF Link
  <2> QED
    BY <1>1, <2>1, <2>2 DEF Moves, Link, Goto, Pcs, Answer
<1> HIDE DEF d, r
<1>8. /\ pc'[p] = "unlock" /\ call'[p] = call[p] /\ db'[p] = d /\ result'[p] = r
      /\ Others(p) /\ History(p) /\ steady' = steady /\ Chain(p)' = Chain(p) /\ Mode(p)' = Mode(p)
      /\ ~InHand(p)' /\ ~Unlinking(p)' /\ ~Reserving(p)'
  <2>1. /\ pc'[p] = "unlock" /\ call'[p] = call[p] /\ db'[p] = d /\ result'[p] = r
        /\ Others(p) /\ History(p) /\ steady' = steady /\ Chain(p)' = Chain(p) /\ Mode(p)' = Mode(p)
    <3>1. UNCHANGED <<steady, seen, scanning, bounds>> /\ d \in DbRecord /\ "unlock" \in Pcs
      BY <1>1, <1>62, <1>7 DEF Fields
    <3>2. Moves(p, "unlock", call[p], d, r)
      BY <1>7
    <3> QED
      BY <3>1, <3>2, ChangeMoves
  <2> QED
    BY <2>1 DEF InHand, Unlinking, Reserving, Reusing, Cutting
<1>9. Takes(p) /\ locks' = locks
  BY <1>1, <1>3, LocksStay
<1>10. Typed(s2, rk2, lp2, Len(rec)) /\ Lists(lp2, s2, rk2, Len(rec))
       /\ \A e \in 0..NHash : e # y => SameList(e, s, rk, lp, s2, rk2, lp2)
  <2>1. Typed(s, rk, lp, Len(rec)) /\ Lists(lp, s, rk, Len(rec))
    BY <1>3 DEF Shape
  <2> QED
    BY <1>01, <1>5, <1>6, <2>1, ListInsert
<1>11. Pointed(y, i)
  BY <1>1, <1>3, <1>6, PointerWritten
<1>12. /\ Len(rec') = Len(rec) /\ rec' = rec /\ table' \in [0..NHash -> Nat] /\ table'[y] = i
       /\ _db_readptr(y)' = i
       /\ \A o \in Items(Len(rec)) : Key(o)' = Key(o) /\ Datoff(o)' = Datoff(o)
       /\ \A o \in 0..(NHash + Len(rec)) : o # y => _db_readptr(o)' = _db_readptr(o)
       /\ \A e \in 0..NHash : e # y => table'[e] = table[e]
  BY <1>6, <1>11 DEF Pointed
<1>13. /\ s2[y] = s[y] \cup {i} /\ (\A e \in 0..NHash : e # y => s2[e] = s[e])
       /\ lp2[y] = i /\ lp2[i] = lp[y] /\ \A o \in 0..(NHash + Len(rec)) : o # y /\ o # i => lp2[o] = lp[o]
  <2>1. s \in [0..NHash -> SUBSET Items(Len(rec))] /\ lp \in [0..(NHash + Len(rec)) -> Nat]
    BY <1>3 DEF Shape, Typed
  <2>2. s2[y] = s[y] \cup {i} /\ \A e \in 0..NHash : e # y => s2[e] = s[e]
    BY <1>01, <1>6, <2>1 DEF Inserted
  <2> QED
    BY <1>01, <1>6, <2>1, <2>2 DEF Inserted
<1>14. Contents(s) /\ Agree(lp)
  BY <1>3 DEF Shape
<1>15. lp[y] = _db_readptr(i)
  <2>1. \A m \in {c} \cup s[c] : lp[m] = _db_readptr(m)
    BY <1>2, OwnPointers
  <2>2. lp[y] = _db_readptr(y)
    BY <1>6, <2>1
  <2>3. _db_readptr(y) = table[y] /\ _db_readptr(i) = Record(i).ptr
    BY <1>3, <1>5, <1>6, RecordTypes
  <2> QED
    BY <1>5, <1>6, <2>2, <2>3
<1>16. FilesTyped /\ kv'[k] = v /\ \A j \in Keys : j # k => kv'[j] = kv[j]
  <2>1. kv' \in [Keys -> Values] /\ kv'[k] = v /\ \A j \in Keys : j # k => kv'[j] = kv[j]
    BY <1>1, <1>3, <1>4, <1>6 DEF Values
  <2> QED
    BY <1>1, <1>6, <1>12, <2>1 DEF FilesTyped
<1>17. Leaves(p, 0, 0, s, rk, lp, s2, rk2, lp2)
  <2>1. OwnPlace(p, 0, s)
    BY DEF OwnPlace
  <2>2. /\ \A e \in 0..NHash : e # c /\ e # 0 => SameList(e, s, rk, lp, s2, rk2, lp2) /\ table'[e] = table[e]
        /\ SameList(0, s, rk, lp, s2, rk2, lp2) /\ table'[0] = table[0]
    BY <1>6, <1>10, <1>12
  <2>3. \A o \in Items(Len(rec)) :
          o # 0 => /\ Key(o)' = Key(o) /\ Datoff(o)' = Datoff(o)
                   /\ o \notin s[c] \cup s[0] => rec'[o - NHash] = rec[o - NHash]
    BY <1>12
  <2>4. \A o \in s[c] : Key(o) # k => o \in s2[c] /\ Key(o)' = Key(o)
    BY <1>3, <1>6, <1>12, <1>13
  <2>5. /\ \A j \in 1..Len(dat) : j # 0 => dat'[j] = dat[j]
        /\ \A j \in Keys : j # k => kv'[j] = kv[j]
        /\ Len(dat') = Len(dat)
    BY <1>1, <1>16
  <2>6. Len(rec') = Len(rec) /\ Len(rec') \in Nat /\ Len(rec) <= Len(rec')
    BY <1>6, <1>12
  <2> QED
    BY <1>6, <2>1, <2>2, <2>3, <2>4, <2>5, <2>6 DEF Leaves
<1>18. OwnRight(p, 0, 0, s, lp, s2, lp2)
  <2>1. \A o \in Items(Len(rec)) : Datoff(o) # 0
    BY <1>3 DEF Shape, Space
  <2>2. \A o \in s2[0] : Key(o)' = BLANK
    <3>1. \A o \in s[0] : o \in Items(Len(rec)) /\ Key(o) = BLANK
      BY <1>3, <1>6, <1>14, ListsApart DEF Contents
    <3> QED
      BY <1>6, <1>12, <1>13, <3>1
  <2>3. \A o \in s2[c] : /\ Key(o)' # k => o \in s[c] /\ Key(o)' = Key(o) /\ Datoff(o) # 0
                         /\ Key(o)' = k => o = i
    <3>1. \A o \in s[c] : Key(o)' = Key(o) /\ Key(o)' # k /\ Datoff(o) # 0
      BY <1>3, <1>5, <1>12, <2>1
    <3>2. \A o \in s2[c] : o \in s[c] \/ o = i
      BY <1>6, <1>13
    <3>3. Key(i)' = k
      BY <1>5, <1>12
    <3> QED
      BY <3>1, <3>2, <3>3
  <2>31. kv'[k] # NONE /\ dat'[Datoff(i)'] = kv'[k] /\ i \in s2[c] /\ Key(i)' = k
    <3>1. Datoff(i)' = Datoff(i) /\ Key(i)' = k
      BY <1>5, <1>12
    <3> QED
      BY <1>1, <1>4, <1>5, <1>6, <1>13, <1>16, <3>1
  <2>4. \A e \in 0..NHash : \A o \in s2[e] : o \in s[e] \/ o = db[p].idxoff
    BY <1>0, <1>13
  <2>6. \A z \in 0..(NHash + Len(rec')) :
          \/ lp2[z] = _db_readptr(z)'
          \/ /\ z \in 0..(NHash + Len(rec)) /\ lp2[z] = lp[z] /\ _db_readptr(z)' = _db_readptr(z)
    <3> TAKE z \in 0..(NHash + Len(rec'))
    <3>0. z \in 0..(NHash + Len(rec))
      BY <1>12
    <3>1. CASE z = y
      BY <1>12, <1>13, <3>1
    <3>2. CASE z = i
      <4>2. _db_readptr(i)' = _db_readptr(i)
        BY <1>6, <1>12
      <4> QED
        BY <1>13, <1>15, <3>2, <4>2
    <3>3. CASE z # y /\ z # i
      BY <1>12, <1>13, <3>0, <3>3
    <3> QED
      BY <3>1, <3>2, <3>3
  <2>8. \A o \in Items(Len(rec')) : Key(o)' = k /\ (o \in s[c] \/ o = 0 \/ o \notin Items(Len(rec)) \/ o = db[p].idxoff) => o \in s2[c]
    BY <1>0, <1>5, <1>6, <1>12, <1>13, <2>31
  <2>10. \A o \in Items(Len(rec')) : ~(o = 0 \/ o \notin Items(Len(rec)))
    BY <1>6, <1>12
  <2> QED
    BY <1>2, <1>3, <1>8, <2>2, <2>3, <2>31, <2>4, <2>6, <2>8, <2>10 DEF OwnRight
<1>19. Space(s2)'
  <2>1. ASSUME NEW o \in Items(Len(rec)), NEW e \in 0..NHash, o \in s[e] PROVE o \in s2[e]
    BY <1>13, <2>1
  <2>2. i \in s2[y]
    BY <1>13
  <2>3. SpaceSame(p, s, s2)
    BY <1>0, <1>1, <1>2, <1>6, <1>8, <1>12, <2>1, <2>2 DEF SpaceSame
  <2> QED
    BY <1>3, <1>8, <2>3, SpaceStays DEF Shape
<1>20. InCallOf(p)'
  BY <1>1, <1>2, <1>3, <1>4, <1>8
     DEF InCallOf, OnChain, OnRecords, Chaining, Holding, Cutting, Adding, Reusing, Appending, Reading, Stores
<1>21. LocksOf(p)'
  <2>1. OnChain(p)' /\ ~OnRecords(p)'
    BY <1>4, <1>8 DEF OnChain, OnRecords, Reading, Chaining, Cutting, Stores
  <2> QED
    BY <1>1, <1>2, <1>3, <1>8, <1>9, <2>1 DEF LocksOf, Cutting
<1>22. Position(p, s2, rk2, lp2)'
  BY <1>8 DEF Position, Holding, Cutting, Adding, Reusing, Appending
<1>23. call[p].op \notin {"fetch", "nextrec"} /\ "unlock" # "init" /\ d \in DbRecord
  BY <1>4, <1>62 DEF Stores, Fields
<1> HIDE DEF c, k, v
<1>24. Typed(s2, rk2, lp2, Len(rec')) /\ Lists(lp2, s2, rk2, Len(rec'))
  BY <1>10, <1>12
<1>25. Ready(s2, rk2, lp2)'
  BY <1>2, <1>3, <1>7, <1>8, <1>9, <1>16, <1>17, <1>18, <1>19, <1>20, <1>21, <1>22, <1>23, <1>24, ChangeReady
<1> QED
  BY <1>25

\* db_store writes the data of a free record.
LEMMA ReuseDatKeeps ==
    ASSUME NEW s, NEW rk, NEW lp, Ready(s, rk, lp), NEW p \in Procs, ReuseDat(p)
    PROVE  Ready(s, rk, lp)'
<1> DEFINE c == Chain(p)
           k == call[p].key
           v == call[p].data
           x == db[p].datoff
<1>0. PICK i : i = db[p].idxoff
  OBVIOUS
<1>1. /\ pc[p] = "reusedat" /\ dat' = [dat EXCEPT ![x] = v]
      /\ UNCHANGED <<table, rec, kv, locks, call, db, result>> /\ UNCHANGED <<steady, seen, scanning, bounds>>
  BY DEF ReuseDat, history
<1>2. OnChain(p) /\ ~Unlinking(p) /\ InHand(p) /\ ~Reserving(p)
  BY <1>1 DEF OnChain, Chaining, Adding, Unlinking, Cutting, InHand, Reusing, Reserving
<1>3. /\ Types /\ Protocol /\ Locking /\ table # <<>> /\ Shape(s, rk, lp)
      /\ c \in 0..NHash /\ c # 0 /\ c \in 1..NHash /\ c = Hash[k]
      /\ call[p] \in CallRecord /\ k \in Keys /\ db[p] \in DbRecord
      /\ InCallOf(p) /\ LocksOf(p) /\ steady[p] = {} /\ Position(p, s, rk, lp)
      /\ s[c] \subseteq Items(Len(rec))
  BY <1>2, OnOwnChain
<1>4. call[p].op \in {"insert", "store"} /\ v \in Data /\ result[p] = NONE
  BY <1>1, <1>3 DEF InCallOf, Reusing, Stores
<1>5. /\ i \in Items(Len(rec)) /\ (\A e \in 0..NHash : i \notin s[e]) /\ x = Datoff(i)
      /\ (\A o \in s[c] : Key(o) # k)
  <2>1. i \in Items(Len(rec)) /\ \A e \in 0..NHash : i \notin s[e]
    BY <1>0, <1>2, <1>3 DEF Shape, Hands
  <2> QED
    BY <1>0, <1>1, <1>3, <2>1 DEF Position, Adding, Reusing
<1>6. x \in 1..Len(dat) /\ \A o \in Items(Len(rec)) : Datoff(o) = x => o = i
  BY <1>3, <1>5 DEF Shape, Space
<1>7. "reuseidx" \in Pcs /\ Moves(p, "reuseidx", call[p], db[p], result[p])
  <2>1. pc \in [Procs -> Pcs] /\ call \in [Procs -> CallRecord] /\ db \in [Procs -> DbRecord]
        /\ result = [q \in Procs |-> result[q]]
    BY <1>3 DEF Types, TypeOK, CallRecord
  <2> QED
    BY <1>1, <2>1 DEF Moves, ReuseDat, Goto, Pcs
<1>8. /\ pc'[p] = "reuseidx" /\ call'[p] = call[p] /\ db'[p] = db[p] /\ result'[p] = result[p]
      /\ Others(p) /\ History(p) /\ steady' = steady /\ Chain(p)' = Chain(p) /\ Mode(p)' = Mode(p)
      /\ InHand(p)' /\ ~Unlinking(p)' /\ ~Reserving(p)'
  <2>1. /\ pc'[p] = "reuseidx" /\ call'[p] = call[p] /\ db'[p] = db[p] /\ result'[p] = result[p]
        /\ Others(p) /\ History(p) /\ steady' = steady /\ Chain(p)' = Chain(p) /\ Mode(p)' = Mode(p)
    <3>1. UNCHANGED <<steady, seen, scanning, bounds>> /\ db[p] \in DbRecord /\ "reuseidx" \in Pcs
      BY <1>1, <1>3, <1>7
    <3>2. Moves(p, "reuseidx", call[p], db[p], result[p])
      BY <1>7
    <3> QED
      BY <3>1, <3>2, ChangeMoves
  <2> QED
    BY <2>1 DEF InHand, Unlinking, Reserving, Reusing, Cutting
<1>9. Takes(p) /\ locks' = locks
  BY <1>1, <1>3, LocksStay
<1>10. /\ Len(rec) \in Nat /\ Len(dat) \in Nat /\ rec \in Seq(Records) /\ dat \in Seq(Data \cup {BLANK})
       /\ table \in [0..NHash -> Nat] /\ kv \in [Keys -> Values] /\ 0 \in 0..NHash
  BY <1>3, HashAssumption DEF Types, TypeOK
<1>11. FilesTyped /\ Len(dat') = Len(dat)
  <2>1. dat' \in Seq(Data \cup {BLANK}) /\ Len(dat') = Len(dat)
    BY <1>1, <1>4, <1>6, <1>10
  <2> QED
    BY <1>1, <1>10, <2>1 DEF FilesTyped
<1>12. dat'[x] = v /\ \A j \in 1..Len(dat) : j # x => dat'[j] = dat[j]
  BY <1>1, <1>6, <1>10
<1>13. \A o : Key(o)' = Key(o) /\ Datoff(o)' = Datoff(o) /\ _db_readptr(o)' = _db_readptr(o)
  BY <1>1 DEF Key, Datoff, Record, _db_readptr
<1>14. Leaves(p, 0, x, s, rk, lp, s, rk, lp)
  <2>1. OwnPlace(p, x, s)
    BY <1>0, <1>2, <1>5 DEF OwnPlace
  <2>2. 0 \notin Items(Len(rec))
    BY HashAssumption DEF Items
  <2>3. \A e \in 0..NHash : SameList(e, s, rk, lp, s, rk, lp) /\ table'[e] = table[e]
    BY <1>1 DEF SameList
  <2> QED
    BY <1>1, <1>3, <1>10, <1>11, <1>12, <1>13, <2>1, <2>2, <2>3 DEF Leaves
<1>15. OwnRight(p, 0, x, s, lp, s, lp)
  <2>1. Contents(s) /\ Agree(lp) /\ Typed(s, rk, lp, Len(rec))
    BY <1>3 DEF Shape
  <2>2. \A o \in s[0] : Key(o)' = BLANK
    BY <1>13, <2>1 DEF Contents
  <2>3. \A o \in s[c] : Key(o)' # k /\ Key(o)' = Key(o) /\ Datoff(o) # x
    BY <1>3, <1>5, <1>6, <1>13
  <2>4. kv'[k] # NONE => Replacing(p)'
    <3>1. kv[k] = NONE
      BY <1>1, NotStored DEF Replacing, Adding, Reusing, Cutting, Appending
    <3> QED
      BY <1>1, <3>1
  <2>5. 0 \notin Items(Len(rec)) /\ rec' = rec
    BY <1>1, HashAssumption DEF Items
  <2>6. \A m \in 0..(NHash + Len(rec')) :
          /\ m \in 0..(NHash + Len(rec)) /\ lp[m] = lp[m] /\ _db_readptr(m)' = _db_readptr(m)
    BY <1>13, <2>5
  <2> QED
    BY <1>0, <1>1, <1>2, <1>5, <1>8, <2>2, <2>3, <2>4, <2>5, <2>6 DEF OwnRight
<1>16. Typed(s, rk, lp, Len(rec')) /\ Lists(lp, s, rk, Len(rec'))
  BY <1>1, <1>3 DEF Shape
<1>17. Space(s)'
  <2>1. SpaceSame(p, s, s)
    BY <1>1, <1>2, <1>8, <1>11, <1>13 DEF SpaceSame
  <2> QED
    BY <1>3, <1>8, <2>1, SpaceStays DEF Shape
<1>18. InCallOf(p)'
  BY <1>1, <1>2, <1>3, <1>4, <1>8
     DEF InCallOf, OnChain, OnRecords, Chaining, Holding, Cutting, Adding, Reusing, Appending, Reading, Stores
<1>19. LocksOf(p)'
  <2>1. OnChain(p)' /\ ~OnRecords(p)'
    BY <1>4, <1>8 DEF OnChain, OnRecords, Reading, Chaining, Adding, Reusing
  <2> QED
    BY <1>2, <1>3, <1>8, <1>9, <2>1 DEF LocksOf, Cutting
<1>20. Position(p, s, rk, lp)'
  <2>1. rec' = rec /\ table' = table
    BY <1>1
  <2> QED
    BY <1>1, <1>3, <1>8, <1>12, <2>1 DEF Position, Holding, Cutting, Adding, Reusing, Appending, Key, Datoff, Record
<1>21. call[p].op \notin {"fetch", "nextrec"} /\ "reuseidx" # "init"
  BY <1>4
<1> HIDE DEF c, k, v, x
<1> QED
  BY <1>2, <1>3, <1>7, <1>8, <1>9, <1>11, <1>14, <1>15, <1>16, <1>17, <1>18, <1>19, <1>20, <1>21, ChangeReady

\* db_store writes the index record of a free record: its key, and the pointer
\* that makes it the front of the chain.
LEMMA ReuseIdxKeeps ==
    ASSUME NEW s, NEW rk, NEW lp, Ready(s, rk, lp), NEW p \in Procs, ReuseIdx(p)
    PROVE  \E s2, rk2, lp2 : Ready(s2, rk2, lp2)'
<1> DEFINE c == Chain(p)
           k == call[p].key
<1>0. PICK i, v, n, key : i = db[p].idxoff /\ v = db[p].link /\ n = i - NHash /\ key = k
  OBVIOUS
<1>01. PICK lp2 : lp2 = [lp EXCEPT ![i] = v]
  OBVIOUS
<1>1. /\ pc[p] = "reuseidx" /\ rec' = [rec EXCEPT ![n].key = key, ![n].ptr = v]
      /\ UNCHANGED <<table, dat, kv, locks, call, db, result>> /\ UNCHANGED <<steady, seen, scanning, bounds>>
  BY <1>0 DEF ReuseIdx, history
<1>2. OnChain(p) /\ ~Unlinking(p) /\ InHand(p) /\ ~Reserving(p)
  BY <1>1 DEF OnChain, Chaining, Adding, Unlinking, Cutting, InHand, Reusing, Reserving
<1>3. /\ Types /\ Protocol /\ Locking /\ table # <<>> /\ Shape(s, rk, lp)
      /\ c \in 0..NHash /\ c # 0 /\ c \in 1..NHash /\ c = Hash[k]
      /\ call[p] \in CallRecord /\ k \in Keys /\ db[p] \in DbRecord
      /\ InCallOf(p) /\ LocksOf(p) /\ steady[p] = {} /\ Position(p, s, rk, lp)
      /\ s[c] \subseteq Items(Len(rec))
  BY <1>2, OnOwnChain
<1>4. call[p].op \in {"insert", "store"} /\ call[p].data \in Data /\ result[p] = NONE
  BY <1>1, <1>3 DEF InCallOf, Reusing, Stores
<1>5. /\ i \in Items(Len(rec)) /\ (\A e \in 0..NHash : i \notin s[e])
      /\ (\A o \in s[c] : Key(o) # k) /\ v = table[c] /\ db[p].datoff = Datoff(i)
      /\ dat[Datoff(i)] = call[p].data
  <2>1. i \in Items(Len(rec)) /\ \A e \in 0..NHash : i \notin s[e]
    BY <1>0, <1>2, <1>3 DEF Shape, Hands
  <2>2. db[p].datoff = Datoff(i) /\ dat[db[p].datoff] = call[p].data /\ v = table[c]
    BY <1>0, <1>1, <1>3 DEF Position, Adding, Reusing
  <2>3. \A o \in s[c] : Key(o) # k
    BY <1>1, <1>3 DEF Position, Adding, Reusing
  <2> QED
    BY <2>1, <2>2, <2>3
<1>6. /\ Len(rec) \in Nat /\ Len(dat) \in Nat /\ rec \in Seq(Records) /\ dat \in Seq(Data \cup {BLANK})
      /\ table \in [0..NHash -> Nat] /\ kv \in [Keys -> Values] /\ NHash \in Nat /\ v \in Nat /\ i \in Nat
      /\ 0 \in 0..NHash /\ 0 \notin Items(Len(rec)) /\ i \in 0..(NHash + Len(rec)) /\ i > NHash
  <2>1. NHash \in Nat /\ 0 \in 0..NHash /\ 0 \notin Items(Len(rec))
    BY HashAssumption DEF Items
  <2>2. i \in Nat /\ i > NHash /\ i \in 0..(NHash + Len(rec))
    BY <1>3, <1>5, RecordTypes
  <2>3. v \in Nat
    BY <1>0, <1>3 DEF DbRecord
  <2> QED
    BY <1>3, <2>1, <2>2, <2>3 DEF Types, TypeOK
<1>7. "link" \in Pcs /\ Moves(p, "link", call[p], db[p], result[p])
  <2>1. pc \in [Procs -> Pcs] /\ call \in [Procs -> CallRecord] /\ db \in [Procs -> DbRecord]
        /\ result = [q \in Procs |-> result[q]]
    BY <1>3 DEF Types, TypeOK, CallRecord
  <2> QED
    BY <1>1, <2>1 DEF Moves, ReuseIdx, Goto, Pcs
<1>8. /\ pc'[p] = "link" /\ call'[p] = call[p] /\ db'[p] = db[p] /\ result'[p] = result[p]
      /\ Others(p) /\ History(p) /\ steady' = steady /\ Chain(p)' = Chain(p) /\ Mode(p)' = Mode(p)
      /\ InHand(p)' /\ ~Unlinking(p)' /\ ~Reserving(p)'
  <2>1. /\ pc'[p] = "link" /\ call'[p] = call[p] /\ db'[p] = db[p] /\ result'[p] = result[p]
        /\ Others(p) /\ History(p) /\ steady' = steady /\ Chain(p)' = Chain(p) /\ Mode(p)' = Mode(p)
    <3>1. UNCHANGED <<steady, seen, scanning, bounds>> /\ db[p] \in DbRecord /\ "link" \in Pcs
      BY <1>1, <1>3, <1>7
    <3>2. Moves(p, "link", call[p], db[p], result[p])
      BY <1>7
    <3> QED
      BY <3>1, <3>2, ChangeMoves
  <2> QED
    BY <2>1 DEF InHand, Unlinking, Reserving, Reusing, Cutting
<1>9. Takes(p) /\ locks' = locks
  BY <1>1, <1>3, LocksStay
<1>11. Written(i, key, v)
  <2>1. key \in Keys \cup {BLANK}
    BY <1>0, <1>3
  <2> QED
    BY <1>0, <1>1, <1>3, <1>5, <1>6, <2>1, RecordWritten
<1>12. /\ \A o \in Items(Len(rec)) : Datoff(o)' = Datoff(o)
       /\ \A o \in Items(Len(rec)) : o # i => /\ rec'[o - NHash] = rec[o - NHash]
                                              /\ Key(o)' = Key(o) /\ _db_readptr(o)' = _db_readptr(o)
       /\ Key(i)' = k /\ _db_readptr(i)' = v /\ rec'[n].ptr = v
       /\ \A o \in 0..NHash : _db_readptr(o)' = _db_readptr(o)
       /\ Len(rec') = Len(rec) /\ rec' \in Seq(Records)
  BY <1>0, <1>11 DEF Written
<1>13. lp2 \in [0..(NHash + Len(rec)) -> Nat] /\ lp2[i] = v /\ \A o \in 0..(NHash + Len(rec)) : o # i => lp2[o] = lp[o]
  <2>1. lp \in [0..(NHash + Len(rec)) -> Nat]
    BY <1>3 DEF Shape, Typed
  <2> QED
    BY <1>01, <1>6, <2>1
<1>10. Typed(s, rk, lp2, Len(rec)) /\ Lists(lp2, s, rk, Len(rec)) /\ \A e \in 0..NHash : SameList(e, s, rk, lp, s, rk, lp2)
  <2>1. Typed(s, rk, lp, Len(rec)) /\ Lists(lp, s, rk, Len(rec)) /\ rk \in [0..(NHash + Len(rec)) -> Nat]
    BY <1>3 DEF Shape, Typed
  <2>2. ASSUME NEW e \in 0..NHash PROVE SameList(e, s, rk, lp, s, rk, lp2)
    <3>1. \A o \in {e} \cup s[e] : o \in 0..(NHash + Len(rec)) /\ o # i
      <4>1. \A o \in {e} \cup s[e] : o \in 0..(NHash + Len(rec))
        BY <1>3, ListsApart
      <4>2. e # i
        BY <1>6
      <4> QED
        BY <1>5, <4>1, <4>2
    <3> QED
      BY <1>13, <3>1 DEF SameList
  <2>3. Len(rec) <= Len(rec)
    BY <1>6
  <2> QED
    BY <1>6, <1>13, <2>1, <2>2, <2>3, ListsLonger
<1>14. Contents(s) /\ Agree(lp)
  BY <1>3 DEF Shape
<1>16. FilesTyped
  BY <1>1, <1>6, <1>12 DEF FilesTyped
<1>17. Leaves(p, i, 0, s, rk, lp, s, rk, lp2)
  <2>1. OwnPlace(p, 0, s)
    BY DEF OwnPlace
  <2>2. \A e \in 0..NHash : SameList(e, s, rk, lp, s, rk, lp2) /\ table'[e] = table[e]
    BY <1>1, <1>10
  <2>3. \A o \in Items(Len(rec)) :
          o # i => /\ Key(o)' = Key(o) /\ Datoff(o)' = Datoff(o)
                   /\ o \notin s[c] \cup s[0] => rec'[o - NHash] = rec[o - NHash]
    BY <1>12
  <2>4. \A o \in s[c] : Key(o) # k => o \in s[c] /\ Key(o)' = Key(o)
    BY <1>3, <1>5, <1>12
  <2>5. /\ \A j \in 1..Len(dat) : j # 0 => dat'[j] = dat[j]
        /\ \A j \in Keys : j # k => kv'[j] = kv[j]
        /\ Len(dat') = Len(dat)
    BY <1>1
  <2>6. Len(rec') = Len(rec) /\ Len(rec') \in Nat /\ Len(rec) <= Len(rec')
    BY <1>6, <1>12
  <2>7. pc[p] = "reuseidx" /\ i = db[p].idxoff
    BY <1>0, <1>1
  <2> QED
    BY <1>6, <2>1, <2>2, <2>3, <2>4, <2>5, <2>6, <2>7 DEF Leaves
<1>18. OwnRight(p, i, 0, s, lp, s, lp2)
  <2>1. \A o \in Items(Len(rec)) : Datoff(o) # 0
    BY <1>3 DEF Shape, Space
  <2>2. \A o \in s[0] : Key(o)' = BLANK
    <3>1. \A o \in s[0] : o \in Items(Len(rec)) /\ Key(o) = BLANK /\ o # i
      BY <1>3, <1>5, <1>6, <1>14, ListsApart DEF Contents
    <3> QED
      BY <1>12, <3>1
  <2>3. \A o \in s[c] : o \in s[c] /\ Key(o)' = Key(o) /\ Key(o)' # k /\ Datoff(o) # 0
    BY <1>3, <1>5, <1>12, <2>1
  <2>4. kv'[k] # NONE => Replacing(p)'
    <3>1. kv[k] = NONE
      BY <1>1, NotStored DEF Replacing, Adding, Reusing, Cutting, Appending
    <3> QED
      BY <1>1, <3>1
  <2>6. \A z \in 0..(NHash + Len(rec')) :
          \/ lp2[z] = _db_readptr(z)'
          \/ /\ z \in 0..(NHash + Len(rec)) /\ lp2[z] = lp[z] /\ _db_readptr(z)' = _db_readptr(z)
    <3> TAKE z \in 0..(NHash + Len(rec'))
    <3>1. CASE z = i
      BY <1>12, <1>13, <3>1
    <3>2. CASE z # i
      <4>1. z \in 0..NHash \/ z \in Items(Len(rec))
        BY <1>6, <1>12 DEF Items
      <4> QED
        BY <1>12, <1>13, <3>2, <4>1
    <3> QED
      BY <3>1, <3>2
  <2>7. db'[p].idxoff = i
    BY <1>0, <1>8
  <2>8. \A o \in Items(Len(rec')) : Key(o)' = k /\ (o \in s[c] \/ o = i \/ o \notin Items(Len(rec)) \/ pc[p] = "link") =>
           o = i /\ call[p].op \in Stores /\ call[p].data = dat'[Datoff(o)']
    <3>1. Datoff(i)' = Datoff(i)
      BY <1>5, <1>12
    <3>2. call[p].op \in Stores /\ call[p].data = dat'[Datoff(i)']
      BY <1>1, <1>4, <1>5, <3>1 DEF Stores
    <3>3. \A o \in Items(Len(rec')) : Key(o)' = k /\ (o \in s[c] \/ o = i \/ o \notin Items(Len(rec)) \/ pc[p] = "link") => o = i
      BY <1>1, <1>12, <2>3
    <3> QED
      BY <3>2, <3>3
  <2>9. /\ db'[p].idxoff \in Items(Len(rec')) /\ (\A e \in 0..NHash : db'[p].idxoff \notin s[e])
        /\ db'[p].idxoff = db[p].idxoff
    BY <1>0, <1>5, <1>12, <2>7
  <2>10. \A o \in Items(Len(rec')) : o = i \/ o \notin Items(Len(rec)) => Key(o)' \in {BLANK, k}
    BY <1>12
  <2> QED
    BY <1>2, <1>3, <1>8, <2>2, <2>3, <2>4, <2>6, <2>7, <2>8, <2>9, <2>10 DEF OwnRight
<1>19. Space(s)'
  <2>1. i = db[p].idxoff /\ i = db'[p].idxoff
    BY <1>0, <1>8
  <2>2. SpaceSame(p, s, s)
    BY <1>1, <1>2, <1>8, <1>12, <2>1 DEF SpaceSame
  <2> QED
    BY <1>3, <1>8, <2>2, SpaceStays DEF Shape
<1>20. InCallOf(p)'
  BY <1>1, <1>2, <1>3, <1>4, <1>8
     DEF InCallOf, OnChain, OnRecords, Chaining, Holding, Cutting, Adding, Reusing, Appending, Reading, Stores
<1>21. LocksOf(p)'
  <2>1. OnChain(p)' /\ ~OnRecords(p)'
    BY <1>4, <1>8 DEF OnChain, OnRecords, Reading, Chaining, Adding, Appending
  <2> QED
    BY <1>1, <1>2, <1>3, <1>8, <1>9, <2>1 DEF LocksOf, Cutting
<1>22. Position(p, s, rk, lp2)'
  <2>1. /\ (\A o \in s[c] : Key(o)' # k) /\ Key(i)' = k /\ Record(i).ptr' = v /\ dat'[Datoff(i)'] = call[p].data
    <3>1. Record(i).ptr' = v
      BY <1>0, <1>12 DEF Record
    <3>2. \A o \in s[c] : Key(o)' # k
      BY <1>3, <1>5, <1>12
    <3>3. Datoff(i)' = Datoff(i)
      BY <1>5, <1>12
    <3> QED
      BY <1>1, <1>5, <1>12, <3>1, <3>2, <3>3
  <2>2. v = table'[c] /\ call[p].op # "replace"
    BY <1>1, <1>4, <1>5
  <2>3. db'[p].idxoff = i /\ db'[p].link = v /\ call'[p].key = k /\ call'[p] = call[p] /\ Chain(p)' = c
    BY <1>0, <1>8
  <2> QED
    BY <1>8, <2>1, <2>2, <2>3 DEF Position, Holding, Cutting, Adding, Reusing, Appending
<1>23. call[p].op \notin {"fetch", "nextrec"} /\ "link" # "init"
  BY <1>4
<1> HIDE DEF c, k
<1>24. Typed(s, rk, lp2, Len(rec')) /\ Lists(lp2, s, rk, Len(rec'))
  BY <1>10, <1>12
<1>25. Ready(s, rk, lp2)'
  BY <1>2, <1>3, <1>7, <1>8, <1>9, <1>16, <1>17, <1>18, <1>19, <1>20, <1>21, <1>22, <1>23, <1>24, ChangeReady
<1> QED
  BY <1>25

\* db_store appends its data to the data file (_db_writedat).
LEMMA DatWriteKeeps ==
    ASSUME NEW s, NEW rk, NEW lp, Ready(s, rk, lp), NEW p \in Procs, _db_writedat(p), pc[p] = "datwrite"
    PROVE  Ready(s, rk, lp)'
<1> DEFINE c == Chain(p)
           k == call[p].key
           v == call[p].data
           x == db[p].datoff
<1>1. /\ pc[p] = "datwrite" /\ dat' = Put(dat, x, v) /\ Release(p, DatFile)
      /\ UNCHANGED <<table, rec, kv, call, db, result>> /\ UNCHANGED <<steady, seen, scanning, bounds>>
  BY DEF _db_writedat, history
<1>2. OnChain(p) /\ ~Unlinking(p) /\ ~InHand(p) /\ ~Reserving(p)
  BY <1>1 DEF OnChain, Chaining, Adding, Appending, Unlinking, Cutting, InHand, Reusing, Reserving
<1>3. /\ Types /\ Protocol /\ Locking /\ table # <<>> /\ Shape(s, rk, lp)
      /\ c \in 0..NHash /\ c # 0 /\ c \in 1..NHash /\ c = Hash[k]
      /\ call[p] \in CallRecord /\ k \in Keys /\ db[p] \in DbRecord
      /\ InCallOf(p) /\ LocksOf(p) /\ steady[p] = {} /\ Position(p, s, rk, lp)
      /\ s[c] \subseteq Items(Len(rec))
  BY <1>2, OnOwnChain
<1>4. call[p].op \in Stores /\ v \in Data /\ result[p] = NONE
  BY <1>1, <1>3 DEF InCallOf, Appending
<1>5. x = Len(dat) + 1 /\ (\A o \in s[c] : Key(o) # k)
  BY <1>1, <1>3 DEF Position, Adding, Appending
<1>7. "idxseek" \in Pcs /\ Moves(p, "idxseek", call[p], db[p], result[p])
  <2>1. pc \in [Procs -> Pcs] /\ call \in [Procs -> CallRecord] /\ db \in [Procs -> DbRecord]
        /\ result = [q \in Procs |-> result[q]]
    BY <1>3 DEF Types, TypeOK, CallRecord
  <2> QED
    BY <1>1, <2>1 DEF Moves, _db_writedat, Goto, Pcs
<1>8. /\ pc'[p] = "idxseek" /\ call'[p] = call[p] /\ db'[p] = db[p] /\ result'[p] = result[p]
      /\ Others(p) /\ History(p) /\ steady' = steady /\ Chain(p)' = Chain(p) /\ Mode(p)' = Mode(p)
      /\ ~InHand(p)' /\ ~Unlinking(p)' /\ Reserving(p)'
  <2>1. /\ pc'[p] = "idxseek" /\ call'[p] = call[p] /\ db'[p] = db[p] /\ result'[p] = result[p]
        /\ Others(p) /\ History(p) /\ steady' = steady /\ Chain(p)' = Chain(p) /\ Mode(p)' = Mode(p)
    <3>1. UNCHANGED <<steady, seen, scanning, bounds>> /\ db[p] \in DbRecord /\ "idxseek" \in Pcs
      BY <1>1, <1>3, <1>7
    <3>2. Moves(p, "idxseek", call[p], db[p], result[p])
      BY <1>7
    <3> QED
      BY <3>1, <3>2, ChangeMoves
  <2> QED
    BY <2>1 DEF InHand, Unlinking, Reserving, Reusing, Cutting
<1>9. Takes(p) /\ \A l \in locks : l[2] # DatFile => l \in locks'
  BY <1>1, <1>3, LockReleased
<1>10. /\ Len(rec) \in Nat /\ Len(dat) \in Nat /\ rec \in Seq(Records) /\ dat \in Seq(Data \cup {BLANK})
       /\ table \in [0..NHash -> Nat] /\ kv \in [Keys -> Values] /\ 0 \in 0..NHash
  BY <1>3, HashAssumption DEF Types, TypeOK
<1>11. /\ dat' \in Seq(Data \cup {BLANK}) /\ Len(dat') = Len(dat) + 1 /\ dat'[x] = v
       /\ \A j \in 1..Len(dat) : dat'[j] = dat[j]
  <2>1. dat' = Append(dat, v)
    BY <1>1, <1>5, <1>10 DEF Put
  <2> QED
    BY <1>4, <1>5, <1>10, <2>1
<1>12. FilesTyped
  BY <1>1, <1>10, <1>11 DEF FilesTyped
<1>13. \A o : Key(o)' = Key(o) /\ Datoff(o)' = Datoff(o) /\ _db_readptr(o)' = _db_readptr(o)
  BY <1>1 DEF Key, Datoff, Record, _db_readptr
<1>14. Leaves(p, 0, 0, s, rk, lp, s, rk, lp)
  <2>1. OwnPlace(p, 0, s)
    BY DEF OwnPlace
  <2>2. 0 \notin Items(Len(rec))
    BY HashAssumption DEF Items
  <2>3. \A e \in 0..NHash : SameList(e, s, rk, lp, s, rk, lp) /\ table'[e] = table[e]
    BY <1>1 DEF SameList
  <2> QED
    BY <1>1, <1>3, <1>10, <1>11, <1>13, <2>1, <2>2, <2>3 DEF Leaves
<1>15. OwnRight(p, 0, 0, s, lp, s, lp)
  <2>1. Contents(s) /\ Agree(lp) /\ Typed(s, rk, lp, Len(rec))
    BY <1>3 DEF Shape
  <2>2. \A o \in s[0] : Key(o)' = BLANK
    BY <1>13, <2>1 DEF Contents
  <2>21. \A o \in Items(Len(rec)) : Datoff(o) # 0
    BY <1>3 DEF Shape, Space
  <2>3. \A o \in s[c] : Key(o)' # k /\ Key(o)' = Key(o) /\ Datoff(o) # 0
    BY <1>3, <1>5, <1>13, <2>21
  <2>4. kv'[k] # NONE => Replacing(p)'
    <3>1. kv[k] # NONE => Replacing(p)
      BY <1>1, NotStored DEF Adding, Appending
    <3> QED
      BY <1>1, <1>8, <3>1 DEF Replacing, Appending
  <2>5. 0 \notin Items(Len(rec)) /\ rec' = rec
    BY <1>1, HashAssumption DEF Items
  <2>6. \A m \in 0..(NHash + Len(rec')) :
          /\ m \in 0..(NHash + Len(rec)) /\ lp[m] = lp[m] /\ _db_readptr(m)' = _db_readptr(m)
    BY <1>13, <2>5
  <2> QED
    BY <1>1, <1>2, <1>8, <2>2, <2>3, <2>4, <2>5, <2>6 DEF OwnRight
<1>16. Typed(s, rk, lp, Len(rec')) /\ Lists(lp, s, rk, Len(rec'))
  BY <1>1, <1>3 DEF Shape
<1>17. Space(s)'
  <2>1. /\ Len(rec') = Len(rec) /\ Len(dat') = Len(dat) + 1 /\ x = Len(dat) + 1 /\ Len(dat) \in Nat
        /\ \A o \in Items(Len(rec)) : Datoff(o)' = Datoff(o) /\ Datoff(o) \in 1..Len(dat)
        /\ Reserving(p)' /\ db'[p].datoff = x
        /\ \A q \in Procs : InHand(q)' = InHand(q) /\ db'[q].idxoff = db[q].idxoff
    <3>1. Len(rec') = Len(rec) /\ \A q \in Procs : InHand(q)' = InHand(q) /\ db'[q].idxoff = db[q].idxoff
      BY <1>1, <1>2, <1>8 DEF Others, InHand
    <3> QED
      BY <1>3, <1>5, <1>8, <1>10, <1>11, <1>13, <3>1 DEF Shape, Space
  <2>2. ASSUME NEW q \in Procs, q # p, Reserving(q)'
        PROVE  Reserving(q) /\ db'[q].datoff = db[q].datoff /\ db[q].datoff \in 1..Len(dat)
    <3>1. Reserving(q) /\ db'[q].datoff = db[q].datoff
      BY <1>8, <2>2 DEF Others, Reserving
    <3> QED
      BY <1>3, <3>1 DEF Shape, Space
  <2>3. Space(s)
    BY <1>3 DEF Shape
  <2>4. /\ 1..Len(dat) \subseteq 1..Len(dat') /\ x \in 1..Len(dat') /\ x \notin 1..Len(dat)
        /\ \A j \in 1..Len(dat') : j = x \/ j \in 1..Len(dat)
    BY <2>1
  <2> HIDE DEF x
  <2>5. \A o \in Items(Len(rec')) : Datoff(o)' \in 1..Len(dat')
    BY <2>1, <2>4
  <2>6. \A o, o2 \in Items(Len(rec')) : Datoff(o)' = Datoff(o2)' => o = o2
    BY <2>1, <2>3 DEF Space
  <2>7. ASSUME NEW q \in Procs, Reserving(q)'
        PROVE  /\ db'[q].datoff \in 1..Len(dat')
               /\ \A o \in Items(Len(rec')) : Datoff(o)' # db'[q].datoff
               /\ \A r \in Procs : Reserving(r)' /\ db'[r].datoff = db'[q].datoff => r = q
    <3>1. CASE q = p
      BY <2>1, <2>2, <2>4, <3>1
    <3>2. CASE q # p
      <4>1. Reserving(q) /\ db'[q].datoff = db[q].datoff /\ db[q].datoff \in 1..Len(dat)
        BY <2>2, <2>7, <3>2
      <4>2. \A o \in Items(Len(rec)) : Datoff(o) # db[q].datoff
        BY <2>3, <4>1 DEF Space
      <4>3. ASSUME NEW r \in Procs, Reserving(r)', db'[r].datoff = db'[q].datoff PROVE r = q
        <5>1. r # p
          BY <2>1, <2>4, <4>1, <4>3
        <5>2. Reserving(r) /\ db[r].datoff = db[q].datoff
          BY <2>2, <4>1, <4>3, <5>1
        <5> QED
          BY <2>3, <4>1, <5>2 DEF Space
      <4> QED
        BY <2>1, <2>4, <4>1, <4>2, <4>3
    <3> QED
      BY <3>1, <3>2
  <2>8. ASSUME NoDead'
        PROVE  /\ \A o \in Items(Len(rec')) : \/ \E e \in 0..NHash : o \in s[e]
                                              \/ \E q \in Procs : InHand(q)' /\ db'[q].idxoff = o
               /\ \A j \in 1..Len(dat') : \/ \E o \in Items(Len(rec')) : Datoff(o)' = j
                                          \/ \E q \in Procs : Reserving(q)' /\ db'[q].datoff = j
    <3>1. NoDead
      BY <1>1, <1>8, <2>8 DEF NoDead, Others
    <3>2. \A o \in Items(Len(rec')) : \/ \E e \in 0..NHash : o \in s[e]
                                      \/ \E q \in Procs : InHand(q)' /\ db'[q].idxoff = o
      BY <2>1, <2>3, <3>1 DEF Space
    <3>3. ASSUME NEW j \in 1..Len(dat)
          PROVE  \/ \E o \in Items(Len(rec')) : Datoff(o)' = j
                 \/ \E q \in Procs : Reserving(q)' /\ db'[q].datoff = j
      <4>1. CASE \E o \in Items(Len(rec)) : Datoff(o) = j
        BY <2>1, <4>1
      <4>2. CASE \E q \in Procs : Reserving(q) /\ db[q].datoff = j
        <5>1. PICK q \in Procs : Reserving(q) /\ db[q].datoff = j
          BY <4>2
        <5>2. q # p
          BY <1>2, <5>1
        <5>3. Reserving(q)' /\ db'[q].datoff = j
          BY <1>8, <5>1, <5>2 DEF Others, Reserving
        <5> QED
          BY <5>3
      <4> QED
        BY <2>3, <3>1, <4>1, <4>2 DEF Space
    <3> QED
      BY <2>1, <2>4, <3>2, <3>3
  <2> QED
    BY <2>5, <2>6, <2>7, <2>8 DEF Space
<1>18. InCallOf(p)'
  BY <1>1, <1>2, <1>3, <1>4, <1>8
     DEF InCallOf, OnChain, OnRecords, Chaining, Holding, Cutting, Adding, Reusing, Appending, Reading, Stores
<1>19. LocksOf(p)'
  <2>1. OnChain(p)' /\ ~OnRecords(p)'
    BY <1>4, <1>8 DEF OnChain, OnRecords, Reading, Chaining, Adding, Appending
  <2>2. <<p, Chain(p), Mode(p)>> \in locks'
    <3>1. c # DatFile
      BY <1>3, HashAssumption DEF DatFile
    <3> QED
      BY <1>2, <1>3, <1>9, <3>1 DEF LocksOf
  <2> QED
    BY <1>8, <2>1, <2>2 DEF LocksOf, Cutting
<1>20. Position(p, s, rk, lp)'
  <2>1. rec' = rec /\ table' = table /\ kv' = kv
    BY <1>1
  <2> QED
    BY <1>1, <1>3, <1>8, <1>11, <2>1 DEF Position, Holding, Cutting, Adding, Reusing, Appending, Key, Datoff, Record
<1>21. call[p].op \notin {"fetch", "nextrec"} /\ "idxseek" # "init" /\ db[p] \in DbRecord
  BY <1>3, <1>4 DEF Stores
<1> HIDE DEF c, k, v, x
<1> QED
  BY <1>2, <1>3, <1>7, <1>8, <1>9, <1>12, <1>14, <1>15, <1>16, <1>17, <1>18, <1>19, <1>20, <1>21, ChangeReady

Appended(i, key, v, x) ==
    /\ Len(rec') = Len(rec) + 1 /\ rec' \in Seq(Records)
    /\ Items(Len(rec')) = Items(Len(rec)) \cup {i} /\ i \notin Items(Len(rec)) /\ i \in Items(Len(rec'))
    /\ Key(i)' = key /\ Datoff(i)' = x /\ Record(i).ptr' = v /\ _db_readptr(i)' = v
    /\ \A o \in Items(Len(rec)) : /\ rec'[o - NHash] = rec[o - NHash]
                                  /\ Key(o)' = Key(o) /\ Datoff(o)' = Datoff(o) /\ _db_readptr(o)' = _db_readptr(o)
    /\ \A o \in 0..NHash : _db_readptr(o)' = _db_readptr(o)

\* A record written at the end of the index file leaves the others as they are
\* (_db_writeidx).
LEMMA RecordAppended ==
    ASSUME Types, table # <<>>, NEW i, i = NHash + Len(rec) + 1, NEW R \in Records,
           rec' = Append(rec, R), table' = table
    PROVE  Appended(i, R.key, R.ptr, R.datoff)
<1>1. NHash \in Nat /\ Len(rec) \in Nat /\ rec \in Seq(Records)
  BY HashAssumption DEF Types, TypeOK
<1>2. /\ Len(rec') = Len(rec) + 1 /\ rec' \in Seq(Records) /\ rec'[Len(rec) + 1] = R
      /\ \A j \in 1..Len(rec) : rec'[j] = rec[j]
  BY <1>1
<1>3. /\ Items(Len(rec')) = Items(Len(rec)) \cup {i} /\ i \notin Items(Len(rec)) /\ i \in Items(Len(rec'))
      /\ i - NHash = Len(rec) + 1 /\ ~(i <= NHash)
  BY <1>1, <1>2 DEF Items
<1>4. Record(i)' = R
  BY <1>2, <1>3 DEF Record
<1>5. Key(i)' = R.key /\ Datoff(i)' = R.datoff /\ Record(i).ptr' = R.ptr /\ _db_readptr(i)' = R.ptr
  BY <1>3, <1>4 DEF Key, Datoff, _db_readptr
<1>6. ASSUME NEW o \in Items(Len(rec))
      PROVE  /\ rec'[o - NHash] = rec[o - NHash]
             /\ Key(o)' = Key(o) /\ Datoff(o)' = Datoff(o) /\ _db_readptr(o)' = _db_readptr(o)
  <2>1. o - NHash \in 1..Len(rec)
    BY RecordTypes
  <2>2. rec'[o - NHash] = rec[o - NHash]
    BY <1>2, <2>1
  <2> QED
    BY <2>2 DEF Key, Datoff, Record, _db_readptr
<1>7. ASSUME NEW o \in 0..NHash PROVE _db_readptr(o)' = _db_readptr(o)
  <2>1. o <= NHash
    BY <1>1
  <2> QED
    BY <2>1 DEF _db_readptr
<1> QED
  BY <1>2, <1>3, <1>5, <1>6, <1>7 DEF Appended

\* db_store appends its index record (_db_writeidx).
LEMMA IdxWriteKeeps ==
    ASSUME NEW s, NEW rk, NEW lp, Ready(s, rk, lp), NEW p \in Procs, _db_writeidx(p), pc[p] = "idxwrite"
    PROVE  \E s2, rk2, lp2 : Ready(s2, rk2, lp2)'
<1> DEFINE c == Chain(p)
           k == call[p].key
<1>0. PICK i, v, x, key, R, N : /\ i = db[p].idxoff /\ v = db[p].link /\ x = db[p].datoff /\ key = k
                                /\ R = NewRecord(p) /\ N = NHash + Len(rec) + 1
  OBVIOUS
<1>01. PICK rk2, lp2 : /\ rk2 = [m \in 0..N |-> IF m = i THEN 0 ELSE rk[m]]
                       /\ lp2 = [m \in 0..N |-> IF m = i THEN v ELSE lp[m]]
  OBVIOUS
<1>1. /\ pc[p] = "idxwrite" /\ rec' = Put(rec, i - NHash, R) /\ Release(p, IdxEnd)
      /\ UNCHANGED <<table, dat, kv, call, db, result>> /\ UNCHANGED <<steady, seen, scanning, bounds>>
  BY <1>0 DEF _db_writeidx, history
<1>2. OnChain(p) /\ ~Unlinking(p) /\ ~InHand(p) /\ Reserving(p)
  BY <1>1 DEF OnChain, Chaining, Adding, Appending, Unlinking, Cutting, InHand, Reusing, Reserving
<1>3. /\ Types /\ Protocol /\ Locking /\ table # <<>> /\ Shape(s, rk, lp)
      /\ c \in 0..NHash /\ c # 0 /\ c \in 1..NHash /\ c = Hash[k]
      /\ call[p] \in CallRecord /\ k \in Keys /\ db[p] \in DbRecord
      /\ InCallOf(p) /\ LocksOf(p) /\ steady[p] = {} /\ Position(p, s, rk, lp)
      /\ s[c] \subseteq Items(Len(rec))
  BY <1>2, OnOwnChain
<1>4. call[p].op \in Stores /\ call[p].data \in Data /\ result[p] = NONE
  BY <1>1, <1>3 DEF InCallOf, Appending
<1>5. /\ i = NHash + Len(rec) + 1 /\ i = N /\ (\A o \in s[c] : Key(o) # k) /\ v = table[c]
      /\ dat[x] = call[p].data /\ (call[p].op = "replace" => kv[k] # NONE)
  BY <1>0, <1>1, <1>3 DEF Position, Adding, Appending
<1>6. /\ Len(rec) \in Nat /\ Len(dat) \in Nat /\ rec \in Seq(Records) /\ dat \in Seq(Data \cup {BLANK})
      /\ table \in [0..NHash -> Nat] /\ kv \in [Keys -> Values] /\ NHash \in Nat /\ v \in Nat /\ i \in Nat
      /\ 0 \in 0..NHash /\ 0 \notin Items(Len(rec)) /\ i > NHash /\ x \in Nat
  <2>1. NHash \in Nat /\ 0 \in 0..NHash /\ 0 \notin Items(Len(rec))
    BY HashAssumption DEF Items
  <2>2. v \in Nat /\ x \in Nat
    BY <1>0, <1>3 DEF DbRecord
  <2>3. Len(rec) \in Nat
    BY <1>3 DEF Types, TypeOK
  <2> QED
    BY <1>3, <1>5, <2>1, <2>2, <2>3 DEF Types, TypeOK
<1>7. "link" \in Pcs /\ Moves(p, "link", call[p], db[p], result[p])
  <2>1. pc \in [Procs -> Pcs] /\ call \in [Procs -> CallRecord] /\ db \in [Procs -> DbRecord]
        /\ result = [q \in Procs |-> result[q]]
    BY <1>3 DEF Types, TypeOK, CallRecord
  <2> QED
    BY <1>1, <2>1 DEF Moves, _db_writeidx, Goto, Pcs
<1>8. /\ pc'[p] = "link" /\ call'[p] = call[p] /\ db'[p] = db[p] /\ result'[p] = result[p]
      /\ Others(p) /\ History(p) /\ steady' = steady /\ Chain(p)' = Chain(p) /\ Mode(p)' = Mode(p)
      /\ InHand(p)' /\ ~Unlinking(p)' /\ ~Reserving(p)'
  <2>1. /\ pc'[p] = "link" /\ call'[p] = call[p] /\ db'[p] = db[p] /\ result'[p] = result[p]
        /\ Others(p) /\ History(p) /\ steady' = steady /\ Chain(p)' = Chain(p) /\ Mode(p)' = Mode(p)
    <3>1. UNCHANGED <<steady, seen, scanning, bounds>> /\ db[p] \in DbRecord /\ "link" \in Pcs
      BY <1>1, <1>3, <1>7
    <3>2. Moves(p, "link", call[p], db[p], result[p])
      BY <1>7
    <3> QED
      BY <3>1, <3>2, ChangeMoves
  <2> QED
    BY <2>1 DEF InHand, Unlinking, Reserving, Reusing, Cutting
<1>9. Takes(p) /\ \A l \in locks : l[2] # IdxEnd => l \in locks'
  BY <1>1, <1>3, LockReleased
<1>11. Appended(i, key, v, x)
  <2>1. R \in Records /\ R.key = key /\ R.ptr = v /\ R.datoff = x
    <3>1. KeyLen[k] \in Nat /\ DatLen[call[p].data] \in Nat
      BY <1>3, <1>4, LengthAssumption
    <3> QED
      BY <1>0, <1>3, <1>6, <3>1 DEF NewRecord, Records, Size
  <2>2. rec' = Append(rec, R)
    <3>1. i - NHash = Len(rec) + 1
      BY <1>5, <1>6
    <3>2. rec' = Put(rec, Len(rec) + 1, R)
      BY <1>1, <3>1
    <3> QED
      BY <1>6, <3>2 DEF Put
  <2>3. Appended(i, R.key, R.ptr, R.datoff)
    BY <1>1, <1>3, <1>5, <2>1, <2>2, RecordAppended
  <2> QED
    BY <2>1, <2>3
<1>12. /\ \A o \in Items(Len(rec)) : /\ rec'[o - NHash] = rec[o - NHash] /\ _db_readptr(o)' = _db_readptr(o)
                                     /\ Key(o)' = Key(o) /\ Datoff(o)' = Datoff(o)
       /\ Key(i)' = k /\ Datoff(i)' = x /\ _db_readptr(i)' = v /\ Record(i).ptr' = v
       /\ \A o \in 0..NHash : _db_readptr(o)' = _db_readptr(o)
       /\ Len(rec') = Len(rec) + 1 /\ rec' \in Seq(Records)
       /\ Items(Len(rec')) = Items(Len(rec)) \cup {i} /\ i \notin Items(Len(rec)) /\ i \in Items(Len(rec'))
  BY <1>0, <1>11 DEF Appended
<1>13. /\ lp2 \in [0..(NHash + Len(rec')) -> Nat] /\ lp2[i] = v /\ \A o \in 0..(NHash + Len(rec)) : o # i => lp2[o] = lp[o]
       /\ rk2 \in [0..(NHash + Len(rec')) -> Nat] /\ \A o \in 0..(NHash + Len(rec)) : o # i => rk2[o] = rk[o]
       /\ i \notin 0..(NHash + Len(rec)) /\ \A o \in 0..(NHash + Len(rec')) : o = i \/ o \in 0..(NHash + Len(rec))
  <2>1. lp \in [0..(NHash + Len(rec)) -> Nat] /\ rk \in [0..(NHash + Len(rec)) -> Nat]
    BY <1>3 DEF Shape, Typed
  <2>2. /\ N = NHash + Len(rec') /\ i \in 0..N /\ i \notin 0..(NHash + Len(rec))
        /\ \A o \in 0..N : o = i \/ o \in 0..(NHash + Len(rec))
        /\ 0..(NHash + Len(rec)) \subseteq 0..N
    BY <1>5, <1>6, <1>12
  <2>3. lp2 \in [0..N -> Nat] /\ rk2 \in [0..N -> Nat]
    BY <1>01, <1>6, <2>1, <2>2
  <2>4. lp2[i] = v
    BY <1>01, <2>2
  <2>5. \A o \in 0..(NHash + Len(rec)) : lp2[o] = lp[o] /\ rk2[o] = rk[o]
    BY <1>01, <2>2
  <2> QED
    BY <2>2, <2>3, <2>4, <2>5
<1>10. Typed(s, rk2, lp2, Len(rec')) /\ Lists(lp2, s, rk2, Len(rec')) /\ \A e \in 0..NHash : SameList(e, s, rk, lp, s, rk2, lp2)
  <2>1. Typed(s, rk, lp, Len(rec)) /\ Lists(lp, s, rk, Len(rec))
    BY <1>3 DEF Shape
  <2>2. ASSUME NEW e \in 0..NHash PROVE SameList(e, s, rk, lp, s, rk2, lp2)
    <3>1. \A o \in {e} \cup s[e] : o \in 0..(NHash + Len(rec)) /\ o # i
      BY <1>3, <1>13, ListsApart
    <3> QED
      BY <1>13, <3>1 DEF SameList
  <2>3. Len(rec) <= Len(rec') /\ Len(rec') \in Nat
    BY <1>6, <1>12
  <2> QED
    BY <1>6, <1>13, <2>1, <2>2, <2>3, ListsLonger
<1>14. Contents(s) /\ Agree(lp)
  BY <1>3 DEF Shape
<1>16. FilesTyped
  BY <1>1, <1>6, <1>12 DEF FilesTyped
<1>17. Leaves(p, 0, 0, s, rk, lp, s, rk2, lp2)
  <2>1. OwnPlace(p, 0, s)
    BY DEF OwnPlace
  <2>2. \A e \in 0..NHash : SameList(e, s, rk, lp, s, rk2, lp2) /\ table'[e] = table[e]
    BY <1>1, <1>10
  <2>3. \A o \in Items(Len(rec)) :
          o # 0 => /\ Key(o)' = Key(o) /\ Datoff(o)' = Datoff(o)
                   /\ o \notin s[c] \cup s[0] => rec'[o - NHash] = rec[o - NHash]
    BY <1>12
  <2>4. \A o \in s[c] : Key(o) # k => o \in s[c] /\ Key(o)' = Key(o)
    BY <1>3, <1>12
  <2>5. /\ \A j \in 1..Len(dat) : j # 0 => dat'[j] = dat[j]
        /\ \A j \in Keys : j # k => kv'[j] = kv[j]
        /\ Len(dat') = Len(dat)
    BY <1>1
  <2>6. Len(rec') \in Nat /\ Len(rec) <= Len(rec')
    BY <1>6, <1>12
  <2> QED
    BY <1>1, <1>6, <2>1, <2>2, <2>3, <2>4, <2>5, <2>6 DEF Leaves
<1>18. OwnRight(p, 0, 0, s, lp, s, lp2)
  <2>1. \A o \in Items(Len(rec)) : Datoff(o) # 0
    BY <1>3 DEF Shape, Space
  <2>2. \A o \in s[0] : Key(o)' = BLANK
    <3>1. \A o \in s[0] : o \in Items(Len(rec)) /\ Key(o) = BLANK
      BY <1>3, <1>6, <1>14, ListsApart DEF Contents
    <3> QED
      BY <1>12, <3>1
  <2>3. \A o \in s[c] : o \in s[c] /\ Key(o)' = Key(o) /\ Key(o)' # k /\ Datoff(o) # 0
    BY <1>3, <1>5, <1>12, <2>1
  <2>4. kv'[k] # NONE => Replacing(p)'
    <3>1. kv[k] # NONE => Replacing(p)
      BY <1>1, NotStored DEF Adding, Appending
    <3> QED
      BY <1>1, <1>8, <3>1 DEF Replacing, Appending
  <2>6. \A z \in 0..(NHash + Len(rec')) :
          \/ lp2[z] = _db_readptr(z)'
          \/ /\ z \in 0..(NHash + Len(rec)) /\ lp2[z] = lp[z] /\ _db_readptr(z)' = _db_readptr(z)
    <3> TAKE z \in 0..(NHash + Len(rec'))
    <3>1. CASE z = i
      BY <1>12, <1>13, <3>1
    <3>2. CASE z # i
      <4>1. z \in 0..(NHash + Len(rec))
        BY <1>13, <3>2
      <4>2. z \in 0..NHash \/ z \in Items(Len(rec))
        BY <1>6, <4>1 DEF Items
      <4> QED
        BY <1>12, <1>13, <3>2, <4>1, <4>2
    <3> QED
      BY <3>1, <3>2
  <2>7. db'[p].idxoff = i
    BY <1>0, <1>8
  <2>8. \A o \in Items(Len(rec')) : Key(o)' = k /\ (o \in s[c] \/ o = 0 \/ o \notin Items(Len(rec))) =>
           o = i /\ call[p].op \in Stores /\ call[p].data = dat'[Datoff(o)']
    <3>2. call[p].op \in Stores /\ call[p].data = dat'[Datoff(i)']
      BY <1>1, <1>4, <1>5, <1>12
    <3>3. \A o \in Items(Len(rec')) : Key(o)' = k /\ (o \in s[c] \/ o = 0 \/ o \notin Items(Len(rec))) => o = i
      BY <1>6, <1>12, <2>3
    <3> QED
      BY <3>2, <3>3
  <2>9. /\ db'[p].idxoff \in Items(Len(rec')) /\ (\A e \in 0..NHash : db'[p].idxoff \notin s[e])
        /\ db'[p].idxoff \notin Items(Len(rec))
    <3>1. \A e \in 0..NHash : s[e] \subseteq Items(Len(rec))
      BY <1>3, ListsApart
    <3> QED
      BY <1>12, <2>7, <3>1
  <2>10. \A o \in Items(Len(rec')) : o = 0 \/ o \notin Items(Len(rec)) => Key(o)' \in {BLANK, k}
    <3>1. \A o \in Items(Len(rec')) : o = 0 \/ o \notin Items(Len(rec)) => o = i
      <4>1. 0 \notin Items(Len(rec'))
        BY <1>6, <1>12
      <4> QED
        BY <1>12, <4>1
    <3> QED
      BY <1>12, <3>1
  <2> QED
    BY <1>1, <1>2, <1>3, <1>8, <2>2, <2>3, <2>4, <2>6, <2>7, <2>8, <2>9, <2>10 DEF OwnRight
<1>19. Space(s)'
  <2>1. /\ Items(Len(rec')) = Items(Len(rec)) \cup {i} /\ i \notin Items(Len(rec)) /\ dat' = dat
        /\ \A o \in Items(Len(rec)) : Datoff(o)' = Datoff(o) /\ Datoff(o) # x /\ Datoff(o) \in 1..Len(dat)
        /\ Datoff(i)' = x /\ x \in 1..Len(dat)
        /\ \A q \in Procs : Reserving(q) /\ db[q].datoff = x => q = p
        /\ InHand(p)' /\ db'[p].idxoff = i /\ Space(s)
    BY <1>0, <1>1, <1>2, <1>3, <1>8, <1>12 DEF Shape, Space
  <2>2. ASSUME NEW q \in Procs, Reserving(q)' PROVE q # p /\ Reserving(q) /\ db'[q].datoff = db[q].datoff
    BY <1>8, <2>2 DEF Others, Reserving
  <2>5. \A o \in Items(Len(rec')) : Datoff(o)' \in 1..Len(dat')
    BY <2>1
  <2>6. \A o, o2 \in Items(Len(rec')) : Datoff(o)' = Datoff(o2)' => o = o2
    <3>1. \A o, o2 \in Items(Len(rec)) : Datoff(o) = Datoff(o2) => o = o2
      BY <2>1 DEF Space
    <3> QED
      BY <2>1, <3>1
  <2>7. ASSUME NEW q \in Procs, Reserving(q)'
        PROVE  /\ db'[q].datoff \in 1..Len(dat')
               /\ \A o \in Items(Len(rec')) : Datoff(o)' # db'[q].datoff
               /\ \A r \in Procs : Reserving(r)' /\ db'[r].datoff = db'[q].datoff => r = q
    <3>1. q # p /\ Reserving(q) /\ db'[q].datoff = db[q].datoff
      BY <2>2, <2>7
    <3>2. /\ db[q].datoff \in 1..Len(dat) /\ db[q].datoff # x
          /\ \A o \in Items(Len(rec)) : Datoff(o) # db[q].datoff
          /\ \A r \in Procs : Reserving(r) /\ db[r].datoff = db[q].datoff => r = q
      BY <2>1, <3>1 DEF Space
    <3>3. \A r \in Procs : Reserving(r)' /\ db'[r].datoff = db'[q].datoff => r = q
      BY <2>2, <3>1, <3>2
    <3> QED
      BY <2>1, <3>1, <3>2, <3>3
  <2>8. ASSUME NoDead'
        PROVE  /\ \A o \in Items(Len(rec')) : \/ \E e \in 0..NHash : o \in s[e]
                                              \/ \E q \in Procs : InHand(q)' /\ db'[q].idxoff = o
               /\ \A j \in 1..Len(dat') : \/ \E o \in Items(Len(rec')) : Datoff(o)' = j
                                          \/ \E q \in Procs : Reserving(q)' /\ db'[q].datoff = j
    <3>1. NoDead
      BY <1>1, <1>8, <2>8 DEF NoDead, Others
    <3>2. ASSUME NEW o \in Items(Len(rec')), \A e \in 0..NHash : o \notin s[e]
          PROVE  \E q \in Procs : InHand(q)' /\ db'[q].idxoff = o
      <4>1. CASE o = i
        BY <2>1, <4>1
      <4>2. CASE o \in Items(Len(rec))
        <5>1. PICK q \in Procs : InHand(q) /\ db[q].idxoff = o
          BY <2>1, <3>1, <3>2, <4>2 DEF Space
        <5>2. q # p
          BY <1>2, <5>1
        <5>3. InHand(q)' /\ db'[q].idxoff = o
          BY <1>8, <5>1, <5>2 DEF Others, InHand
        <5> QED
          BY <5>3
      <4> QED
        BY <2>1, <4>1, <4>2
    <3>3. ASSUME NEW j \in 1..Len(dat)
          PROVE  \/ \E o \in Items(Len(rec')) : Datoff(o)' = j
                 \/ \E q \in Procs : Reserving(q)' /\ db'[q].datoff = j
      <4>1. CASE \E o \in Items(Len(rec)) : Datoff(o) = j
        BY <2>1, <4>1
      <4>2. CASE \E q \in Procs : Reserving(q) /\ db[q].datoff = j
        <5>1. PICK q \in Procs : Reserving(q) /\ db[q].datoff = j
          BY <4>2
        <5>2. CASE q = p
          BY <1>0, <2>1, <5>1, <5>2
        <5>3. CASE q # p
          <6>1. Reserving(q)' /\ db'[q].datoff = j
            BY <1>8, <5>1, <5>3 DEF Others, Reserving
          <6> QED
            BY <6>1
        <5> QED
          BY <5>2, <5>3
      <4> QED
        BY <2>1, <3>1, <4>1, <4>2 DEF Space
    <3> QED
      BY <2>1, <3>2, <3>3
  <2> QED
    BY <2>5, <2>6, <2>7, <2>8 DEF Space
<1>20. InCallOf(p)'
  BY <1>1, <1>2, <1>3, <1>4, <1>8
     DEF InCallOf, OnChain, OnRecords, Chaining, Holding, Cutting, Adding, Reusing, Appending, Reading, Stores
<1>21. LocksOf(p)'
  <2>1. OnChain(p)' /\ ~OnRecords(p)'
    BY <1>4, <1>8 DEF OnChain, OnRecords, Reading, Chaining, Adding, Appending
  <2>2. <<p, Chain(p), Mode(p)>> \in locks'
    <3>1. c # IdxEnd
      BY <1>3, HashAssumption DEF IdxEnd
    <3> QED
      BY <1>2, <1>3, <1>9, <3>1 DEF LocksOf
  <2> QED
    BY <1>8, <2>1, <2>2 DEF LocksOf, Cutting
<1>22. Position(p, s, rk2, lp2)'
  <2>1. (\A o \in s[c] : Key(o)' # k) /\ dat'[Datoff(i)'] = call[p].data
    BY <1>1, <1>3, <1>5, <1>12
  <2>2. v = table'[c] /\ (call[p].op = "replace" => kv'[k] # NONE)
    BY <1>1, <1>5
  <2>3. db'[p].idxoff = i /\ db'[p].link = v /\ call'[p].key = k /\ call'[p] = call[p] /\ Chain(p)' = c
    BY <1>0, <1>8
  <2> QED
    BY <1>8, <1>12, <2>1, <2>2, <2>3 DEF Position, Holding, Cutting, Adding, Reusing, Appending
<1>23. call[p].op \notin {"fetch", "nextrec"} /\ "link" # "init" /\ db[p] \in DbRecord
  BY <1>3, <1>4 DEF Stores
<1> HIDE DEF c, k
<1>25. Ready(s, rk2, lp2)'
  BY <1>2, <1>3, <1>7, <1>8, <1>9, <1>10, <1>16, <1>17, <1>18, <1>19, <1>20, <1>21, <1>22, <1>23, ChangeReady
<1> QED
  BY <1>25

\* A process dies in a call, or ends because the index file is full (err_quit in
\* _db_writeptr): its locks are gone, its record is lost.
LEMMA DieKeeps ==
    ASSUME NEW s, NEW rk, NEW lp, Ready(s, rk, lp), NEW p \in Procs, Die(p), deaths' \in 0..MaxDeaths,
           pc[p] \notin Outside \cup {"blank"} \cup Cutting
    PROVE  Ready(s, rk, lp)'
<1> DEFINE c == Chain(p)
           k == call[p].key
<1>1. /\ UNCHANGED <<table, rec, dat, call, db>> /\ UNCHANGED <<steady, seen, scanning, calls>>
      /\ ReleaseAll(p) /\ kv' = IF pc[p] \in Appending THEN [kv EXCEPT ![k] = NONE] ELSE kv
  BY DEF Die, files
<1>2. Types /\ Protocol /\ Locking /\ table # <<>> /\ Shape(s, rk, lp) /\ InCallOf(p)
  BY DEF Ready, Protocol
<1>3. "dead" \in Pcs /\ Moves(p, "dead", call[p], db[p], NONE) /\ call[p] \in CallRecord /\ db[p] \in DbRecord
  <2>1. pc \in [Procs -> Pcs] /\ call \in [Procs -> CallRecord] /\ db \in [Procs -> DbRecord]
        /\ result = [q \in Procs |-> result[q]]
    BY <1>2 DEF Types, TypeOK, CallRecord
  <2> QED
    BY <1>1, <2>1 DEF Moves, Die, Goto, Pcs
<1>4. /\ pc'[p] = "dead" /\ call'[p] = call[p] /\ db'[p] = db[p] /\ result'[p] = NONE
      /\ \A q \in Procs : q # p => pc'[q] = pc[q] /\ call'[q] = call[q] /\ db'[q] = db[q] /\ result'[q] = result[q]
  BY <1>2, <1>3, MovesOne
<1>5. Takes(p)
  BY <1>1, <1>2, AllReleased
<1>6. History(p) /\ steady' = steady
  BY <1>1, <1>2 DEF Types, TypeOK, History
<1>7. Others(p)
  BY <1>4, <1>6 DEF Others, History
<1>8. InCallOf(p)' /\ LocksOf(p)'
  <2>1. ~OnChain(p)' /\ ~OnRecords(p)'
    BY <1>4 DEF OnChain, OnRecords, Reading, Chaining, Holding, Cutting, Adding, Reusing, Appending
  <2>2. call'[p].op \in Stores => call'[p].data \in Data
    BY <1>2, <1>4 DEF InCallOf
  <2> QED
    BY <1>4, <2>1, <2>2 DEF InCallOf, LocksOf, Cutting, Reusing, Appending, Reading
<1>9. Position(p, s, rk, lp)' /\ Scan(p, s)'
  BY <1>4 DEF Position, Scan, Holding, Cutting, Adding, Reusing, Appending
<1>10. CASE pc[p] \notin Reusing \cup Appending
  <2>1. UNCHANGED <<table, rec, dat, kv>>
    BY <1>1, <1>10
  <2>2. /\ pc[p] \notin {"blank", "link", "dead"} \cup Cutting \cup Reusing
        /\ "dead" \notin {"link", "init"} \cup Cutting \cup Reusing
        /\ ("dead" \in {"idxseek", "idxwrite"}) = (pc[p] \in {"idxseek", "idxwrite"})
        /\ pc[p] \notin Appending
    BY <1>10 DEF Outside, Cutting, Reusing, Appending
  <2> QED
    BY <1>3, <1>5, <1>6, <1>8, <1>9, <2>1, <2>2, PlainReady DEF Appending
<1>11. CASE pc[p] \in Reusing \cup Appending
  <2>1. OnChain(p) /\ ~Unlinking(p) /\ pc[p] \in Adding
    BY <1>11 DEF OnChain, Chaining, Adding, Appending, Unlinking, Cutting, Reusing
  <2>2. /\ c \in 0..NHash /\ c # 0 /\ c \in 1..NHash /\ c = Hash[k] /\ k \in Keys /\ Position(p, s, rk, lp)
        /\ s[c] \subseteq Items(Len(rec))
    BY <2>1, OnOwnChain
  <2>3. call[p].op \in Stores /\ call[p].op \notin {"fetch", "nextrec"}
    BY <1>2, <1>11 DEF InCallOf, Stores, Reusing
  <2>4. ~InHand(p)' /\ ~Unlinking(p)' /\ ~Reserving(p)' /\ ~NoDead'
    BY <1>4 DEF InHand, Unlinking, Reserving, Reusing, Cutting, NoDead
  <2>5. \A o \in s[c] : Key(o) # k
    BY <2>1, <2>2 DEF Position
  <2>6. /\ Len(rec) \in Nat /\ Len(dat) \in Nat /\ rec \in Seq(Records) /\ dat \in Seq(Data \cup {BLANK})
        /\ table \in [0..NHash -> Nat] /\ kv \in [Keys -> Values] /\ 0 \in 0..NHash /\ 0 \notin Items(Len(rec))
    BY <1>2, HashAssumption DEF Types, TypeOK, Items
  <2>7. kv' \in [Keys -> Values] /\ kv'[k] = NONE /\ \A j \in Keys : j # k => kv'[j] = kv[j]
    <3>1. CASE pc[p] \in Appending
      BY <1>1, <2>2, <2>6, <3>1 DEF Values
    <3>2. CASE pc[p] \in Reusing
      <4>1. kv[k] = NONE
        BY <2>1, <3>2, NotStored DEF Replacing, Reusing, Cutting, Appending
      <4> QED
        BY <1>1, <2>6, <3>2, <4>1 DEF Reusing, Appending
    <3> QED
      BY <1>11, <3>1, <3>2
  <2>8. FilesTyped
    BY <1>1, <2>6, <2>7 DEF FilesTyped
  <2>9. \A o : Key(o)' = Key(o) /\ Datoff(o)' = Datoff(o) /\ _db_readptr(o)' = _db_readptr(o)
    BY <1>1 DEF Key, Datoff, Record, _db_readptr
  <2>10. Leaves(p, 0, 0, s, rk, lp, s, rk, lp)
    <3>1. OwnPlace(p, 0, s)
      BY DEF OwnPlace
    <3>2. \A e \in 0..NHash : SameList(e, s, rk, lp, s, rk, lp) /\ table'[e] = table[e]
      BY <1>1 DEF SameList
    <3> QED
      BY <1>1, <2>6, <2>7, <2>9, <3>1, <3>2 DEF Leaves
  <2>11. OwnRight(p, 0, 0, s, lp, s, lp)
    <3>1. Contents(s)
      BY <1>2 DEF Shape
    <3>2. \A o \in s[0] : Key(o)' = BLANK
      BY <2>9, <3>1 DEF Contents
    <3>3. \A o \in Items(Len(rec)) : Datoff(o) # 0
      BY <1>2 DEF Shape, Space
    <3>4. \A o \in s[c] : Key(o)' # k /\ Key(o)' = Key(o) /\ Datoff(o) # 0
      BY <2>2, <2>5, <2>9, <3>3
    <3>5. rec' = rec
      BY <1>1
    <3>6. \A m \in 0..(NHash + Len(rec')) :
            /\ m \in 0..(NHash + Len(rec)) /\ lp[m] = lp[m] /\ _db_readptr(m)' = _db_readptr(m)
      BY <2>9, <3>5
    <3>7. ASSUME pc[p] = "link" PROVE call[p].data = dat'[Datoff(db[p].idxoff)']
      <4>1. call[p].data = dat[Datoff(db[p].idxoff)]
        BY <2>2, <3>7 DEF Position
      <4> QED
        BY <1>1, <2>9, <4>1
    <3> QED
      BY <1>4, <2>1, <2>3, <2>4, <2>6, <2>7, <3>2, <3>4, <3>5, <3>6, <3>7 DEF OwnRight
  <2>12. Typed(s, rk, lp, Len(rec')) /\ Lists(lp, s, rk, Len(rec'))
    BY <1>1, <1>2 DEF Shape
  <2>13. Space(s)'
    <3>1. SpaceSame(p, s, s)
      BY <1>1, <1>11, <2>4, <2>9 DEF SpaceSame, Reusing, Appending
    <3> QED
      BY <1>2, <1>7, <3>1, SpaceStays DEF Shape
  <2> HIDE DEF c, k
  <2> QED
    BY <1>3, <1>5, <1>6, <1>8, <1>9, <2>1, <2>3, <2>8, <2>10, <2>11, <2>12, <2>13, ChangeReady
<1> QED
  BY <1>10, <1>11

\* A process ends in a call.
LEMMA EndKeeps ==
    ASSUME NEW s, NEW rk, NEW lp, Ready(s, rk, lp), NEW p \in Procs, Crash(p) \/ IndexFull(p)
    PROVE  Ready(s, rk, lp)'
<1>1. Types
  BY DEF Ready
<1>2. CASE Crash(p)
  <2>1. deaths' \in 0..MaxDeaths
    BY <1>1, <1>2, BoundAssumption DEF Crash, Types, TypeOK
  <2> QED
    BY <1>2, <2>1, DieKeeps DEF Crash, Outside, Cutting
<1>3. CASE IndexFull(p)
  BY <1>1, <1>3, DieKeeps DEF IndexFull, Outside, Cutting, Types, TypeOK
<1> QED
  BY <1>2, <1>3

-----------------------------------------------------------------------------
(* The database is made (db_open), and the invariant.                        *)

Absent == Types /\ Protocol /\ Locking /\ table = <<>> /\ Fresh

\* db_open truncates the files: nobody uses the database.
LEMMA OpenKeeps ==
    ASSUME Types, Protocol, Locking, NEW p \in Procs, db_open(p)
    PROVE  Absent'
<1>1. /\ pc[p] = "closed" /\ (\A q \in Procs : pc[q] \in {"closed", "stat", "dead"})
      /\ UNCHANGED <<locks, call, db, result, steady, seen, scanning, deaths>>
      /\ table' = <<>> /\ rec' = <<>> /\ dat' = <<>> /\ kv' = [k \in Keys |-> NONE]
      /\ calls < MaxCalls /\ calls' = calls + 1
  BY DEF db_open
<1>2. Moves(p, "stat", call[p], db[p], result[p]) /\ "stat" \in Pcs /\ call[p] \in CallRecord /\ db[p] \in DbRecord
  <2>1. pc \in [Procs -> Pcs] /\ call \in [Procs -> CallRecord] /\ db \in [Procs -> DbRecord]
        /\ result = [q \in Procs |-> result[q]]
    BY DEF Types, TypeOK, CallRecord
  <2> QED
    BY <1>1, <2>1 DEF Moves, db_open, Goto, Pcs
<1>3. /\ pc'[p] = "stat" /\ call'[p] = call[p] /\ db'[p] = db[p] /\ result'[p] = result[p]
      /\ \A q \in Procs : q # p => pc'[q] = pc[q] /\ call'[q] = call[q] /\ db'[q] = db[q] /\ result'[q] = result[q]
      /\ pc' \in [Procs -> Pcs] /\ call' \in [Procs -> CallRecord] /\ db' \in [Procs -> DbRecord]
      /\ result' = [q \in Procs |-> result'[q]]
  BY <1>2, MovesOne
<1>4. History(p) /\ Takes(p)
  <2>1. calls' \in 0..MaxCalls
    BY <1>1, BoundAssumption DEF Types, TypeOK
  <2>2. Takes(p)
    BY <1>1, LocksStay
  <2> QED
    BY <1>1, <2>1, <2>2 DEF History, Types, TypeOK
<1>5. Others(p)
  BY <1>3, <1>4 DEF Others, History
<1>6. InCallOf(p)' /\ LocksOf(p)'
  <2>1. call[p] = NoCall /\ result[p] = NONE /\ ~scanning[p]
    BY <1>1 DEF Protocol, InCallOf
  <2> QED
    BY <1>1, <1>3, <2>1 DEF InCallOf, LocksOf, NoCall, Stores, OnChain, OnRecords, Chaining, Holding, Cutting, Adding, Reusing, Appending, Reading
<1>7. Protocol' /\ Locking'
  BY <1>4, <1>5, <1>6, ProtocolKept, LockingKept
<1>8. Types'
  <2>1. table' \in [0..NHash -> Nat] \cup {<<>>} /\ rec' \in Seq(Records) /\ dat' \in Seq(Data \cup {BLANK})
    BY <1>1
  <2>2. kv' \in [Keys -> Values]
    BY <1>1 DEF Values
  <2>3. TypeOK'
    BY <1>3, <1>4, <2>1, <2>2 DEF TypeOK, Takes, LockSet, History, CallRecord
  <2> QED
    BY <1>3, <2>3 DEF Types
<1>9. Fresh'
  BY <1>1, <1>3 DEF Fresh
<1> QED
  BY <1>1, <1>7, <1>8, <1>9 DEF Absent

\* db_open locks the index file when it is empty.
LEMMA StatKeeps ==
    ASSUME Absent, NEW p \in Procs, OpenStat(p)
    PROVE  Absent'
<1>1. /\ pc[p] = "stat" /\ UNCHANGED <<table, rec, dat, kv, call, db, result>> /\ UNCHANGED <<steady, seen, scanning, bounds>>
      /\ locks' = locks \cup {<<p, l, "w">> : l \in IdxLocks} /\ \A l \in IdxLocks : CanLock(p, l, "w")
  BY DEF OpenStat, Absent, files, history
<1>2. Types /\ Protocol /\ Locking /\ table = <<>> /\ Fresh
  BY DEF Absent
<1>3. Moves(p, "init", call[p], db[p], result[p]) /\ "init" \in Pcs /\ call[p] \in CallRecord /\ db[p] \in DbRecord
  <2>1. pc \in [Procs -> Pcs] /\ call \in [Procs -> CallRecord] /\ db \in [Procs -> DbRecord]
        /\ result = [q \in Procs |-> result[q]]
    BY <1>2 DEF Types, TypeOK, CallRecord
  <2> QED
    BY <1>1, <1>2, <2>1 DEF Moves, OpenStat, Goto, Pcs
<1>4. /\ pc'[p] = "init" /\ call'[p] = call[p] /\ db'[p] = db[p] /\ result'[p] = result[p]
      /\ \A q \in Procs : q # p => pc'[q] = pc[q] /\ call'[q] = call[q] /\ db'[q] = db[q] /\ result'[q] = result[q]
      /\ pc' \in [Procs -> Pcs] /\ call' \in [Procs -> CallRecord] /\ db' \in [Procs -> DbRecord]
      /\ result' = [q \in Procs |-> result'[q]]
  BY <1>2, <1>3, MovesOne
<1>5. Takes(p) /\ <<p, FREE_OFF, "w">> \in locks'
  <2>1. IdxLocks \subseteq 0..DatFile /\ FREE_OFF \in IdxLocks
    BY HashAssumption DEF IdxLocks, IdxEnd, DatFile, FREE_OFF
  <2>2. locks' \in LockSet
    BY <1>1, <1>2, <2>1 DEF LockSet, Types, TypeOK
  <2>3. \A l \in locks' : l \in locks \/ (l[1] = p /\ CanLock(p, l[2], l[3]))
    BY <1>1
  <2> QED
    BY <1>1, <2>1, <2>2, <2>3 DEF Takes
<1>6. History(p) /\ scanning' = scanning
  BY <1>1, <1>2, HistoryStays
<1>7. Others(p)
  BY <1>4, <1>6 DEF Others, History
<1>8. InCallOf(p)' /\ LocksOf(p)'
  <2>1. call[p] = NoCall /\ result[p] = NONE /\ ~scanning[p]
    BY <1>1, <1>2 DEF Protocol, InCallOf
  <2> QED
    BY <1>4, <1>5, <1>6, <2>1 DEF InCallOf, LocksOf, NoCall, Stores, OnChain, OnRecords, Chaining, Holding, Cutting, Adding, Reusing, Appending, Reading
<1>9. Protocol' /\ Locking'
  BY <1>2, <1>5, <1>7, <1>8, ProtocolKept, LockingKept
<1>10. Types'
  BY <1>1, <1>2, <1>4, <1>5, <1>6 DEF Types, TypeOK, Takes, LockSet, History, CallRecord
<1>11. Fresh'
  BY <1>1, <1>2, <1>4 DEF Fresh
<1> QED
  BY <1>1, <1>2, <1>9, <1>10, <1>11 DEF Absent

\* db_open writes the free list and chain pointers: lists without records.
LEMMA InitKeeps ==
    ASSUME Absent, NEW p \in Procs, OpenInit(p)
    PROVE  \E s, rk, lp : Ready(s, rk, lp)'
<1>0. PICK s, rk, lp : s = [c \in 0..NHash |-> {}] /\ rk = [o \in 0..NHash |-> 0] /\ lp = [o \in 0..NHash |-> 0]
  OBVIOUS
<1>1. /\ pc[p] = "init" /\ UNCHANGED <<rec, dat, kv, call, db, result>> /\ UNCHANGED <<steady, seen, scanning, bounds>>
      /\ table' = [o \in 0..NHash |-> 0] /\ ReleaseAll(p)
  BY DEF OpenInit, history
<1>2. Types /\ Protocol /\ Locking /\ Fresh /\ NHash \in Nat /\ 0 \in 0..NHash
  BY HashAssumption DEF Absent
<1>3. Moves(p, "idle", call[p], db[p], result[p]) /\ "idle" \in Pcs /\ call[p] \in CallRecord /\ db[p] \in DbRecord
  <2>1. pc \in [Procs -> Pcs] /\ call \in [Procs -> CallRecord] /\ db \in [Procs -> DbRecord]
        /\ result = [q \in Procs |-> result[q]]
    BY <1>2 DEF Types, TypeOK, CallRecord
  <2> QED
    BY <1>1, <2>1 DEF Moves, OpenInit, Goto, Pcs
<1>4. /\ pc'[p] = "idle" /\ call'[p] = call[p] /\ db'[p] = db[p] /\ result'[p] = result[p]
      /\ \A q \in Procs : q # p => pc'[q] = pc[q] /\ call'[q] = call[q] /\ db'[q] = db[q] /\ result'[q] = result[q]
      /\ pc' \in [Procs -> Pcs] /\ call' \in [Procs -> CallRecord] /\ db' \in [Procs -> DbRecord]
      /\ result' = [q \in Procs |-> result'[q]]
  BY <1>2, <1>3, MovesOne
<1>5. Takes(p)
  BY <1>1, <1>2, AllReleased
<1>6. History(p) /\ scanning' = scanning
  BY <1>1, <1>2, HistoryStays
<1>7. Others(p)
  BY <1>4, <1>6 DEF Others, History
<1>8. InCallOf(p)' /\ LocksOf(p)' /\ ~scanning[p]
  <2>1. call[p] = NoCall /\ result[p] = NONE /\ ~scanning[p]
    BY <1>1, <1>2 DEF Protocol, InCallOf
  <2> QED
    BY <1>4, <1>5, <1>6, <2>1 DEF InCallOf, LocksOf, NoCall, Stores, OnChain, OnRecords, Chaining, Holding, Cutting, Adding, Reusing, Appending, Reading
<1>9. Protocol' /\ Locking'
  BY <1>2, <1>5, <1>7, <1>8, ProtocolKept, LockingKept
<1>10. Types'
  <2>1. table' \in [0..NHash -> Nat]
    BY <1>1
  <2> QED
    BY <1>1, <1>2, <1>4, <1>5, <1>6, <2>1 DEF Types, TypeOK, Takes, LockSet, History, CallRecord
<1>11. \A q \in Procs : pc'[q] \in {"closed", "stat", "dead", "idle"} /\ (pc'[q] # "dead" => ~scanning'[q])
  <2> TAKE q \in Procs
  <2>1. CASE q = p
    BY <1>4, <1>6, <1>8, <2>1
  <2>2. CASE q # p
    <3>1. pc[q] # "init"
      BY <1>1, <1>2, <2>2, FreeListAlone
    <3>2. pc'[q] = pc[q] /\ pc[q] \in {"closed", "stat", "dead"}
      BY <1>2, <1>4, <2>2, <3>1 DEF Fresh
    <3>3. pc[q] # "dead" => ~scanning[q]
      BY <1>2, <3>2 DEF Protocol, InCallOf
    <3> QED
      BY <1>6, <3>2, <3>3
  <2> QED
    BY <2>1, <2>2
<1>12. rec' = <<>> /\ dat' = <<>> /\ Len(rec') = 0 /\ Len(dat') = 0 /\ Items(Len(rec')) = {} /\ \A k \in Keys : kv'[k] = NONE
  <2>1. rec' = <<>> /\ dat' = <<>> /\ \A k \in Keys : kv'[k] = NONE
    BY <1>1, <1>2 DEF Fresh
  <2>2. Len(rec') = 0 /\ Len(dat') = 0
    BY <2>1
  <2>3. Items(0) = {}
    BY <1>2 DEF Items
  <2> QED
    BY <2>1, <2>2, <2>3
<1>13. /\ \A c \in 0..NHash : s[c] = {}
       /\ s \in [0..NHash -> SUBSET Items(Len(rec'))]
       /\ rk \in [0..(NHash + Len(rec')) -> Nat] /\ lp \in [0..(NHash + Len(rec')) -> Nat]
       /\ \A o \in 0..(NHash + Len(rec')) : lp[o] = 0 /\ o \in 0..NHash
  <2>1. NHash + Len(rec') = NHash
    BY <1>2, <1>12
  <2> QED
    BY <1>0, <1>12, <2>1
<1>14. \A q \in Procs : ~Unlinking(q)' /\ ~InHand(q)' /\ ~Reserving(q)'
  BY <1>11 DEF Unlinking, InHand, Reserving, Cutting, Reusing
<1>15. Typed(s, rk, lp, Len(rec')) /\ Lists(lp, s, rk, Len(rec'))
  <2>1. Typed(s, rk, lp, Len(rec'))
    BY <1>13 DEF Typed
  <2>2. \A c \in 0..NHash : c \in 0..(NHash + Len(rec'))
    BY <1>2, <1>12
  <2> QED
    BY <1>13, <2>1, <2>2 DEF Lists
<1>16. Agree(lp)'
  <2>1. \A o \in 0..NHash : _db_readptr(o)' = 0
    BY <1>1, <1>2 DEF _db_readptr
  <2> QED
    BY <1>13, <1>14, <2>1 DEF Agree
<1>17. Contents(s)' /\ Hands(s)' /\ Space(s)' /\ Named(s)'
  <2>1. Contents(s)'
    <3>1. \A c \in 1..NHash : s[c] = {}
      BY <1>2, <1>13
    <3> QED
      BY <1>2, <1>12, <1>13, <3>1 DEF Contents
  <2>2. Hands(s)'
    BY <1>14 DEF Hands
  <2>3. Space(s)'
    BY <1>12, <1>14 DEF Space
  <2>4. Named(s)'
    BY <1>12 DEF Named
  <2> QED
    BY <2>1, <2>2, <2>3, <2>4
<1>18. ASSUME NEW q \in Procs PROVE Position(q, s, rk, lp)' /\ Scan(q, s)'
  <2>1. pc'[q] \in {"closed", "stat", "dead", "idle"} /\ (pc'[q] # "dead" => ~scanning'[q])
    BY <1>11
  <2> QED
    BY <2>1 DEF Position, Scan, Holding, Cutting, Adding, Reusing, Appending
<1>19. Shape(s, rk, lp)'
  BY <1>15, <1>16, <1>17, <1>18 DEF Shape
<1>20. table' # <<>> /\ \A q \in Procs : pc'[q] # "init"
  <2>1. DOMAIN <<>> = 1..0
    BY EmptySeq, LenProperties
  <2>2. 0 \in DOMAIN table' /\ 0 \notin DOMAIN <<>>
    BY <1>1, <1>2, <2>1
  <2> QED
    BY <1>11, <2>2
<1>21. Ready(s, rk, lp)'
  BY <1>9, <1>10, <1>19, <1>20 DEF Ready
<1> QED
  BY <1>21

\* The invariant speaks of the variables only.
LEMMA Stutter == ASSUME DbInv, UNCHANGED vars PROVE DbInv'
<1>1. /\ UNCHANGED <<table, rec, dat, locks, pc, call, db, result, kv, steady, seen, scanning, calls, deaths>>
  BY DEF vars, files, history, bounds
<1>2. Types /\ Protocol /\ Locking
  BY DEF DbInv
<1>3. Types'
  BY <1>1, <1>2 DEF Types, TypeOK
<1>4. Protocol'
  BY <1>1, <1>2 DEF Protocol, InCallOf, OnChain, OnRecords
<1>5. Locking'
  BY <1>1, <1>2 DEF Locking, Exclusive, LocksOf, OnChain, OnRecords, Chain, Mode
<1>6. CASE Absent
  <2>1. Fresh'
    BY <1>1, <1>6 DEF Absent, Fresh
  <2> QED
    BY <1>1, <1>3, <1>4, <1>5, <1>6, <2>1, ReadyOrFresh DEF Absent, DbInv
<1>7. ASSUME NEW s, NEW rk, NEW lp, Ready(s, rk, lp) PROVE Ready(s, rk, lp)'
  <2>1. Shape(s, rk, lp) /\ table # <<>> /\ \A q \in Procs : pc[q] # "init"
    BY <1>7 DEF Ready
  <2>2. \A o : Key(o)' = Key(o) /\ Datoff(o)' = Datoff(o) /\ _db_readptr(o)' = _db_readptr(o)
    BY <1>1 DEF Key, Datoff, Record, _db_readptr
  <2>3. Typed(s, rk, lp, Len(rec')) /\ Lists(lp, s, rk, Len(rec'))
    BY <1>1, <2>1 DEF Shape
  <2>4. Agree(lp)'
    BY <1>1, <2>1, <2>2 DEF Shape, Agree, Unlinking
  <2>5. Contents(s)'
    BY <1>1, <2>1, <2>2 DEF Shape, Contents, Replacing
  <2>6. Hands(s)'
    BY <1>1, <2>1 DEF Shape, Hands, InHand
  <2>7. Space(s)'
    BY <1>1, <2>1, <2>2 DEF Shape, Space, Reserving, InHand, NoDead
  <2>8. Named(s)'
    BY <1>1, <2>1, <2>2 DEF Shape, Named
  <2>9. ASSUME NEW q \in Procs PROVE Position(q, s, rk, lp)'
    <3>1. Undisturbed(q, s, rk, lp, s, rk, lp)
      BY <1>1, <2>2 DEF Undisturbed, SameList, Key, Datoff, Record
    <3>2. Position(q, s, rk, lp)
      BY <2>1 DEF Shape
    <3> QED
      BY <1>1, <3>1, <3>2, PositionKept
  <2>10. \A q \in Procs : Scan(q, s)'
    BY <1>1, <2>1, <2>2 DEF Shape, Scan
  <2>11. Shape(s, rk, lp)'
    BY <2>3, <2>4, <2>5, <2>6, <2>7, <2>8, <2>9, <2>10 DEF Shape
  <2> QED
    BY <1>1, <1>3, <1>4, <1>5, <2>1, <2>11 DEF Ready
<1> QED
  BY <1>6, <1>7, ReadyOrFresh DEF Absent, Ready, DbInv

\* Every step of the calls, where the database is there.
LEMMA StepKeeps ==
    ASSUME NEW s, NEW rk, NEW lp, Ready(s, rk, lp), NEW p \in Procs, Step(p)
    PROVE  \E s2, rk2, lp2 : Ready(s2, rk2, lp2)'
<1>1. ASSUME Ready(s, rk, lp)' PROVE \E s2, rk2, lp2 : Ready(s2, rk2, lp2)'
  BY <1>1
<1>2. CASE OpenStat(p) \/ Unlock(p) \/ NotFound(p) \/ ReadUnequal(p) \/ Found(p) \/ _db_readdat(p)
  BY <1>1, <1>2, OpenAndCloseKeep, UnlockKeeps, NotFoundKeeps, ReadUnequalKeeps, FoundKeeps, ReadDatKeeps
<1>3. CASE OpenInit(p)
  BY <1>3 DEF Ready, OpenInit
<1>4. CASE DelData(p) \/ DelChain(p)
  BY <1>1, <1>4, DelDataKeeps, DelChainKeeps
<1>5. CASE DelIdx(p) \/ DelFree(p)
  BY <1>5, DelIdxKeeps, DelFreeKeeps
<1>6. CASE _db_findfree(p) \/ NoneFree(p) \/ FreeUnfit(p) \/ ReuseDat(p)
  BY <1>1, <1>6, FindFreeKeeps, NoneFreeKeeps, FreeUnfitKeeps, ReuseDatKeeps
<1>7. CASE TakeFree(p) \/ ReuseIdx(p) \/ Link(p)
  BY <1>7, TakeFreeKeeps, ReuseIdxKeeps, LinkKeeps
<1>8. CASE _db_writedat(p)
  <2>1. pc[p] \in {"datseek", "datwrite"}
    BY <1>8 DEF _db_writedat
  <2> QED
    BY <1>1, <1>8, <2>1, DatSeekKeeps, DatWriteKeeps
<1>9. CASE _db_writeidx(p)
  <2>1. pc[p] \in {"idxseek", "idxwrite"}
    BY <1>9 DEF _db_writeidx
  <2> QED
    BY <1>1, <1>9, <2>1, IdxSeekKeeps, IdxWriteKeeps
<1>10. CASE IndexFull(p) \/ Overwrite(p)
  BY <1>1, <1>10, EndKeeps, OverwriteKeeps
<1>11. CASE NextEOF(p) \/ NextBlank(p) \/ NextIdx(p) \/ NextDat(p) \/ NextLost(p)
  BY <1>1, <1>11, NextEOFKeeps, NextBlankKeeps, NextIdxKeeps, NextDatKeeps, NextLostKeeps
<1> QED
  BY <1>2, <1>3, <1>4, <1>5, <1>6, <1>7, <1>8, <1>9, <1>10, <1>11 DEF Step

\* db_fetch, db_delete and db_store begin in _db_find_and_lock.
LEMMA CallKeeps ==
    ASSUME NEW s, NEW rk, NEW lp, Ready(s, rk, lp), NEW p \in Procs, NEW k \in Keys,
           \/ db_fetch(p, k) \/ db_delete(p, k)
           \/ \E d \in Data, flag \in {"insert", "replace", "store"} : db_store(p, k, d, flag)
    PROVE  Ready(s, rk, lp)'
<1>1. CASE db_fetch(p, k)
  <2>1. PICK c : c = [op |-> "fetch", key |-> k, data |-> NONE]
    OBVIOUS
  <2>2. c \in CallRecord /\ c.key \in Keys /\ c.op = "fetch"
    BY <2>1 DEF CallRecord, Ops, Values
  <2>3. _db_find_and_lock(p, c, "r")
    BY <1>1, <2>1 DEF db_fetch
  <2>4. (IF c.op = "fetch" THEN "r" ELSE "w") = "r"
    BY <2>2
  <2> QED
    BY <2>2, <2>3, <2>4, FindKeeps DEF Stores
<1>2. CASE db_delete(p, k)
  <2>1. PICK c : c = [op |-> "delete", key |-> k, data |-> NONE]
    OBVIOUS
  <2>2. c \in CallRecord /\ c.key \in Keys /\ c.op = "delete"
    BY <2>1 DEF CallRecord, Ops, Values
  <2>3. _db_find_and_lock(p, c, "w")
    BY <1>2, <2>1 DEF db_delete
  <2>4. (IF c.op = "fetch" THEN "r" ELSE "w") = "w"
    BY <2>2
  <2> QED
    BY <2>2, <2>3, <2>4, FindKeeps DEF Stores
<1>3. ASSUME NEW d \in Data, NEW flag \in {"insert", "replace", "store"}, db_store(p, k, d, flag)
      PROVE  Ready(s, rk, lp)'
  <2>1. PICK c : c = [op |-> flag, key |-> k, data |-> d]
    OBVIOUS
  <2>2. c \in CallRecord /\ c.key \in Keys /\ c.op \in Stores /\ c.op # "fetch" /\ c.data \in Data
    BY <2>1 DEF CallRecord, Ops, Values, Stores
  <2>3. _db_find_and_lock(p, c, "w")
    BY <1>3, <2>1 DEF db_store
  <2>4. (IF c.op = "fetch" THEN "r" ELSE "w") = "w"
    BY <2>2
  <2> QED
    BY <2>2, <2>3, <2>4, FindKeeps
<1> QED
  BY <1>1, <1>2, <1>3

\* Until the database is there the processes can only open it.
LEMMA AbsentStep ==
    ASSUME Absent, NEW p \in Procs, Step(p)
    PROVE  OpenStat(p) \/ OpenInit(p)
<1>1. pc[p] \in {"closed", "stat", "init", "dead"}
  BY DEF Absent, Fresh
<1>2. /\ ~Unlock(p) /\ ~NotFound(p) /\ ~ReadUnequal(p) /\ ~Found(p) /\ ~_db_readdat(p)
      /\ ~DelData(p) /\ ~DelIdx(p) /\ ~DelFree(p) /\ ~DelChain(p)
  BY <1>1 DEF Unlock, NotFound, ReadUnequal, Found, _db_readdat, DelData, DelIdx, DelFree, DelChain
<1>3. /\ ~_db_findfree(p) /\ ~NoneFree(p) /\ ~FreeUnfit(p) /\ ~TakeFree(p)
      /\ ~ReuseDat(p) /\ ~ReuseIdx(p) /\ ~_db_writedat(p) /\ ~_db_writeidx(p)
  BY <1>1 DEF _db_findfree, NoneFree, FreeUnfit, TakeFree, ReuseDat, ReuseIdx, _db_writedat, _db_writeidx
<1>4. /\ ~IndexFull(p) /\ ~Link(p) /\ ~Overwrite(p)
      /\ ~NextEOF(p) /\ ~NextBlank(p) /\ ~NextIdx(p) /\ ~NextDat(p) /\ ~NextLost(p)
  BY <1>1 DEF IndexFull, Link, Overwrite, NextEOF, NextBlank, NextIdx, NextDat, NextLost
<1> QED
  BY <1>2, <1>3, <1>4 DEF Step

\* DbInv is inductive: the calls of db.c keep the lists, the records and the data
\* file as they have to be, in whatever order their steps come.
LEMMA InvStep == DbInv /\ [Next]_vars => DbInv'
<1> SUFFICES ASSUME DbInv, [Next]_vars PROVE DbInv'
  OBVIOUS
<1>1. Types /\ Protocol /\ Locking
  BY DEF DbInv
<1>2. Absent' => DbInv'
  BY DEF Absent, DbInv
<1>3. (\E s, rk, lp : Ready(s, rk, lp)') => DbInv'
  BY DEF Ready, DbInv
<1>4. CASE UNCHANGED vars
  BY <1>4, Stutter
<1>5. ASSUME NEW p \in Procs, db_open(p) PROVE DbInv'
  BY <1>1, <1>2, <1>5, OpenKeeps
<1>6. ASSUME NEW s, NEW rk, NEW lp, Ready(s, rk, lp), Next PROVE DbInv'
  <2>1. PICK p \in Procs :
           \/ db_open(p) \/ OpenExisting(p) \/ db_close(p)
           \/ \E k \in Keys :
                 \/ db_fetch(p, k) \/ db_delete(p, k)
                 \/ \E d \in Data, flag \in {"insert", "replace", "store"} : db_store(p, k, d, flag)
           \/ db_rewind(p) \/ db_nextrec(p)
           \/ Step(p) \/ Crash(p)
    BY <1>6 DEF Next
  <2>2. CASE db_open(p)
    BY <1>5, <2>2
  <2>3. CASE OpenExisting(p) \/ db_close(p) \/ db_rewind(p) \/ db_nextrec(p) \/ Crash(p)
    <3>1. Ready(s, rk, lp)'
      BY <1>6, <2>3, OpenAndCloseKeep, RewindKeeps, NextrecKeeps, EndKeeps
    <3> QED
      BY <1>3, <3>1
  <2>4. CASE \E k \in Keys :
                \/ db_fetch(p, k) \/ db_delete(p, k)
                \/ \E d \in Data, flag \in {"insert", "replace", "store"} : db_store(p, k, d, flag)
    <3>1. Ready(s, rk, lp)'
      BY <1>6, <2>4, CallKeeps
    <3> QED
      BY <1>3, <3>1
  <2>5. CASE Step(p)
    BY <1>3, <1>6, <2>5, StepKeeps
  <2> QED
    BY <2>1, <2>2, <2>3, <2>4, <2>5
<1>7. ASSUME Absent, Next PROVE DbInv'
  <2>1. PICK p \in Procs :
           \/ db_open(p) \/ OpenExisting(p) \/ db_close(p)
           \/ \E k \in Keys :
                 \/ db_fetch(p, k) \/ db_delete(p, k)
                 \/ \E d \in Data, flag \in {"insert", "replace", "store"} : db_store(p, k, d, flag)
           \/ db_rewind(p) \/ db_nextrec(p)
           \/ Step(p) \/ Crash(p)
    BY <1>7 DEF Next
  <2>2. pc[p] \in {"closed", "stat", "init", "dead"} /\ table = <<>>
    BY <1>7 DEF Absent, Fresh
  <2>3. CASE db_open(p)
    BY <1>5, <2>3
  <2>4. ~OpenExisting(p) /\ ~db_close(p) /\ ~db_rewind(p) /\ ~db_nextrec(p) /\ ~Crash(p)
    BY <2>2 DEF OpenExisting, db_close, db_rewind, db_nextrec, Crash
  <2>5. ~\E k \in Keys :
            \/ db_fetch(p, k) \/ db_delete(p, k)
            \/ \E d \in Data, flag \in {"insert", "replace", "store"} : db_store(p, k, d, flag)
    BY <2>2, ZenonT(30) DEF db_fetch, db_delete, db_store, _db_find_and_lock
  <2>6. CASE Step(p)
    <3>1. CASE OpenStat(p)
      BY <1>2, <1>7, <3>1, StatKeeps
    <3>2. CASE OpenInit(p)
      BY <1>3, <1>7, <3>2, InitKeeps
    <3> QED
      BY <1>7, <2>6, <3>1, <3>2, AbsentStep
  <2> QED
    BY <2>1, <2>3, <2>4, <2>5, <2>6
<1> QED
  BY <1>4, <1>6, <1>7, ReadyOrFresh DEF Absent

\* The files that the programs find are what programs of this library have left
\* (DatabaseAssumption), or empty.
LEMMA InvInit == Init => DbInv
<1> SUFFICES ASSUME Init PROVE DbInv
  OBVIOUS
<1>1. PICK f \in Databases : table = f.table /\ rec = f.rec /\ dat = f.dat /\ kv = f.kv
  BY DEF Init
<1>2. /\ locks = {} /\ pc = [p \in Procs |-> "closed"] /\ call = [p \in Procs |-> NoCall]
      /\ db = [p \in Procs |-> NewDb] /\ result = [p \in Procs |-> NONE]
      /\ steady = [p \in Procs |-> {}] /\ seen = [p \in Procs |-> {}] /\ scanning = [p \in Procs |-> FALSE]
      /\ calls = 0 /\ deaths = 0
  BY DEF Init
<1>3. Protocol /\ Locking
  <2>1. Protocol
    BY <1>2 DEF Protocol, InCallOf, NoCall, Stores, OnChain, OnRecords, Chaining, Holding, Cutting, Adding, Reusing, Appending, Reading
  <2>2. Locking
    BY <1>2 DEF Locking, Exclusive, LocksOf, OnChain, OnRecords, Chaining, Holding, Cutting, Adding, Reusing, Appending, Reading
  <2> QED
    BY <2>1, <2>2
<1>4. ASSUME table \in [0..NHash -> Nat] \cup {<<>>}, rec \in Seq(Records), dat \in Seq(Data \cup {BLANK}), kv \in [Keys -> Values]
      PROVE  Types
  <2>1. NoCall \in CallRecord
    BY DEF NoCall, CallRecord, Ops, Values
  <2>2. NewDb \in DbRecord
    BY HashAssumption DEF NewDb, DbRecord
  <2>3. TypeOK
    BY <1>2, <1>4, <2>1, BoundAssumption DEF TypeOK, Pcs, CallRecord
  <2> QED
    BY <1>2, <2>2, <2>3 DEF Types
<1>5. CASE Blank(f)
  <2>1. table = <<>> /\ rec = <<>> /\ dat = <<>> /\ kv = [k \in Keys |-> NONE]
    BY <1>1, <1>5 DEF Blank
  <2>2. Types
    BY <1>4, <2>1 DEF Values
  <2>3. Fresh
    BY <1>2, <2>1 DEF Fresh
  <2> QED
    BY <1>3, <2>1, <2>2, <2>3 DEF DbInv
<1>6. CASE Intact(f)
  <2> DEFINE n == Len(rec)
  <2>1. /\ table \in [0..NHash -> Nat] /\ rec \in Seq(Records) /\ dat \in Seq(Data \cup {BLANK}) /\ kv \in [Keys -> Values]
        /\ \A i, j \in 1..n : rec[i].datoff = rec[j].datoff => i = j
        /\ {rec[i].datoff : i \in 1..n} = 1..Len(dat)
    BY <1>1, <1>6 DEF Intact
  <2>2. PICK s \in [0..NHash -> SUBSET Items(n)] :
          /\ UNION {s[c] : c \in 0..NHash} = Items(n)
          /\ \A o \in s[0] : rec[o - NHash].key = BLANK
          /\ \A c \in 1..NHash : \A o \in s[c] :
                LET r == rec[o - NHash]
                IN  /\ r.key \in Keys /\ Hash[r.key] = c
                    /\ kv[r.key] # NONE /\ kv[r.key] = dat[r.datoff]
                    /\ \A o2 \in s[c] : rec[o2 - NHash].key = r.key => o2 = o
          /\ \A k \in Keys : kv[k] # NONE => \E o \in s[Hash[k]] : rec[o - NHash].key = k
          /\ \E rk \in [0..(NHash + n) -> 0..(n + 1)] : Lists(Pointers(f), s, rk, n)
    <3> DEFINE Listed(r, v, d, m) ==
                 \E s \in [0..NHash -> SUBSET Items(m)] :
                    /\ UNION {s[c] : c \in 0..NHash} = Items(m)
                    /\ \A o \in s[0] : r[o - NHash].key = BLANK
                    /\ \A c \in 1..NHash : \A o \in s[c] :
                          /\ r[o - NHash].key \in Keys /\ Hash[r[o - NHash].key] = c
                          /\ v[r[o - NHash].key] # NONE /\ v[r[o - NHash].key] = d[r[o - NHash].datoff]
                          /\ \A o2 \in s[c] : r[o2 - NHash].key = r[o - NHash].key => o2 = o
                    /\ \A k \in Keys : v[k] # NONE => \E o \in s[Hash[k]] : r[o - NHash].key = k
                    /\ \E rk \in [0..(NHash + m) -> 0..(m + 1)] : Lists(Pointers(f), s, rk, m)
    <3>1. Listed(f.rec, f.kv, f.dat, Len(f.rec))
      <4>1. Intact(f)
        BY <1>6
      <4> QED
        BY <4>1, Zenon DEF Intact
    <3>2. f.rec = rec /\ f.kv = kv /\ f.dat = dat
      BY <1>1
    <3> HIDE DEF Listed
    <3>3. Listed(rec, kv, dat, n)
      BY <3>1, <3>2
    <3> QED
      BY <3>3 DEF Listed
  <2>3. PICK rk \in [0..(NHash + n) -> 0..(n + 1)] : Lists(Pointers(f), s, rk, n)
    BY <2>2
  <2>4. PICK lp : lp = Pointers(f)
    OBVIOUS
  <2>5. NHash \in Nat /\ n \in Nat /\ 0 \in 0..NHash
    BY <2>1, HashAssumption
  <2>6. Types
    BY <1>4, <2>1
  <2>7. table # <<>>
    <3>1. DOMAIN <<>> = 1..0
      BY EmptySeq, LenProperties
    <3>2. 0 \in DOMAIN table /\ 0 \notin DOMAIN <<>>
      BY <2>1, <2>5, <3>1
    <3> QED
      BY <3>2
  <2>8. \A o \in 0..(NHash + n) : lp[o] = _db_readptr(o) /\ _db_readptr(o) \in Nat
    <3>1. \A o \in 0..(NHash + n) : lp[o] = _db_readptr(o)
      BY <1>1, <2>4 DEF Pointers, _db_readptr, Record
    <3> QED
      BY <2>6, <2>7, <3>1, RecordTypes
  <2>9. Typed(s, rk, lp, n) /\ Lists(lp, s, rk, n)
    <3>1. rk \in [0..(NHash + n) -> Nat]
      BY <2>5
    <3>2. lp \in [0..(NHash + n) -> Nat]
      <4>1. lp = [o \in 0..(NHash + n) |-> IF o <= NHash THEN f.table[o] ELSE f.rec[o - NHash].ptr]
        BY <1>1, <2>4 DEF Pointers
      <4>2. lp = [o \in 0..(NHash + n) |-> lp[o]]
        BY <4>1
      <4> QED
        BY <2>8, <4>2
    <3> QED
      BY <2>3, <2>4, <3>1, <3>2 DEF Typed
  <2>10. \A q \in Procs : ~Unlinking(q) /\ ~InHand(q) /\ ~Reserving(q)
    BY <1>2 DEF Unlinking, InHand, Reserving, Cutting, Reusing
  <2>11. Agree(lp)
    BY <2>8, <2>10 DEF Agree
  <2>12. \A o : Key(o) = rec[o - NHash].key /\ Datoff(o) = rec[o - NHash].datoff
    BY DEF Key, Datoff, Record
  <2>13. \A c \in 1..NHash : \A o \in s[c] :
            /\ Key(o) \in Keys /\ Hash[Key(o)] = c /\ kv[Key(o)] # NONE /\ kv[Key(o)] = dat[Datoff(o)]
            /\ \A o2 \in s[c] : Key(o2) = Key(o) => o2 = o
    BY <2>2, <2>12
  <2>14. Contents(s)
    <3>1. \A o \in s[0] : Key(o) = BLANK
      BY <2>2, <2>12
    <3>2. \A k \in Keys : kv[k] # NONE => \E o \in s[Hash[k]] : Key(o) = k
      BY <2>2, <2>12
    <3> QED
      BY <2>13, <3>1, <3>2 DEF Contents
  <2>15. Hands(s)
    BY <2>10 DEF Hands
  <2>16. \A o \in Items(n) : o - NHash \in 1..n
    BY <2>6, <2>7, RecordTypes
  <2>17. \A o \in Items(n) : \E c \in 0..NHash : o \in s[c]
    BY <2>2
  <2>18. Space(s)
    <3>1. \A o \in Items(n) : Datoff(o) \in 1..Len(dat)
      BY <2>1, <2>12, <2>16
    <3>2. ASSUME NEW o \in Items(n), NEW o2 \in Items(n), Datoff(o) = Datoff(o2) PROVE o = o2
      <4>1. o - NHash = o2 - NHash
        BY <2>1, <2>12, <2>16, <3>2
      <4>2. o \in Nat /\ o2 \in Nat
        BY <2>6, <2>7, RecordTypes
      <4> QED
        BY <2>5, <4>1, <4>2
    <3>3. ASSUME NEW d \in 1..Len(dat) PROVE \E o \in Items(n) : Datoff(o) = d
      <4>1. PICK i \in 1..n : rec[i].datoff = d
        BY <2>1
      <4>2. NHash + i \in Items(n) /\ (NHash + i) - NHash = i
        BY <2>5 DEF Items
      <4> QED
        BY <2>12, <4>1, <4>2
    <3> QED
      BY <2>10, <2>17, <3>1, <3>2, <3>3 DEF Space
  <2>19. Named(s)
    <3> SUFFICES ASSUME NEW o \in Items(n), Key(o) # BLANK PROVE o \in s[Hash[Key(o)]]
      BY DEF Named
    <3>1. PICK c \in 0..NHash : o \in s[c]
      BY <2>17
    <3>2. c # 0
      BY <2>14, <3>1 DEF Contents
    <3>3. c \in 1..NHash
      BY <2>5, <3>2
    <3> QED
      BY <2>13, <3>1, <3>3
  <2>20. ASSUME NEW q \in Procs PROVE Position(q, s, rk, lp) /\ Scan(q, s)
    BY <1>2 DEF Position, Scan, Holding, Cutting, Adding, Reusing, Appending
  <2>21. Shape(s, rk, lp)
    BY <2>9, <2>11, <2>14, <2>15, <2>18, <2>19, <2>20 DEF Shape
  <2>22. Ready(s, rk, lp)
    BY <1>2, <1>3, <2>6, <2>7, <2>21 DEF Ready
  <2> QED
    BY <2>22, ReadyOrFresh
<1> QED
  BY <1>5, <1>6, DatabaseAssumption
-----------------------------------------------------------------------------
(* What db_nextrec gives. *)

\* A process moves itself only, and reads a record's data, or finds the end of
\* the index file, in db_nextrec.
LEMMA ReadsAlone ==
    ASSUME Types, [Next]_vars, NEW p \in Procs
    PROVE  /\ pc[p] = "nextdat" /\ pc'[p] = "unlock" => NextDat(p)
           /\ pc[p] = "next" /\ scanning[p] /\ ~scanning'[p] => NextEOF(p)
<1> DEFINE Other(q) == q # p => pc'[p] = pc[p] /\ scanning'[p] = scanning[p]
           Own(q) == q = p => (pc[p] # "nextdat" \/ pc'[p] # "unlock") /\ (pc[p] # "next" \/ scanning'[p] = scanning[p])
<1>1. pc \in [Procs -> Pcs] /\ scanning \in [Procs -> BOOLEAN]
  BY DEF Types, TypeOK
<1>2. CASE UNCHANGED vars
  <2>1. pc' = pc /\ scanning' = scanning
    BY <1>2 DEF vars, history
  <2> QED
    BY <2>1
<1>3. ASSUME NEW q \in Procs, db_open(q) \/ OpenExisting(q) \/ db_close(q) \/ db_rewind(q) \/ db_nextrec(q) \/ Crash(q)
      PROVE  Other(q) /\ Own(q)
  BY <1>1, <1>3 DEF db_open, OpenExisting, db_close, db_rewind, db_nextrec, Crash, Die, Goto, history
<1>4. ASSUME NEW q \in Procs, NEW k \in Keys, NEW d \in Data, NEW flag \in {"insert", "replace", "store"},
             db_fetch(q, k) \/ db_delete(q, k) \/ db_store(q, k, d, flag)
      PROVE  Other(q) /\ Own(q)
  <2>1. PICK c, mode : _db_find_and_lock(q, c, mode)
    BY <1>4 DEF db_fetch, db_delete, db_store
  <2> QED
    BY <1>1, <2>1 DEF _db_find_and_lock, Goto
<1>5. ASSUME NEW q \in Procs, NEW k \in Keys, db_fetch(q, k) \/ db_delete(q, k)
      PROVE  Other(q) /\ Own(q)
  <2>1. PICK c, mode : _db_find_and_lock(q, c, mode)
    BY <1>5 DEF db_fetch, db_delete
  <2> QED
    BY <1>1, <2>1 DEF _db_find_and_lock, Goto
<1>6. ASSUME NEW q \in Procs, OpenStat(q) \/ OpenInit(q) \/ Unlock(q) \/ ReadUnequal(q) \/ _db_readdat(q)
                              \/ DelData(q) \/ DelIdx(q) \/ DelFree(q)
      PROVE  Other(q) /\ Own(q)
  BY <1>1, <1>6 DEF OpenStat, OpenInit, Unlock, ReadUnequal, _db_readdat, DelData, DelIdx, DelFree, Goto, Answer, history
<1>7. ASSUME NEW q \in Procs, NotFound(q) PROVE Other(q) /\ Own(q)
  <2>1. (\E l : Goto(q, l)) /\ pc[q] = "walk" /\ scanning' = scanning
    BY <1>7 DEF NotFound, Answer, history
  <2> QED
    BY <1>1, <2>1 DEF Goto
<1>8. ASSUME NEW q \in Procs, Found(q) PROVE Other(q) /\ Own(q)
  <2>1. (\E l : Goto(q, l)) /\ pc[q] = "walk" /\ scanning' = scanning
    BY <1>8 DEF Found, Answer, history
  <2> QED
    BY <1>1, <2>1 DEF Goto
<1>9. ASSUME NEW q \in Procs, DelChain(q) PROVE Other(q) /\ Own(q)
  <2>1. (\E l : Goto(q, l)) /\ pc[q] = "unchain" /\ scanning' = scanning
    BY <1>9 DEF DelChain, Answer
  <2> QED
    BY <1>1, <2>1 DEF Goto
<1>10. ASSUME NEW q \in Procs, _db_findfree(q) \/ NoneFree(q) \/ FreeUnfit(q) \/ TakeFree(q) \/ ReuseDat(q) \/ ReuseIdx(q)
       PROVE  Other(q) /\ Own(q)
  BY <1>1, <1>10 DEF _db_findfree, NoneFree, FreeUnfit, TakeFree, ReuseDat, ReuseIdx, Goto, history
<1>11. ASSUME NEW q \in Procs, _db_writedat(q) \/ _db_writeidx(q) \/ IndexFull(q) \/ Link(q) \/ Overwrite(q)
       PROVE  Other(q) /\ Own(q)
  BY <1>1, <1>11 DEF _db_writedat, _db_writeidx, IndexFull, Die, Link, Overwrite, Goto, Answer, history
<1>12. ASSUME NEW q \in Procs, NextBlank(q) \/ NextIdx(q) \/ NextLost(q) PROVE Other(q) /\ Own(q)
  BY <1>1, <1>12 DEF NextBlank, NextIdx, NextLost, Goto, history
<1>13. ASSUME NEW q \in Procs, NextEOF(q) \/ NextDat(q)
       PROVE  Other(q) /\ (q = p => \/ pc[p] = "next" /\ NextEOF(p)
                                    \/ pc[p] = "nextdat" /\ NextDat(p))
  BY <1>1, <1>13 DEF NextEOF, NextDat, Goto, Answer
<1>14. CASE Next
  <2>1. PICK q \in Procs :
           \/ db_open(q) \/ OpenExisting(q) \/ db_close(q)
           \/ \E k \in Keys :
                 \/ db_fetch(q, k) \/ db_delete(q, k)
                 \/ \E d \in Data, flag \in {"insert", "replace", "store"} : db_store(q, k, d, flag)
           \/ db_rewind(q) \/ db_nextrec(q)
           \/ Step(q) \/ Crash(q)
    BY <1>14 DEF Next
  <2>2. CASE Step(q)
    <3>1. Other(q) /\ (Own(q) \/ NextEOF(q) \/ NextDat(q))
      BY <2>2, <1>6, <1>7, <1>8, <1>9, <1>10, <1>11, <1>12, <1>13 DEF Step
    <3> QED
      BY <3>1, <1>13
  <2>3. CASE ~Step(q)
    <3>1. Other(q) /\ Own(q)
      BY <2>1, <2>3, <1>3, <1>4, <1>5
    <3> QED
      BY <3>1
  <2> QED
    BY <2>2, <2>3
<1> QED
  BY <1>2, <1>14

\* db_nextrec's answer is a record of the database, or one that its db_store has
\* yet to link; it is not given twice when nobody touched it.
LEMMA ReadIsRight ==
    ASSUME DbInv, [Next]_vars, NEW p \in Procs, pc[p] = "nextdat", pc'[p] = "unlock"
    PROVE  /\ \/ kv[result'[p][2]] = result'[p][3]
              \/ \E q \in Procs : /\ call[q].key = result'[p][2] /\ call[q].data = result'[p][3]
                                  /\ pc[q] \in {"link", "dead"}
           /\ call[p].key \notin seen[p] \cap steady[p]
<1> DEFINE d == dat[db[p].datoff]
           k == call[p].key
<1>1. Types
  BY DEF DbInv
<1>2. NextDat(p)
  BY <1>1, ReadsAlone
<1>3. PICK s, rk, lp : Ready(s, rk, lp)
  BY ReadyOrFresh DEF Fresh
<1>4. /\ kv[k] = d \/ \E q \in Procs : pc[q] \in {"link", "dead"} /\ call[q].key = k /\ call[q].data = d
      /\ k \in steady[p] => k \notin seen[p]
  BY <1>3, WhatIsRead
<1>5. result' = [result EXCEPT ![p] = <<call[p].op, k, d>>]
  BY <1>2 DEF NextDat, Answer
<1>6. result'[p] = <<call[p].op, k, d>>
  BY <1>1, <1>5 DEF Types
<1>7. result'[p][2] = k /\ result'[p][3] = d
  BY <1>6
<1> QED
  BY <1>4, <1>7

\* At the end of the index file the scan has given every record nobody touched.
LEMMA ScanIsDone ==
    ASSUME DbInv, [Next]_vars, NEW p \in Procs, pc[p] = "next", scanning[p], ~scanning'[p]
    PROVE  steady[p] \subseteq seen[p]
<1>1. Types
  BY DEF DbInv
<1>2. NextEOF(p)
  BY <1>1, ReadsAlone
<1>3. PICK s, rk, lp : Ready(s, rk, lp)
  BY ReadyOrFresh DEF Fresh
<1>4. Types /\ Protocol /\ Locking /\ table # <<>> /\ Shape(s, rk, lp)
  BY <1>3 DEF Ready
<1> SUFFICES ASSUME NEW k \in steady[p] PROVE k \in seen[p]
  OBVIOUS
<1>5. Scan(p, s)
  BY <1>4 DEF Shape
<1>6. PICK o \in s[Hash[k]] : db[p].pos # Lost /\ (k \in seen[p]) = (o < db[p].pos)
  BY <1>5 DEF Scan
<1>7. k \in Keys
  BY <1>1 DEF Types, TypeOK
<1>8. Hash[k] \in 0..NHash
  <2>1. Hash[k] \in 1..NHash /\ NHash \in Nat
    BY <1>7, HashAssumption
  <2> QED
    BY <2>1
<1>9. o \in Items(Len(rec))
  BY <1>4, <1>6, <1>8, ListsApart
<1>10. db[p].pos > NHash + Len(rec)
  BY <1>2 DEF NextEOF, AtEnd
<1>11. NHash \in Nat /\ Len(rec) \in Nat /\ o \in Nat /\ o \in 0..(NHash + Len(rec))
  BY <1>4, <1>9, RecordTypes
<1>12. db[p].pos \in Nat
  <2>1. db[p] \in DbRecord
    BY <1>4, CallTypes
  <2> QED
    BY <2>1 DEF DbRecord, Lost
<1>13. o < db[p].pos
  BY <1>10, <1>11, <1>12
<1> QED
  BY <1>6, <1>13

\* Every state of the programs satisfies the invariant.
THEOREM TheDatabaseIsSound == Spec => []DbInv
BY InvInit, InvStep, PTL DEF Spec

\* "So that we don't read a record in the middle of its being deleted": db_nextrec
\* gives no key with the data of another record or with none, and from db_rewind
\* to the end every record that nobody touched, each once.  What a process that
\* died in db_store left is excepted from both: a record that was written and not
\* linked is given too, so a scan may give the key of a call somebody died in again.
THEOREM NextrecGivesTheRecords == Spec => ScansAreRight
<1>1. DbInv /\ [Next]_vars => [\A p \in Procs :
         pc[p] = "nextdat" /\ pc'[p] = "unlock" =>
           LET k == result'[p][2]
               d == result'[p][3]
           IN \/ kv[k] = d
              \/ \E q \in Procs : /\ call[q].key = k /\ call[q].data = d
                                  /\ pc[q] \in {"link", "dead"}]_vars
  BY ReadIsRight
<1>2. DbInv /\ [Next]_vars => [\A p \in Procs :
         /\ pc[p] = "nextdat" /\ pc'[p] = "unlock" =>
               call[p].key \notin seen[p] \cap steady[p]
         /\ scanning[p] /\ ~scanning'[p] /\ pc[p] = "next" =>
               steady[p] \subseteq seen[p]]_vars
  BY ReadIsRight, ScanIsDone
<1> QED
  BY <1>1, <1>2, TheDatabaseIsSound, PTL DEF Spec, ScansAreRight, NextrecReadsRecords, ScanIsComplete
-----------------------------------------------------------------------------
(* The library implements the dictionary: what a call answers, it answers as  *)
(* the dictionary does at that moment.                                        *)

Told == [q \in Procs |-> Answered(q)]

\* _db_find_and_lock returns -1 when no record has the key, and a record that it
\* finds is the one the dictionary has.
LEMMA FoundOrNot ==
    ASSUME NEW s, NEW rk, NEW lp, Ready(s, rk, lp), NEW p \in Procs, OnChain(p)
    PROVE  /\ pc[p] = "walk" /\ db[p].next = 0 => kv[call[p].key] = NONE
           /\ pc[p] = "walk" /\ db[p].next # 0 /\ Key(db[p].next) = call[p].key => kv[call[p].key] # NONE
           /\ pc[p] \in Holding => kv[call[p].key] # NONE
           /\ pc[p] = "readdat" => dat[db[p].datoff] = kv[call[p].key]
<1> DEFINE c == Chain(p)
           k == call[p].key
<1>1. /\ Types /\ Protocol /\ Locking /\ table # <<>> /\ Shape(s, rk, lp)
      /\ c \in 1..NHash /\ c \in 0..NHash /\ c = Hash[k] /\ k \in Keys
      /\ InCallOf(p) /\ Position(p, s, rk, lp) /\ List(lp, s[c], rk, c)
  BY OnOwnChain
<1>2. ASSUME pc[p] = "walk", db[p].next = 0 PROVE kv[k] = NONE
  <2>1. db[p].ptroff \in {c} \cup s[c] /\ lp[db[p].ptroff] = 0
        /\ \A o \in s[c] : Key(o) = k => rk[o] < rk[db[p].ptroff]
    BY <1>1, <1>2 DEF Position
  <2>2. \A o \in s[c] : Key(o) # k
    BY <1>1, <2>1 DEF List
  <2>3. ASSUME NEW q \in Procs, Replacing(q), call[q].key = k PROVE FALSE
    <3>1. OnChain(q) /\ q # p
      BY <1>2, <2>3 DEF OnChain, Chaining, Replacing, Adding, Cutting, Appending
    <3>2. InCallOf(q)
      BY <1>1 DEF Protocol
    <3>3. call[q].op # "fetch"
      BY <2>3, <3>2 DEF InCallOf, Replacing, Stores
    <3> QED
      BY <1>1, <2>3, <3>1, <3>3, ChainAlone
  <2> QED
    BY <1>1, <2>2, <2>3 DEF Shape, Contents
<1>3. \A o \in s[c] : Key(o) = k => kv[k] # NONE
  BY <1>1 DEF Shape, Contents
<1>4. ASSUME pc[p] = "walk", db[p].next # 0, Key(db[p].next) = k PROVE kv[k] # NONE
  <2>1. db[p].ptroff \in {c} \cup s[c] /\ lp[db[p].ptroff] = db[p].next
    BY <1>1, <1>4 DEF Position
  <2>2. db[p].next \in s[c]
    BY <1>1, <1>4, <2>1 DEF List
  <2> QED
    BY <1>3, <1>4, <2>2
<1>5. pc[p] \in Holding => db[p].idxoff \in s[c] /\ Key(db[p].idxoff) = k /\ db[p].datoff = Datoff(db[p].idxoff)
  BY <1>1 DEF Position
<1>6. ASSUME pc[p] = "readdat" PROVE dat[db[p].datoff] = kv[k]
  <2> DEFINE o == db[p].idxoff
  <2>1. o \in s[c] /\ Key(o) = k /\ db[p].datoff = Datoff(o)
    BY <1>5, <1>6 DEF Holding
  <2> HIDE DEF o
  <2>2. dat[Datoff(o)] = kv[Key(o)] \/ \E q \in Procs : pc[q] = "blank" /\ db[q].idxoff = o
    BY <1>1, <2>1 DEF Shape, Contents
  <2>3. ASSUME NEW q \in Procs, pc[q] = "blank", db[q].idxoff = o PROVE FALSE
    <3>1. OnChain(q) /\ q # p
      BY <1>6, <2>3 DEF OnChain, Chaining, Holding
    <3>2. InCallOf(q) /\ Position(q, s, rk, lp)
      BY <1>1 DEF Protocol, Shape
    <3>3. call[q].op # "fetch"
      BY <2>3, <3>2 DEF InCallOf
    <3>4. Chain(q) # c
      BY <1>1, <3>1, <3>3, ChainAlone
    <3>5. o \in s[Chain(q)]
      BY <2>3, <3>2 DEF Position, Holding
    <3>6. Chain(q) \in 0..NHash
      BY <1>1, <3>1, CallTypes
    <3> HIDE DEF c
    <3> QED
      BY <1>1, <2>1, <3>4, <3>5, <3>6, ListsApart
  <2> QED
    BY <2>1, <2>2, <2>3
<1> QED
  BY <1>2, <1>3, <1>4, <1>5, <1>6

\* The caller is told nothing until its call has an answer.
LEMMA NothingTold ==
    ASSUME Types, result' = result, \A q \in Procs : call'[q] = call[q] \/ result[q] = NONE
    PROVE  Told' = Told
BY DEF Told, Answered

\* Nor by db_nextrec, which is not a call of the dictionary.
LEMMA NextrecTold ==
    ASSUME Types, NEW p \in Procs, NEW r, result' = [result EXCEPT ![p] = r],
           call'[p].op = "nextrec", call[p].op = "nextrec" \/ result[p] = NONE,
           \A q \in Procs : q # p => call'[q] = call[q]
    PROVE  Told' = Told
<1>1. \A q \in Procs : q # p => result'[q] = result[q]
  BY DEF Types
<1>2. ASSUME NEW q \in Procs PROVE Answered(q)' = Answered(q)
  <2>1. CASE q = p
    BY <2>1 DEF Answered
  <2>2. CASE q # p
    BY <1>1, <2>2 DEF Answered
  <2> QED
    BY <2>1, <2>2
<1> QED
  BY <1>2 DEF Told

\* What a call answers is what its caller is told.
LEMMA CallTold ==
    ASSUME Types, NEW p \in Procs, NEW r, result' = [result EXCEPT ![p] = r],
           call'[p].op # "nextrec" \/ r = NONE, \A q \in Procs : q # p => call'[q] = call[q]
    PROVE  Told' = [Told EXCEPT ![p] = r]
<1>1. result'[p] = r /\ \A q \in Procs : q # p => result'[q] = result[q]
  BY DEF Types
<1>2. ASSUME NEW q \in Procs PROVE Answered(q)' = IF q = p THEN r ELSE Answered(q)
  <2>1. CASE q = p
    BY <1>1, <2>1 DEF Answered
  <2>2. CASE q # p
    BY <1>1, <2>2 DEF Answered
  <2> QED
    BY <2>1, <2>2
<1> QED
  BY <1>2 DEF Told

\* Answer, in the dictionary's words.
LEMMA DictAnswer ==
    ASSUME Types, Protocol, NEW p \in Procs, NEW a, OnChain(p), pc[p] # "unlock", Answer(p, a), call' = call
    PROVE  Dict!Answer(p, <<call[p].op, call[p].key, a>>)
<1>1. call[p].op # "nextrec" /\ result[p] = NONE
  BY DEF Protocol, InCallOf, OnChain, Chaining, Holding, Cutting, Adding, Reusing, Appending
<1>2. result' = [result EXCEPT ![p] = <<call[p].op, call[p].key, a>>]
  BY DEF Answer
<1>3. Told' = [Told EXCEPT ![p] = <<call[p].op, call[p].key, a>>]
  BY <1>1, <1>2, CallTold
<1>4. Told[p] = NONE
  BY <1>1 DEF Told, Answered
<1> QED
  BY <1>3, <1>4 DEF Told, Dict!Answer

\* A step of the dictionary is one of a process and a key.
LEMMA DictSteps ==
    ASSUME NEW p \in Procs, NEW k \in Keys
    PROVE  /\ Dict!Fetch(p, k) \/ Dict!Delete(p, k) => Dict!Next
           /\ \A d \in Data : Dict!Insert(p, k, d) \/ Dict!Replace(p, k, d) \/ Dict!Store(p, k, d) => Dict!Next
BY DEF Dict!Next

\* No record has the key: db_fetch gives NULL, db_delete and db_store(DB_REPLACE)
\* fail with ENOENT.
LEMMA NotFoundImplements ==
    ASSUME NEW s, NEW rk, NEW lp, Ready(s, rk, lp), NEW p \in Procs, NotFound(p)
    PROVE  Dict!Next \/ (kv' = kv /\ Told' = Told)
<1> DEFINE k == call[p].key
<1>1. pc[p] = "walk" /\ db[p].next = 0 /\ kv' = kv /\ call' = call
  BY DEF NotFound, history
<1>2. OnChain(p)
  BY <1>1 DEF OnChain, Chaining
<1>3. Types /\ Protocol /\ InCallOf(p) /\ k \in Keys /\ call[p] \in CallRecord
  BY <1>2, OnOwnChain
<1>4. kv[k] = NONE
  BY <1>1, <1>2, FoundOrNot
<1>5. CASE call[p].op = "fetch"
  <2>1. Answer(p, NONE)
    BY <1>5 DEF NotFound
  <2>2. Dict!Answer(p, <<"fetch", k, kv[k]>>)
    BY <1>1, <1>2, <1>3, <1>4, <1>5, <2>1, DictAnswer
  <2>3. Dict!Fetch(p, k)
    BY <1>1, <2>2 DEF Dict!Fetch
  <2> QED
    BY <1>3, <2>3, DictSteps
<1>6. CASE call[p].op = "delete"
  <2>1. Answer(p, "ENOENT")
    BY <1>6 DEF NotFound
  <2>2. Dict!Answer(p, <<"delete", k, "ENOENT">>)
    BY <1>1, <1>2, <1>3, <1>6, <2>1, DictAnswer
  <2>3. kv' = [kv EXCEPT ![k] = NONE]
    <3>1. kv \in [Keys -> Values]
      BY <1>3 DEF Types, TypeOK
    <3> QED
      BY <1>1, <1>4, <3>1
  <2>4. Dict!Delete(p, k)
    BY <1>4, <2>2, <2>3 DEF Dict!Delete
  <2> QED
    BY <1>3, <2>4, DictSteps
<1>7. CASE call[p].op = "replace"
  <2>1. Answer(p, "ENOENT")
    BY <1>7 DEF NotFound
  <2>2. Dict!Answer(p, <<"replace", k, "ENOENT">>)
    BY <1>1, <1>2, <1>3, <1>7, <2>1, DictAnswer
  <2>3. call[p].data \in Data
    BY <1>3, <1>7 DEF InCallOf, Stores
  <2>4. Dict!Replace(p, k, call[p].data)
    BY <1>1, <1>4, <2>2 DEF Dict!Replace
  <2> QED
    BY <1>3, <2>3, <2>4, DictSteps
<1>8. CASE call[p].op \notin {"fetch", "delete", "replace"}
  <2>1. result' = result
    BY <1>8 DEF NotFound
  <2> QED
    BY <1>1, <1>3, <2>1, NothingTold
<1> QED
  BY <1>5, <1>6, <1>7, <1>8

\* A record has the key: db_store(DB_INSERT) returns 1, db_fetch its data.
LEMMA FoundImplements ==
    ASSUME NEW s, NEW rk, NEW lp, Ready(s, rk, lp), NEW p \in Procs, Found(p) \/ _db_readdat(p)
    PROVE  Dict!Next \/ (kv' = kv /\ Told' = Told)
<1> DEFINE k == call[p].key
<1>1. pc[p] \in {"walk", "readdat"} /\ kv' = kv /\ call' = call
  BY DEF Found, _db_readdat, history
<1>2. OnChain(p)
  BY <1>1 DEF OnChain, Chaining, Holding
<1>3. Types /\ Protocol /\ InCallOf(p) /\ k \in Keys /\ call[p] \in CallRecord
  BY <1>2, OnOwnChain
<1>4. CASE Found(p)
  <2>1. pc[p] = "walk" /\ db[p].next # 0 /\ Key(db[p].next) = k
    BY <1>4 DEF Found, Key
  <2>2. kv[k] # NONE
    BY <1>2, <2>1, FoundOrNot
  <2>3. CASE call[p].op = "insert"
    <3>1. Answer(p, "exists")
      BY <1>4, <2>3 DEF Found
    <3>2. Dict!Answer(p, <<"insert", k, "exists">>)
      BY <1>1, <1>2, <1>3, <2>3, <3>1, DictAnswer
    <3>3. call[p].data \in Data
      BY <1>3, <2>3 DEF InCallOf, Stores
    <3>4. Dict!Insert(p, k, call[p].data)
      BY <1>1, <2>2, <3>2 DEF Dict!Insert
    <3> QED
      BY <1>3, <3>3, <3>4, DictSteps
  <2>4. CASE call[p].op # "insert"
    <3>1. result' = result
      BY <1>4, <2>4 DEF Found
    <3> QED
      BY <1>1, <1>3, <3>1, NothingTold
  <2> QED
    BY <2>3, <2>4
<1>5. CASE _db_readdat(p)
  <2>1. pc[p] = "readdat" /\ Answer(p, dat[db[p].datoff])
    BY <1>5 DEF _db_readdat
  <2>2. call[p].op = "fetch"
    BY <1>3, <2>1 DEF InCallOf
  <2>3. dat[db[p].datoff] = kv[k]
    BY <1>2, <2>1, FoundOrNot
  <2>4. Dict!Answer(p, <<"fetch", k, kv[k]>>)
    BY <1>1, <1>2, <1>3, <2>1, <2>2, <2>3, DictAnswer
  <2>5. Dict!Fetch(p, k)
    BY <1>1, <2>4 DEF Dict!Fetch
  <2> QED
    BY <1>3, <2>5, DictSteps
<1> QED
  BY <1>4, <1>5

\* db_delete answers when the record is off its chain; a db_store that deleted a
\* record of another size has not answered yet.
LEMMA DeleteImplements ==
    ASSUME NEW s, NEW rk, NEW lp, Ready(s, rk, lp), NEW p \in Procs, DelChain(p)
    PROVE  Dict!Next \/ (kv' = kv /\ Told' = Told)
<1> DEFINE k == call[p].key
<1>1. pc[p] = "unchain" /\ call' = call
  BY DEF DelChain
<1>2. OnChain(p)
  BY <1>1 DEF OnChain, Chaining, Cutting
<1>3. Types /\ Protocol /\ InCallOf(p) /\ k \in Keys /\ Position(p, s, rk, lp)
  BY <1>2, OnOwnChain
<1>4. kv[k] # NONE
  BY <1>1, <1>3 DEF Position, Cutting
<1>5. CASE call[p].op = "delete"
  <2>1. Answer(p, "ok") /\ kv' = [kv EXCEPT ![k] = NONE]
    BY <1>5 DEF DelChain
  <2>2. Dict!Answer(p, <<"delete", k, "ok">>)
    BY <1>1, <1>2, <1>3, <1>5, <2>1, DictAnswer
  <2>3. Dict!Delete(p, k)
    BY <1>4, <2>1, <2>2 DEF Dict!Delete
  <2> QED
    BY <1>3, <2>3, DictSteps
<1>6. CASE call[p].op # "delete"
  <2>1. result' = result /\ kv' = kv
    BY <1>6 DEF DelChain
  <2> QED
    BY <1>1, <1>3, <2>1, NothingTold
<1> QED
  BY <1>5, <1>6

\* db_store answers when the record is linked, or its data overwritten.
LEMMA StoreImplements ==
    ASSUME NEW s, NEW rk, NEW lp, Ready(s, rk, lp), NEW p \in Procs, Link(p) \/ Overwrite(p)
    PROVE  Dict!Next
<1> DEFINE k == call[p].key
           d == call[p].data
<1>1. pc[p] \in {"link", "overwrite"} /\ call' = call /\ kv' = [kv EXCEPT ![k] = d] /\ Answer(p, "ok")
  BY DEF Link, Overwrite
<1>2. OnChain(p)
  BY <1>1 DEF OnChain, Chaining, Holding, Adding, Appending
<1>3. Types /\ Protocol /\ InCallOf(p) /\ k \in Keys /\ Position(p, s, rk, lp)
  BY <1>2, OnOwnChain
<1>4. call[p].op \in Stores /\ d \in Data
  BY <1>1, <1>3 DEF InCallOf, Appending, Stores
<1>5. Dict!Answer(p, <<call[p].op, k, "ok">>)
  BY <1>1, <1>2, <1>3, DictAnswer
<1>6. CASE call[p].op = "insert"
  <2>1. pc[p] = "link"
    BY <1>1, <1>3, <1>6 DEF InCallOf
  <2>2. kv[k] = NONE
    BY <1>6, <2>1, NotStored DEF Replacing, Adding, Appending
  <2>3. Dict!Insert(p, k, d)
    BY <1>1, <1>5, <1>6, <2>2 DEF Dict!Insert
  <2> QED
    BY <1>3, <1>4, <2>3, DictSteps
<1>7. CASE call[p].op = "replace"
  <2>1. kv[k] # NONE
    BY <1>1, <1>2, <1>3, <1>7, FoundOrNot DEF Position, Appending, Holding
  <2>2. Dict!Replace(p, k, d)
    BY <1>1, <1>5, <1>7, <2>1 DEF Dict!Replace
  <2> QED
    BY <1>3, <1>4, <2>2, DictSteps
<1>8. CASE call[p].op = "store"
  <2>1. Dict!Store(p, k, d)
    BY <1>1, <1>5, <1>8 DEF Dict!Store
  <2> QED
    BY <1>3, <1>4, <2>1, DictSteps
<1> QED
  BY <1>4, <1>6, <1>7, <1>8 DEF Stores

\* A process dies, or ends in _db_writeptr: the record it was replacing goes.
LEMMA DeathImplements ==
    ASSUME NEW s, NEW rk, NEW lp, Ready(s, rk, lp), NEW p \in Procs, IndexFull(p) \/ Crash(p)
    PROVE  Dict!Next \/ (kv' = kv /\ Told' = Told)
<1> DEFINE k == call[p].key
<1>1. /\ call' = call /\ result' = [result EXCEPT ![p] = NONE]
      /\ kv' = IF pc[p] \in Appending THEN [kv EXCEPT ![k] = NONE] ELSE kv
  BY DEF IndexFull, Crash, Die
<1>2. Types /\ Protocol
  BY DEF Ready
<1>3. OnChain(p) \/ OnRecords(p)
  <2>1. pc[p] \in Pcs
    BY <1>2 DEF Types, TypeOK
  <2>2. pc[p] \notin {"closed", "idle", "stat", "init", "dead", "aborted"}
    BY DEF IndexFull, Crash
  <2> QED
    BY <2>1, <2>2 DEF Pcs, OnChain, OnRecords, Chaining, Holding, Cutting, Adding, Reusing, Appending, Reading
<1>4. CASE OnChain(p)
  <2>1. k \in Keys
    BY <1>2, <1>4, CallTypes
  <2>2. Told' = [Told EXCEPT ![p] = NONE]
    BY <1>1, <1>2, CallTold
  <2>3. kv' \in {kv, [kv EXCEPT ![k] = NONE]}
    BY <1>1
  <2>4. Dict!Die(p)
    BY <2>1, <2>2, <2>3 DEF Dict!Die, Told
  <2> QED
    BY <2>4 DEF Dict!Next
<1>5. CASE OnRecords(p) /\ ~OnChain(p)
  <2>1. call[p].op = "nextrec"
    BY <1>2, <1>5 DEF Protocol, InCallOf
  <2>2. Told' = Told
    BY <1>1, <1>2, <2>1, NextrecTold
  <2>3. kv' = kv
    BY <1>1, <1>5 DEF OnChain, Chaining, Adding
  <2> QED
    BY <2>2, <2>3
<1> QED
  BY <1>3, <1>4, <1>5

\* Until it answers, a call has not changed the dictionary; db_nextrec is no call
\* of the dictionary.
LEMMA QuietSteps ==
    ASSUME Types, Protocol, NEW p \in Procs, Step(p), ~NotFound(p), ~Found(p), ~_db_readdat(p), ~DelChain(p),
           ~IndexFull(p), ~Link(p), ~Overwrite(p)
    PROVE  Dict!Next \/ (kv' = kv /\ Told' = Told)
<1>1. CASE \/ OpenStat(p) \/ OpenInit(p) \/ ReadUnequal(p) \/ DelData(p) \/ DelIdx(p) \/ DelFree(p)
           \/ _db_findfree(p) \/ NoneFree(p) \/ FreeUnfit(p) \/ TakeFree(p) \/ ReuseDat(p) \/ ReuseIdx(p)
           \/ _db_writedat(p) \/ _db_writeidx(p) \/ NextBlank(p) \/ NextLost(p)
  <2>1. kv' = kv /\ result' = result /\ call' = call
    BY <1>1 DEF OpenStat, OpenInit, ReadUnequal, DelData, DelIdx, DelFree, _db_findfree, NoneFree, FreeUnfit,
                TakeFree, ReuseDat, ReuseIdx, _db_writedat, _db_writeidx, NextBlank, NextLost, history
  <2> QED
    BY <2>1, NothingTold
<1>2. CASE Unlock(p)
  <2>1. kv' = kv /\ result' = [result EXCEPT ![p] = NONE] /\ \A q \in Procs : q # p => call'[q] = call[q]
    BY <1>2 DEF Unlock, history, Types, TypeOK
  <2>2. Told' = [Told EXCEPT ![p] = NONE]
    BY <2>1, CallTold
  <2>3. Dict!Return(p)
    BY <2>1, <2>2 DEF Dict!Return, Told
  <2> QED
    BY <2>3 DEF Dict!Next
<1>3. CASE NextEOF(p) \/ NextDat(p)
  <2>1. kv' = kv /\ call' = call /\ pc[p] \in Reading
    BY <1>3 DEF NextEOF, NextDat, Reading
  <2>2. \E r : result' = [result EXCEPT ![p] = r]
    BY <1>3 DEF NextEOF, NextDat, Answer
  <2>3. call[p].op = "nextrec"
    BY <2>1 DEF Protocol, InCallOf, OnRecords
  <2>4. Told' = Told
    BY <2>1, <2>2, <2>3, NextrecTold
  <2> QED
    BY <2>1, <2>4
<1>4. CASE NextIdx(p)
  <2>1. kv' = kv /\ result' = result /\ pc[p] = "next" /\ \A q \in Procs : q # p => call'[q] = call[q]
    BY <1>4 DEF NextIdx, history, Types, TypeOK
  <2>2. result[p] = NONE
    BY <2>1 DEF Protocol, InCallOf
  <2>3. Told' = Told
    BY <2>1, <2>2, NothingTold
  <2> QED
    BY <2>1, <2>3
<1> QED
  BY <1>1, <1>2, <1>3, <1>4 DEF Step

\* A call begins: the dictionary learns of it when it is answered.
LEMMA CallsAreQuiet ==
    ASSUME Types, Protocol, NEW p \in Procs,
           \/ OpenExisting(p) \/ db_close(p) \/ db_rewind(p) \/ db_nextrec(p)
           \/ \E c, mode : _db_find_and_lock(p, c, mode)
    PROVE  kv' = kv /\ Told' = Told
<1>1. CASE OpenExisting(p) \/ db_close(p) \/ db_rewind(p) \/ db_nextrec(p)
  <2>1. kv' = kv /\ result' = result /\ call' = call
    BY <1>1 DEF OpenExisting, db_close, db_rewind, db_nextrec, history
  <2> QED
    BY <2>1, NothingTold
<1>2. CASE \E c, mode : _db_find_and_lock(p, c, mode)
  <2>1. PICK c, mode : _db_find_and_lock(p, c, mode)
    BY <1>2
  <2>2. kv' = kv /\ result' = result /\ pc[p] = "idle" /\ \A q \in Procs : q # p => call'[q] = call[q]
    BY <2>1 DEF _db_find_and_lock, Types, TypeOK
  <2>3. result[p] = NONE
    BY <2>2 DEF Protocol, InCallOf
  <2> QED
    BY <2>2, <2>3, NothingTold
<1> QED
  BY <1>1, <1>2

\* Every step is one of the dictionary, or one it does not see.
LEMMA DictStep == DbInv /\ [Next]_vars => [Dict!Next]_(Dict!vars)
<1> SUFFICES ASSUME DbInv, [Next]_vars PROVE [Dict!Next]_(Dict!vars)
  OBVIOUS
<1>1. Types /\ Protocol /\ Locking
  BY DEF DbInv
<1>2. SUFFICES Dict!Next \/ (kv' = kv /\ Told' = Told)
  BY DEF Told, Dict!vars
<1>3. CASE UNCHANGED vars
  <2>1. kv' = kv /\ result' = result /\ call' = call
    BY <1>3 DEF vars, history
  <2> QED
    BY <1>1, <2>1, NothingTold
<1>4. CASE Next
  <2>1. PICK p \in Procs :
           \/ db_open(p) \/ OpenExisting(p) \/ db_close(p)
           \/ \E k \in Keys :
                 \/ db_fetch(p, k) \/ db_delete(p, k)
                 \/ \E d \in Data, flag \in {"insert", "replace", "store"} : db_store(p, k, d, flag)
           \/ db_rewind(p) \/ db_nextrec(p)
           \/ Step(p) \/ Crash(p)
    BY <1>4 DEF Next
  <2>2. CASE db_open(p)
    <3>1. kv' = [k \in Keys |-> NONE] /\ result' = result /\ call' = call
      BY <2>2 DEF db_open
    <3>2. Told' = Told
      BY <1>1, <3>1, NothingTold
    <3>3. Dict!Create
      BY <3>1, <3>2 DEF Dict!Create, Told
    <3> QED
      BY <3>3 DEF Dict!Next
  <2>3. CASE OpenExisting(p) \/ db_close(p) \/ db_rewind(p) \/ db_nextrec(p)
    BY <1>1, <2>3, CallsAreQuiet
  <2>4. CASE \E k \in Keys :
                \/ db_fetch(p, k) \/ db_delete(p, k)
                \/ \E d \in Data, flag \in {"insert", "replace", "store"} : db_store(p, k, d, flag)
    <3>1. \E c, mode : _db_find_and_lock(p, c, mode)
      BY <2>4 DEF db_fetch, db_delete, db_store
    <3> QED
      BY <1>1, <3>1, CallsAreQuiet
  <2>5. ASSUME pc[p] \notin {"closed", "stat", "init", "dead"} PROVE \E s, rk, lp : Ready(s, rk, lp)
    BY <2>5, ReadyOrFresh DEF Fresh
  <2>6. CASE Crash(p)
    <3>1. \E s, rk, lp : Ready(s, rk, lp)
      BY <2>5, <2>6 DEF Crash
    <3> QED
      BY <2>6, <3>1, DeathImplements
  <2>7. CASE Step(p)
    <3>1. CASE NotFound(p) \/ Found(p) \/ _db_readdat(p) \/ DelChain(p) \/ IndexFull(p) \/ Link(p) \/ Overwrite(p)
      <4>1. pc[p] \notin {"closed", "stat", "init", "dead"}
        BY <3>1 DEF NotFound, Found, _db_readdat, DelChain, IndexFull, Link, Overwrite
      <4>2. PICK s, rk, lp : Ready(s, rk, lp)
        BY <2>5, <4>1
      <4> QED
        BY <3>1, <4>2, NotFoundImplements, FoundImplements, DeleteImplements, StoreImplements, DeathImplements
    <3>2. CASE ~(NotFound(p) \/ Found(p) \/ _db_readdat(p) \/ DelChain(p) \/ IndexFull(p) \/ Link(p) \/ Overwrite(p))
      BY <1>1, <2>7, <3>2, QuietSteps
    <3> QED
      BY <3>1, <3>2
  <2> QED
    BY <2>1, <2>2, <2>3, <2>4, <2>6, <2>7
<1> QED
  BY <1>3, <1>4

\* The programs that share the files see a dictionary, on which the calls take
\* effect one at a time; what the locks and the order of the writes are for.
THEOREM TheLibraryIsADictionary == Spec => ImplementsDictionary
<1>1. Init => Dict!Init
  <2> SUFFICES ASSUME Init PROVE Dict!Init
    OBVIOUS
  <2>1. Types
    BY InvInit DEF DbInv
  <2>2. kv \in [Keys -> Data \cup {NONE}]
    BY <2>1 DEF Types, TypeOK, Values
  <2>3. result = [p \in Procs |-> NONE]
    BY DEF Init
  <2>4. \A p \in Procs : Answered(p) = NONE
    BY <2>3 DEF Answered
  <2> QED
    BY <2>2, <2>4 DEF Dict!Init
<1> QED
  BY <1>1, DictStep, TheDatabaseIsSound, PTL DEF Spec, ImplementsDictionary, Dict!Spec
-----------------------------------------------------------------------------
(* A walk along a list meets its records, and ends. *)

\* A set of numbers that is not empty has a least one.
LEMMA LeastNumber == ASSUME NEW T \in SUBSET Nat, T # {} PROVE \E n \in T : \A m \in T : n <= m
<1>1. PICK R : R = OpToRel(<, Nat)
  OBVIOUS
<1>2. IsWellFoundedOn(R, Nat)
  BY <1>1, NatLessThanWellFounded
<1>3. \A m, n \in Nat : m < n => <<m, n>> \in R
  BY <1>1 DEF OpToRel
<1>4. PICK n \in T : \A m \in T : ~(<<m, n>> \in R)
  BY <1>2, WFMin
<1>5. n \in Nat
  BY <1>4
<1>6. ASSUME NEW m \in T PROVE n <= m
  <2>1. m \in Nat
    OBVIOUS
  <2>2. ~(<<m, n>> \in R)
    BY <1>4
  <2>3. ~(m < n)
    BY <2>1, <2>2, <1>3, <1>5, Zenon
  <2> QED
    BY <2>1, <2>3, <1>5
<1> QED
  BY <1>4, <1>6

\* The records that come before x on its list.
Before(S, rk, x) == {y \in S : rk[y] > rk[x]}
Depth(S, rk, x) == Cardinality(Before(S, rk, x))
Stepwise(S, c, rk, lp) ==
    /\ \A m \in S : Depth(S, rk, m) \in Nat /\ Depth(S, rk, m) <= Cardinality(S)
    /\ \A m \in S : lp[m] # 0 => lp[m] \in S /\ Depth(S, rk, lp[m]) = Depth(S, rk, m) + 1
    /\ lp[c] # 0 => lp[c] \in S /\ Depth(S, rk, lp[c]) = 0
    /\ \A x \in S : x # lp[c] => Depth(S, rk, x) # 0 /\ \E m \in S : lp[m] = x
    /\ lp[c] # 0 => \E m \in S : lp[m] = 0

\* Along the pointers of a list no record is passed by (_db_find_and_lock reads
\* them one after another).
LEMMA OneByOne ==
    ASSUME NEW S, IsFiniteSet(S), NEW c, NEW rk, NEW lp, \A m \in {c} \cup S : rk[m] \in Nat,
           0 \notin S, List(lp, S, rk, c)
    PROVE  Stepwise(S, c, rk, lp)
<1>1. ASSUME NEW m \in {c} \cup S
      PROVE  /\ lp[m] # 0 => lp[m] \in S /\ rk[lp[m]] < rk[m]
             /\ \A o \in S : rk[o] < rk[m] => lp[m] # 0 /\ rk[o] <= rk[lp[m]]
             /\ \A o \in S : rk[o] = rk[m] => o = m
             /\ \A o \in S : rk[o] < rk[c]
  BY DEF List
<1>2. ASSUME NEW m \in S
      PROVE  IsFiniteSet(Before(S, rk, m)) /\ Depth(S, rk, m) \in Nat /\ Depth(S, rk, m) <= Cardinality(S)
  <2>1. Before(S, rk, m) \in SUBSET S
    BY DEF Before
  <2>2. IsFiniteSet(Before(S, rk, m)) /\ Cardinality(Before(S, rk, m)) <= Cardinality(S)
    BY <2>1, FS_Subset
  <2>3. Cardinality(Before(S, rk, m)) \in Nat
    BY <2>2, FS_CardinalityType
  <2> QED
    BY <2>2, <2>3 DEF Depth
<1>3. ASSUME NEW m \in S, lp[m] # 0 PROVE lp[m] \in S /\ Depth(S, rk, lp[m]) = Depth(S, rk, m) + 1
  <2>1. lp[m] \in S /\ rk[lp[m]] < rk[m]
    BY <1>1, <1>3
  <2>2. Before(S, rk, lp[m]) = Before(S, rk, m) \cup {m}
    <3>1. ASSUME NEW y \in S PROVE rk[y] > rk[lp[m]] <=> rk[y] > rk[m] \/ y = m
      <4>1. rk[y] < rk[m] => rk[y] <= rk[lp[m]]
        BY <1>1
      <4>2. rk[y] = rk[m] => y = m
        BY <1>1
      <4>3. rk[y] \in Nat /\ rk[m] \in Nat /\ rk[lp[m]] \in Nat
        BY <2>1
      <4> QED
        BY <2>1, <4>1, <4>2, <4>3
    <3> QED
      BY <3>1 DEF Before
  <2>3. m \notin Before(S, rk, m)
    BY DEF Before
  <2>4. IsFiniteSet(Before(S, rk, m))
    BY <1>2
  <2> DEFINE B == Before(S, rk, m)
  <2>5. Cardinality(B \cup {m}) = Cardinality(B) + 1
    BY <2>3, <2>4, FS_AddElement
  <2> QED
    BY <2>1, <2>2, <2>5 DEF Depth
<1>4. ASSUME lp[c] # 0 PROVE lp[c] \in S /\ Depth(S, rk, lp[c]) = 0
  <2>1. lp[c] \in S
    BY <1>1, <1>4
  <2>2. Before(S, rk, lp[c]) = {}
    <3>1. \A y \in S : rk[y] <= rk[lp[c]]
      BY <1>1
    <3> QED
      BY <2>1, <3>1 DEF Before
  <2> QED
    BY <2>1, <2>2, FS_EmptySet DEF Depth
<1>5. ASSUME NEW x \in S, x # lp[c] PROVE \E m \in S : lp[m] = x
  <2> DEFINE A == {m \in {c} \cup S : rk[x] < rk[m]}
             T == {rk[m] : m \in A}
  <2>1. T \in SUBSET Nat
    OBVIOUS
  <2>2. c \in A
    BY <1>1
  <2>3. T # {}
    BY <2>2
  <2> HIDE DEF T
  <2>4. PICK n \in T : \A i \in T : n <= i
    BY <2>1, <2>3, LeastNumber
  <2>5. PICK m \in A : n = rk[m]
    BY <2>4 DEF T
  <2>6. \A y \in A : rk[m] <= rk[y]
    BY <2>4, <2>5 DEF T
  <2>7. m \in {c} \cup S /\ rk[x] < rk[m]
    BY <2>5
  <2>8. lp[m] # 0 /\ lp[m] \in S /\ rk[lp[m]] < rk[m] /\ rk[x] <= rk[lp[m]]
    BY <1>1, <2>7
  <2>9. rk[x] \in Nat /\ rk[m] \in Nat /\ rk[lp[m]] \in Nat
    BY <2>7, <2>8
  <2>10. ~(rk[x] < rk[lp[m]])
    BY <2>6, <2>8, <2>9
  <2>11. rk[x] = rk[lp[m]]
    BY <2>8, <2>9, <2>10
  <2>12. lp[m] = x
    BY <1>1, <2>8, <2>11
  <2> QED
    BY <1>5, <2>7, <2>12
<1>6. ASSUME NEW x \in S, x # lp[c] PROVE Depth(S, rk, x) # 0
  <2>1. PICK m \in S : lp[m] = x
    BY <1>5, <1>6
  <2>2. Depth(S, rk, x) = Depth(S, rk, m) + 1
    BY <1>3, <2>1
  <2> QED
    BY <1>2, <2>2
<1>7. ASSUME lp[c] # 0 PROVE \E m \in S : lp[m] = 0
  <2> DEFINE T == {rk[m] : m \in S}
  <2>1. T \in SUBSET Nat
    OBVIOUS
  <2>2. T # {}
    BY <1>4, <1>7
  <2> HIDE DEF T
  <2>3. PICK n \in T : \A i \in T : n <= i
    BY <2>1, <2>2, LeastNumber
  <2>4. PICK m \in S : n = rk[m]
    BY <2>3 DEF T
  <2>5. \A y \in S : rk[m] <= rk[y]
    BY <2>3, <2>4 DEF T
  <2>6. ASSUME lp[m] # 0 PROVE FALSE
    <3>1. lp[m] \in S /\ rk[lp[m]] < rk[m]
      BY <1>1, <2>6
    <3>2. rk[m] <= rk[lp[m]] /\ rk[m] \in Nat /\ rk[lp[m]] \in Nat
      BY <2>5, <3>1
    <3> QED
      BY <3>1, <3>2
  <2> QED
    BY <2>6
<1> QED
  BY <1>2, <1>3, <1>4, <1>5, <1>6, <1>7 DEF Stepwise

\* Nodes, with a name for its walk.
WalkStep(w, o, n) == IF n = 0 THEN {o} \ {0} ELSE w[n - 1] \cup ({Record(m).ptr : m \in w[n - 1]} \ {0})
Walk(o) == CHOOSE w : w = [n \in 0..Len(rec) |-> WalkStep(w, o, n)]

\* The walk from an offset.
LEMMA NodesIsWalk == ASSUME NEW o PROVE Nodes(o) = Walk(o)[Len(rec)]
BY DEF Nodes, Walk, WalkStep

\* There is one walk from an offset.
LEMMA OneWalk ==
    ASSUME Len(rec) \in Nat, NEW o, NEW g, g = [n \in 0..Len(rec) |-> WalkStep(g, o, n)]
    PROVE  \A n \in 0..Len(rec) : Walk(o)[n] = g[n]
<1> DEFINE N == Len(rec)
           w == Walk(o)
           T == {n \in 0..N : w[n] # g[n]}
<1>1. w = [n \in 0..N |-> WalkStep(w, o, n)]
  BY DEF Walk
<1>2. \A n \in 0..N : w[n] = WalkStep(w, o, n) /\ g[n] = WalkStep(g, o, n)
  <2> HIDE DEF w
  <2> QED
    BY <1>1
<1> HIDE DEF w, N
<1>3. SUFFICES ASSUME T # {} PROVE FALSE
  BY DEF w, N
<1>4. N \in Nat
  BY DEF N
<1>5. T \in SUBSET Nat
  BY <1>4
<1>6. PICK n \in T : \A m \in T : n <= m
  BY <1>3, <1>5, LeastNumber
<1>7. n \in 0..N /\ w[n] # g[n]
  BY <1>6
<1>8. n # 0
  <2>1. ASSUME n = 0 PROVE w[n] = g[n]
    <3>1. WalkStep(w, o, n) = WalkStep(g, o, n)
      BY <2>1 DEF WalkStep
    <3> QED
      BY <1>2, <1>7, <3>1
  <2> QED
    BY <1>7, <2>1
<1>9. n - 1 \in 0..N /\ ~(n <= n - 1)
  BY <1>4, <1>7, <1>8
<1>10. w[n - 1] = g[n - 1]
  BY <1>6, <1>9
<1>11. WalkStep(w, o, n) = WalkStep(g, o, n)
  BY <1>8, <1>10 DEF WalkStep
<1> QED
  BY <1>2, <1>7, <1>11

\* From the pointer of a list one meets its records, and comes to its end.
LEMMA WalkMeetsAll ==
    ASSUME Types, table # <<>>, NEW c \in 0..NHash, NEW S \in SUBSET Items(Len(rec)), NEW rk, NEW lp,
           rk \in [0..(NHash + Len(rec)) -> Nat], List(lp, S, rk, c), \A m \in {c} \cup S : lp[m] = _db_readptr(m)
    PROVE  Nodes(table[c]) = S /\ Ends(table[c]) /\ IsFiniteSet(S)
<1> DEFINE N == Len(rec)
           o == table[c]
           D(x) == Depth(S, rk, x)
           g == [n \in 0..N |-> {x \in S : D(x) <= n}]
<1>1. NHash \in Nat /\ N \in Nat /\ lp[c] = o /\ c \in 0..(NHash + N)
  BY RecordTypes
<1>2. \A m \in S : m \in 0..(NHash + N) /\ m # 0 /\ lp[m] = Record(m).ptr
  BY RecordTypes
<1>3. IsFiniteSet(S) /\ Cardinality(S) <= N /\ Cardinality(S) \in Nat
  <2>1. NHash + 1 \in Int /\ NHash + N \in Int
    BY <1>1
  <2>2. IsFiniteSet(Items(N)) /\ Cardinality(Items(N)) = N
    <3>1. IsFiniteSet((NHash + 1)..(NHash + N))
      BY <2>1, FS_Interval
    <3>2. Cardinality((NHash + 1)..(NHash + N)) = IF NHash + 1 > NHash + N THEN 0 ELSE (NHash + N) - (NHash + 1) + 1
      BY <2>1, FS_Interval
    <3>3. (IF NHash + 1 > NHash + N THEN 0 ELSE (NHash + N) - (NHash + 1) + 1) = N
      BY <1>1
    <3> QED
      BY <3>1, <3>2, <3>3 DEF Items
  <2>3. IsFiniteSet(S) /\ Cardinality(S) <= Cardinality(Items(N))
    BY <2>2, FS_Subset
  <2>4. Cardinality(S) \in Nat
    BY <2>3, FS_CardinalityType
  <2> QED
    BY <2>2, <2>3, <2>4
<1>4. /\ \A m \in S : D(m) \in Nat /\ D(m) <= Cardinality(S)
      /\ \A m \in S : lp[m] # 0 => lp[m] \in S /\ D(lp[m]) = D(m) + 1
      /\ o # 0 => o \in S /\ D(o) = 0
      /\ \A x \in S : x # o => D(x) # 0 /\ \E m \in S : lp[m] = x
      /\ o # 0 => \E m \in S : lp[m] = 0
  <2>1. \A m \in {c} \cup S : rk[m] \in Nat
    BY <1>1, <1>2
  <2>2. 0 \notin S
    BY <1>2
  <2>3. Stepwise(S, c, rk, lp)
    BY <1>3, <2>1, <2>2, OneByOne
  <2> QED
    BY <1>1, <2>3 DEF Stepwise
<1> HIDE DEF D, N
<1>5. g[0] = {o} \ {0}
  <2>1. g[0] = {x \in S : D(x) <= 0}
    BY <1>1
  <2>2. \A x \in S : D(x) <= 0 <=> x = o
    BY <1>2, <1>4
  <2>3. o \in S <=> o # 0
    BY <1>2, <1>4
  <2> HIDE DEF o
  <2> QED
    BY <2>1, <2>2, <2>3
<1>6. ASSUME NEW n \in 0..N, n # 0 PROVE g[n] = g[n - 1] \cup ({Record(m).ptr : m \in g[n - 1]} \ {0})
  <2>1. n - 1 \in 0..N /\ n \in Nat
    BY <1>1, <1>6
  <2>2. g[n] = {x \in S : D(x) <= n} /\ g[n - 1] = {x \in S : D(x) <= n - 1}
    BY <2>1
  <2> HIDE DEF g
  <2>3. ASSUME NEW x \in g[n] PROVE x \in g[n - 1] \cup ({Record(m).ptr : m \in g[n - 1]} \ {0})
    <3>1. x \in S /\ D(x) \in Nat /\ D(x) <= n /\ x # 0
      BY <1>2, <1>4, <2>2
    <3>2. CASE D(x) <= n - 1
      BY <2>2, <3>1, <3>2
    <3>3. CASE ~(D(x) <= n - 1)
      <4>1. D(x) = n
        BY <2>1, <3>1, <3>3
      <4>2. x # o
        BY <1>4, <1>6, <3>1, <4>1
      <4>3. PICK m \in S : lp[m] = x
        BY <1>4, <3>1, <4>2
      <4>4. D(x) = D(m) + 1 /\ D(m) \in Nat
        BY <1>4, <3>1, <4>3
      <4>5. D(m) <= n - 1
        BY <2>1, <4>1, <4>4
      <4>6. m \in g[n - 1] /\ Record(m).ptr = x
        BY <1>2, <2>2, <4>3, <4>5
      <4> QED
        BY <3>1, <4>6
    <3> QED
      BY <3>2, <3>3
  <2>4. ASSUME NEW x \in g[n - 1] PROVE x \in g[n]
    <3>1. x \in S /\ D(x) \in Nat /\ D(x) <= n - 1
      BY <1>4, <2>2
    <3>2. D(x) <= n
      BY <2>1, <3>1
    <3> QED
      BY <2>2, <3>1, <3>2
  <2>5. ASSUME NEW m \in g[n - 1], Record(m).ptr # 0 PROVE Record(m).ptr \in g[n]
    <3>1. m \in S /\ D(m) \in Nat /\ D(m) <= n - 1
      BY <1>4, <2>2
    <3>2. lp[m] = Record(m).ptr
      BY <1>2, <3>1
    <3>3. lp[m] \in S /\ D(lp[m]) = D(m) + 1
      BY <1>4, <2>5, <3>1, <3>2
    <3>4. D(lp[m]) <= n
      BY <2>1, <3>1, <3>3
    <3> QED
      BY <2>2, <3>2, <3>3, <3>4
  <2> QED
    BY <2>3, <2>4, <2>5
<1>7. g = [n \in 0..N |-> WalkStep(g, o, n)]
  <2>1. ASSUME NEW n \in 0..N PROVE g[n] = WalkStep(g, o, n)
    <3> HIDE DEF g, o
    <3>1. CASE n = 0
      BY <1>5, <3>1 DEF WalkStep
    <3>2. CASE n # 0
      BY <1>6, <3>2 DEF WalkStep
    <3> QED
      BY <3>1, <3>2
  <2>2. g = [n \in 0..N |-> g[n]]
    OBVIOUS
  <2> HIDE DEF g, o
  <2> QED
    BY <2>1, <2>2
<1>8. g[N] = S
  <2>1. N \in 0..N
    BY <1>1
  <2>2. \A x \in S : D(x) <= N
    BY <1>1, <1>3, <1>4
  <2> QED
    BY <2>1, <2>2
<1>9. Walk(o)[N] = g[N]
  <2> HIDE DEF g, o
  <2>1. \A n \in 0..N : Walk(o)[n] = g[n]
    BY <1>1, <1>7, OneWalk DEF N
  <2> QED
    BY <1>1, <2>1
<1>10. Nodes(o) = S
  BY <1>8, <1>9, NodesIsWalk DEF N
<1>11. Ends(o)
  <2>1. o # 0 => \E m \in S : Record(m).ptr = 0
    BY <1>2, <1>4
  <2> HIDE DEF o
  <2> QED
    BY <1>10, <2>1 DEF Ends
<1> QED
  BY <1>3, <1>10, <1>11
-----------------------------------------------------------------------------
(* What the files hold. *)

\* A list that nobody changes is what the lists say (Nodes).
LEMMA UnchangingList ==
    ASSUME NEW s, NEW rk, NEW lp, Ready(s, rk, lp), NEW c \in 0..NHash, Unchanging(c)
    PROVE  Nodes(table[c]) = s[c] /\ Ends(table[c]) /\ IsFiniteSet(s[c])
<1>1. Types /\ Protocol /\ Locking /\ table # <<>> /\ Shape(s, rk, lp)
  BY DEF Ready
<1>2. ASSUME NEW q \in Procs, Unlinking(q) PROVE Chain(q) # c
  <2>1. OnChain(q)
    BY <1>2 DEF Unlinking, OnChain, Chaining
  <2>2. call[q].op # "fetch"
    BY <1>1, <1>2 DEF Protocol, InCallOf, Unlinking
  <2>3. <<q, Chain(q), "w">> \in locks
    BY <1>1, <2>1, <2>2 DEF Locking, LocksOf, Mode
  <2> QED
    BY <2>3 DEF Unchanging
<1>3. \A m \in {c} \cup s[c] : lp[m] = _db_readptr(m)
  <2>1. NotCut(c)
    BY <1>2 DEF NotCut
  <2>2. InTheFile(lp, s[c], c)
    BY <2>1, TruePointers
  <2> QED
    BY <2>2 DEF InTheFile
<1>4. s[c] \in SUBSET Items(Len(rec)) /\ rk \in [0..(NHash + Len(rec)) -> Nat] /\ List(lp, s[c], rk, c)
  <2>1. Typed(s, rk, lp, Len(rec)) /\ Lists(lp, s, rk, Len(rec))
    BY <1>1 DEF Shape
  <2>2. List(lp, s[c], rk, c)
    BY <2>1, ListsAreLists
  <2> QED
    BY <2>1, <2>2 DEF Typed
<1> DEFINE S == s[c]
<1> HIDE DEF S
<1>5. Nodes(table[c]) = S /\ Ends(table[c]) /\ IsFiniteSet(S)
  <2>1. S \in SUBSET Items(Len(rec)) /\ rk \in [0..(NHash + Len(rec)) -> Nat] /\ List(lp, S, rk, c)
        /\ \A m \in {c} \cup S : lp[m] = _db_readptr(m)
    BY <1>3, <1>4 DEF S
  <2> QED
    BY <1>1, <2>1, WalkMeetsAll
<1> QED
  BY <1>5 DEF S

\* On a chain that nobody changes no process is in the middle of a deletion or a
\* store.
LEMMA NobodyChanges ==
    ASSUME Types, Protocol, Locking, NEW c, Unchanging(c), NEW q \in Procs, OnChain(q), call[q].op # "fetch"
    PROVE  Chain(q) # c
<1>1. <<q, Chain(q), "w">> \in locks
  BY DEF Locking, LocksOf, Mode
<1> QED
  BY <1>1 DEF Unchanging

\* The records on a chain that nobody changes are those of the dictionary.
LEMMA ChainIsRight ==
    ASSUME NEW s, NEW rk, NEW lp, Ready(s, rk, lp), NEW c \in 1..NHash, Unchanging(c)
    PROVE  LET on == Nodes(table[c])
               stored == {k \in Keys : Hash[k] = c /\ kv[k] # NONE}
           IN /\ Ends(table[c])
              /\ {Record(o).key : o \in on} = stored
              /\ Cardinality(on) = Cardinality(stored)
              /\ \A o \in on : dat[Record(o).datoff] = kv[Record(o).key]
<1> DEFINE S == s[c]
           stored == {k \in Keys : Hash[k] = c /\ kv[k] # NONE}
           f == [o \in S |-> Key(o)]
<1>1. Types /\ Protocol /\ Locking /\ table # <<>> /\ Shape(s, rk, lp)
  BY DEF Ready
<1>2. c \in 0..NHash
  BY HashAssumption
<1>3. Nodes(table[c]) = S /\ Ends(table[c]) /\ IsFiniteSet(S)
  BY <1>2, UnchangingList
<1>4. \A o \in S : Key(o) \in stored
  BY <1>1 DEF Shape, Contents
<1>5. \A o, o2 \in S : Key(o) = Key(o2) => o = o2
  BY <1>1 DEF Shape, Contents
<1>6. ASSUME NEW k \in stored PROVE \E o \in S : Key(o) = k
  <2>1. \/ \E o \in s[Hash[k]] : Key(o) = k
        \/ \E q \in Procs : Replacing(q) /\ call[q].key = k
    BY <1>1 DEF Shape, Contents
  <2>2. ASSUME NEW q \in Procs, Replacing(q), call[q].key = k PROVE FALSE
    <3>1. OnChain(q)
      BY <2>2 DEF Replacing, OnChain, Chaining, Adding
    <3>2. call[q].op # "fetch"
      BY <1>1, <2>2 DEF Protocol, InCallOf, Replacing, Stores
    <3>3. Chain(q) = c
      BY <2>2 DEF Chain
    <3> QED
      BY <1>1, <3>1, <3>2, <3>3, NobodyChanges
  <2> QED
    BY <2>1, <2>2
<1>7. ASSUME NEW o \in S PROVE dat[Datoff(o)] = kv[Key(o)]
  <2>1. dat[Datoff(o)] = kv[Key(o)] \/ \E q \in Procs : pc[q] = "blank" /\ db[q].idxoff = o
    BY <1>1 DEF Shape, Contents
  <2>2. ASSUME NEW q \in Procs, pc[q] = "blank", db[q].idxoff = o PROVE FALSE
    <3>1. OnChain(q)
      BY <2>2 DEF OnChain, Chaining, Holding
    <3>2. InCallOf(q) /\ Position(q, s, rk, lp)
      BY <1>1 DEF Protocol, Shape
    <3>3. call[q].op # "fetch"
      BY <2>2, <3>2 DEF InCallOf
    <3>4. Chain(q) # c /\ Chain(q) \in 0..NHash
      BY <1>1, <3>1, <3>3, NobodyChanges, CallTypes
    <3>5. o \in s[Chain(q)]
      BY <2>2, <3>2 DEF Position, Holding
    <3> QED
      BY <1>1, <1>2, <3>4, <3>5, ListsApart
  <2> QED
    BY <2>1, <2>2
<1>8. {Record(o).key : o \in S} = stored
  <2> HIDE DEF S, stored
  <2>1. \A o \in S : Record(o).key \in stored
    BY <1>4 DEF Key
  <2>2. \A k \in stored : \E o \in S : Record(o).key = k
    BY <1>6 DEF Key
  <2> QED
    BY <2>1, <2>2
<1>9. Cardinality(S) = Cardinality(stored)
  <2> HIDE DEF S, stored
  <2>1. f \in Surjection(S, stored)
    BY <1>4, <1>6 DEF Surjection
  <2>2. f \in Injection(S, stored)
    BY <1>4, <1>5 DEF Injection, IsInjective
  <2> HIDE DEF f
  <2> QED
    BY <1>3, <2>1, <2>2, FS_Surjection
<1>10. \A o \in S : dat[Record(o).datoff] = kv[Record(o).key]
  BY <1>7 DEF Datoff, Key
<1> HIDE DEF S, stored
<1> QED
  BY <1>3, <1>8, <1>9, <1>10 DEF stored

\* When no call is in progress and no process has died, all space is accounted
\* for: db_store reuses what _db_dodelete has freed.
LEMMA SpaceIsRight ==
    ASSUME NEW s, NEW rk, NEW lp, Ready(s, rk, lp), Settled
    PROVE  /\ UNION {Nodes(table[o]) : o \in 0..NHash} = (NHash + 1)..(NHash + Len(rec))
           /\ Len(dat) = Len(rec)
           /\ {rec[n].datoff : n \in 1..Len(rec)} = 1..Len(dat)
<1> DEFINE N == Len(rec)
           L == Len(dat)
           f == [i \in 1..N |-> rec[i].datoff]
<1>1. Types /\ Protocol /\ Locking /\ table # <<>> /\ Shape(s, rk, lp)
  BY DEF Ready
<1>2. NHash \in Nat /\ N \in Nat /\ L \in Nat
  BY <1>1, RecordTypes
<1>3. \A q \in Procs : ~InHand(q) /\ ~Reserving(q) /\ ~Unlinking(q) /\ pc[q] # "dead"
  BY DEF Settled, InHand, Reserving, Unlinking, Cutting, Reusing
<1>4. ASSUME NEW c \in 0..NHash PROVE Nodes(table[c]) = s[c]
  <2>1. \A m \in {c} \cup s[c] : lp[m] = _db_readptr(m)
    <3>1. NotCut(c)
      BY <1>3 DEF NotCut
    <3>2. InTheFile(lp, s[c], c)
      BY <3>1, TruePointers
    <3> QED
      BY <3>2 DEF InTheFile
  <2>2. Typed(s, rk, lp, N) /\ Lists(lp, s, rk, N)
    BY <1>1 DEF Shape
  <2>3. List(lp, s[c], rk, c)
    BY <2>2, ListsAreLists
  <2>4. s[c] \in SUBSET Items(N) /\ rk \in [0..(NHash + N) -> Nat]
    BY <2>2 DEF Typed
  <2> QED
    BY <1>1, <2>1, <2>3, <2>4, WalkMeetsAll
<1>5. /\ \A o \in Items(N) : Datoff(o) \in 1..L /\ \E c \in 0..NHash : o \in s[c]
      /\ \A o, o2 \in Items(N) : Datoff(o) = Datoff(o2) => o = o2
      /\ \A d \in 1..L : \E o \in Items(N) : Datoff(o) = d
  BY <1>1, <1>3 DEF Shape, Space, NoDead
<1>6. UNION {Nodes(table[o]) : o \in 0..NHash} = Items(N)
  <2>1. \A c \in 0..NHash : s[c] \subseteq Items(N)
    BY <1>1 DEF Shape, Typed
  <2> HIDE DEF N
  <2>2. ASSUME NEW o \in UNION {Nodes(table[c]) : c \in 0..NHash} PROVE o \in Items(N)
    BY <1>4, <2>1
  <2>3. ASSUME NEW o \in Items(N) PROVE o \in UNION {Nodes(table[c]) : c \in 0..NHash}
    BY <1>4, <1>5
  <2> QED
    BY <2>2, <2>3
<1>7. \A i \in 1..N : NHash + i \in Items(N) /\ Datoff(NHash + i) = rec[i].datoff
  <2> SUFFICES ASSUME NEW i \in 1..N PROVE NHash + i \in Items(N) /\ Datoff(NHash + i) = rec[i].datoff
    OBVIOUS
  <2>1. NHash + i \in Items(N) /\ (NHash + i) - NHash = i
    BY <1>2 DEF Items
  <2> QED
    BY <2>1 DEF Datoff, Record
<1>8. \A o \in Items(N) : o - NHash \in 1..N /\ Datoff(o) = rec[o - NHash].datoff
  BY <1>1, RecordTypes DEF Datoff
<1> HIDE DEF N, L
<1>9. \A i \in 1..N : f[i] \in 1..L
  BY <1>5, <1>7
<1>10. \A i, j \in 1..N : f[i] = f[j] => i = j
  <2> SUFFICES ASSUME NEW i \in 1..N, NEW j \in 1..N, f[i] = f[j] PROVE i = j
    OBVIOUS
  <2>1. NHash + i = NHash + j
    BY <1>5, <1>7
  <2> QED
    BY <1>2, <2>1
<1>11. \A d \in 1..L : \E i \in 1..N : f[i] = d
  BY <1>5, <1>8
<1>12. {rec[n].datoff : n \in 1..N} = 1..L
  <2>1. \A i \in 1..N : rec[i].datoff \in 1..L
    BY <1>9
  <2>2. \A d \in 1..L : \E i \in 1..N : rec[i].datoff = d
    BY <1>11
  <2> QED
    BY <2>1, <2>2
<1>13. N = L
  <2>1. f \in Surjection(1..N, 1..L)
    BY <1>9, <1>11 DEF Surjection
  <2>2. f \in Injection(1..N, 1..L)
    BY <1>9, <1>10 DEF Injection, IsInjective
  <2> HIDE DEF f
  <2>3. IsFiniteSet(1..N) /\ Cardinality(1..N) = N /\ Cardinality(1..L) = L
    <3>1. \A n \in Nat : IsFiniteSet(1..n) /\ Cardinality(1..n) = n
      <4> SUFFICES ASSUME NEW n \in Nat PROVE IsFiniteSet(1..n) /\ Cardinality(1..n) = n
        OBVIOUS
      <4>1. 1 \in Int /\ n \in Int
        OBVIOUS
      <4>2. IsFiniteSet(1..n)
        BY <4>1, FS_Interval
      <4>3. Cardinality(1..n) = IF 1 > n THEN 0 ELSE n - 1 + 1
        BY <4>1, FS_Interval
      <4>4. (IF 1 > n THEN 0 ELSE n - 1 + 1) = n
        OBVIOUS
      <4> QED
        BY <4>2, <4>3, <4>4
    <3> QED
      BY <1>2, <3>1
  <2>4. Cardinality(1..N) = Cardinality(1..L)
    BY <2>1, <2>2, <2>3, FS_Surjection
  <2> QED
    BY <2>3, <2>4
<1> QED
  BY <1>6, <1>12, <1>13 DEF N, L, Items

\* "So that no other process gets into the hash chain": a chain that nobody is
\* changing holds the records of its keys, each once, with their data.
THEOREM ChainsHoldTheirRecords == Spec => []ChainsHoldTheRecords
<1>1. DbInv => ChainsHoldTheRecords
  <2> SUFFICES ASSUME DbInv, NEW c \in 1..NHash, Unchanging(c)
               PROVE  LET on == Nodes(table[c])
                          stored == {k \in Keys : Hash[k] = c /\ kv[k] # NONE}
                      IN /\ Ends(table[c])
                         /\ {Record(o).key : o \in on} = stored
                         /\ Cardinality(on) = Cardinality(stored)
                         /\ \A o \in on : dat[Record(o).datoff] = kv[Record(o).key]
    BY DEF ChainsHoldTheRecords
  <2>1. PICK s, rk, lp : Ready(s, rk, lp)
    BY ReadyOrFresh DEF Unchanging
  <2> QED
    BY <2>1, ChainIsRight, Zenon
<1> QED
  BY <1>1, TheDatabaseIsSound, PTL

\* The files are well formed: types, a free list of deleted records, and space
\* neither lost nor used twice.
THEOREM TheFilesAreWellFormed == Spec => []FilesAreWellFormed
<1>1. DbInv => FilesAreWellFormed
  <2> SUFFICES ASSUME DbInv PROVE FilesAreWellFormed
    OBVIOUS
  <2>1. TypeOK
    BY DEF DbInv, Types
  <2>2. table # <<>> => \E s, rk, lp : Ready(s, rk, lp)
    BY ReadyOrFresh
  <2>3. FreeListIsFree
    <3> SUFFICES ASSUME Unchanging(FREE_OFF)
                 PROVE  Ends(table[FREE_OFF]) /\ \A o \in Nodes(table[FREE_OFF]) : Record(o).key = BLANK
      BY DEF FreeListIsFree
    <3>1. PICK s, rk, lp : Ready(s, rk, lp)
      BY <2>2 DEF Unchanging
    <3>2. 0 \in 0..NHash
      BY HashAssumption
    <3>3. Nodes(table[0]) = s[0] /\ Ends(table[0])
      BY <3>1, <3>2, UnchangingList DEF FREE_OFF
    <3>4. \A o \in s[0] : Record(o).key = BLANK
      BY <3>1 DEF Ready, Shape, Contents, Key
    <3> QED
      BY <3>3, <3>4 DEF FREE_OFF
  <2>4. NoSpaceLost
    <3> SUFFICES ASSUME Settled, table # <<>>
                 PROVE  /\ UNION {Nodes(table[o]) : o \in 0..NHash} = (NHash + 1)..(NHash + Len(rec))
                        /\ Len(dat) = Len(rec)
                        /\ {rec[n].datoff : n \in 1..Len(rec)} = 1..Len(dat)
      BY DEF NoSpaceLost
    <3>1. PICK s, rk, lp : Ready(s, rk, lp)
      BY <2>2
    <3> QED
      BY <3>1, SpaceIsRight
  <2> QED
    BY <2>1, <2>3, <2>4 DEF FilesAreWellFormed
<1> QED
  BY <1>1, TheDatabaseIsSound, PTL
-----------------------------------------------------------------------------
(* Locks are given back, and waiting for them comes to an end.              *)

HasLock(q, what) ==
    \/ OnChain(q) /\ what = Chain(q)
    \/ pc[q] \in {"blank", "freewalk"} \cup Cutting /\ what = FREE_OFF
    \/ OnRecords(q) /\ what = FREE_OFF
    \/ pc[q] = "datwrite" /\ what = DatFile
    \/ pc[q] = "idxwrite" /\ what = IdxEnd
    \/ pc[q] = "init" /\ what \in IdxLocks

\* The locks that are held are those of calls that are in progress, each at the
\* step that needs it.
LocksInUse == \A l \in locks : l[1] \in Procs /\ HasLock(l[1], l[2])

Gained(q) ==
    /\ \A r \in Procs : r # q => pc'[r] = pc[r] /\ call'[r] = call[r]
    /\ \A l \in locks' : l \in locks \/ l[1] = q
    /\ \A l \in locks' : l[1] = q => HasLock(q, l[2])'

\* Another process's step neither takes nor needs a process's locks.
LEMMA LocksInUseKept ==
    ASSUME LocksInUse, NEW q \in Procs, Gained(q)
    PROVE  LocksInUse'
<1> SUFFICES ASSUME NEW l \in locks' PROVE l[1] \in Procs /\ HasLock(l[1], l[2])'
  BY DEF LocksInUse
<1>1. CASE l[1] = q
  BY <1>1 DEF Gained
<1>2. CASE l[1] # q
  <2>1. l \in locks
    BY <1>2 DEF Gained
  <2>2. l[1] \in Procs /\ HasLock(l[1], l[2])
    BY <2>1 DEF LocksInUse
  <2>3. pc'[l[1]] = pc[l[1]] /\ call'[l[1]] = call[l[1]]
    BY <1>2, <2>2 DEF Gained
  <2> QED
    BY <2>2, <2>3 DEF HasLock, OnChain, OnRecords, Chain
<1> QED
  BY <1>1, <1>2

\* db_open, db_close, db_rewind and the beginning of db_nextrec.
LEMMA OutsideGains ==
    ASSUME Types, Protocol, LocksInUse, NEW q \in Procs,
           db_open(q) \/ OpenExisting(q) \/ db_close(q) \/ db_rewind(q) \/ db_nextrec(q) \/ OpenStat(q) \/ OpenInit(q)
    PROVE  Gained(q)
<1> USE DEF HasLock, OnChain, OnRecords, Chaining, Holding, Cutting, Adding, Reusing, Appending, Reading, Chain
<1>1. pc \in [Procs -> Pcs] /\ call' = call
  BY DEF Types, TypeOK, db_open, OpenExisting, db_close, db_rewind, db_nextrec, OpenStat, OpenInit
<1>2. \A l \in locks : HasLock(l[1], l[2])
  BY DEF LocksInUse
<1>3. CASE db_open(q) \/ OpenExisting(q) \/ db_close(q) \/ db_rewind(q)
  <2>1. locks' = locks /\ pc[q] \in {"closed", "idle"} /\ \E x : pc' = [pc EXCEPT ![q] = x] \/ pc' = pc
    BY <1>3 DEF db_open, OpenExisting, db_close, db_rewind, Goto
  <2>2. \A l \in locks : l[1] # q
    BY <1>2, <2>1
  <2> QED
    BY <1>1, <2>1, <2>2 DEF Gained
<1>4. CASE db_nextrec(q)
  <2>1. locks' = locks \cup {<<q, FREE_OFF, "r">>} /\ pc[q] = "idle" /\ pc' = [pc EXCEPT ![q] = "next"]
    BY <1>4 DEF db_nextrec, Lock, Goto
  <2>2. \A l \in locks : l[1] # q
    BY <1>2, <2>1
  <2> QED
    BY <1>1, <2>1, <2>2 DEF Gained
<1>5. CASE OpenStat(q)
  <2>1. pc[q] = "stat" /\ \/ locks' = locks \cup {<<q, l, "w">> : l \in IdxLocks} /\ pc' = [pc EXCEPT ![q] = "init"]
                          \/ locks' = locks /\ pc' = [pc EXCEPT ![q] = "idle"]
    BY <1>5 DEF OpenStat, Goto
  <2>2. \A l \in locks : l[1] # q
    BY <1>2, <2>1
  <2> QED
    BY <1>1, <2>1, <2>2 DEF Gained
<1>6. CASE OpenInit(q)
  <2>1. locks' = {l \in locks : l[1] # q} /\ pc' = [pc EXCEPT ![q] = "idle"]
    BY <1>6 DEF OpenInit, ReleaseAll, Goto
  <2> QED
    BY <1>1, <2>1 DEF Gained
<1> QED
  BY <1>3, <1>4, <1>5, <1>6

\* _db_find_and_lock takes the lock of its chain.
LEMMA FindGains ==
    ASSUME Types, Protocol, LocksInUse, NEW q \in Procs, NEW c, NEW mode, c.op # "nextrec", _db_find_and_lock(q, c, mode)
    PROVE  Gained(q)
<1> USE DEF HasLock, OnChain, OnRecords, Chaining, Holding, Cutting, Adding, Reusing, Appending, Reading
<1>1. /\ locks' = locks \cup {<<q, Hash[c.key], mode>>} /\ pc[q] = "idle"
      /\ pc' = [pc EXCEPT ![q] = "walk"] /\ call' = [call EXCEPT ![q] = c]
  BY DEF _db_find_and_lock, Lock, Goto
<1>2. \A l \in locks : l[1] # q
  BY <1>1 DEF LocksInUse
<1>3. /\ pc'[q] = "walk" /\ call'[q] = c
      /\ \A r \in Procs : r # q => pc'[r] = pc[r] /\ call'[r] = call[r]
  BY <1>1 DEF Types, TypeOK
<1>4. HasLock(q, Hash[c.key])'
  BY <1>3 DEF Chain
<1> QED
  BY <1>1, <1>2, <1>3, <1>4 DEF Gained

\* The steps of a call that keep its locks, or end with them.
LEMMA KeepingGains ==
    ASSUME Types, Protocol, LocksInUse, NEW q \in Procs,
           \/ NotFound(q) \/ ReadUnequal(q) \/ Found(q) \/ _db_readdat(q) \/ DelIdx(q) \/ DelFree(q) \/ FreeUnfit(q)
           \/ ReuseDat(q) \/ ReuseIdx(q) \/ Link(q) \/ Overwrite(q)
    PROVE  Gained(q)
<1> USE DEF HasLock, OnChain, OnRecords, Chaining, Holding, Cutting, Adding, Reusing, Appending, Reading
<1>1. InCallOf(q)
  BY DEF Protocol
<1>2. locks' = locks /\ call' = call
  BY DEF NotFound, ReadUnequal, Found, _db_readdat, DelIdx, DelFree, FreeUnfit, ReuseDat, ReuseIdx, Link, Overwrite
<1>3. /\ pc[q] \in Chaining /\ pc[q] \notin {"datwrite", "idxwrite"}
      /\ (\E x : pc' = [pc EXCEPT ![q] = x]) \/ pc' = pc
  BY DEF NotFound, ReadUnequal, Found, _db_readdat, DelIdx, DelFree, FreeUnfit, ReuseDat, ReuseIdx, Link, Overwrite, Answer, Goto
<1>4. \A r \in Procs : r # q => pc'[r] = pc[r]
  BY <1>3 DEF Types, TypeOK
<1>5. call[q].op # "nextrec"
  BY <1>1, <1>3 DEF InCallOf
<1>6. /\ pc'[q] \in Chaining \cup {"unlock"}
      /\ pc[q] \in {"blank", "freewalk"} \cup Cutting => pc'[q] \in {"blank", "freewalk"} \cup Cutting
  BY DEF NotFound, ReadUnequal, Found, _db_readdat, DelIdx, DelFree, FreeUnfit, ReuseDat, ReuseIdx, Link, Overwrite,
         Answer, Goto, Types, TypeOK
<1>7. ASSUME NEW l \in locks, l[1] = q PROVE HasLock(q, l[2])'
  <2>1. HasLock(q, l[2])
    BY <1>7 DEF LocksInUse
  <2>2. Chain(q)' = Chain(q)
    BY <1>2 DEF Chain
  <2> QED
    BY <1>2, <1>3, <1>5, <1>6, <2>1, <2>2
<1> QED
  BY <1>2, <1>4, <1>7 DEF Gained

\* Those that take a second lock.
LEMMA TakingGains ==
    ASSUME Types, Protocol, LocksInUse, NEW q \in Procs,
           DelData(q) \/ _db_findfree(q) \/ (pc[q] = "datseek" /\ _db_writedat(q)) \/ (pc[q] = "idxseek" /\ _db_writeidx(q))
    PROVE  Gained(q)
<1> USE DEF HasLock, OnChain, OnRecords, Chaining, Holding, Cutting, Adding, Reusing, Appending, Reading
<1>1. PICK what, x : /\ locks' = locks \cup {<<q, what, "w">>} /\ call' = call /\ pc' = [pc EXCEPT ![q] = x]
                     /\ \/ pc[q] = "delete" /\ x = "blank" /\ what = FREE_OFF
                        \/ pc[q] = "findfree" /\ x = "freewalk" /\ what = FREE_OFF
                        \/ pc[q] = "datseek" /\ x = "datwrite" /\ what = DatFile
                        \/ pc[q] = "idxseek" /\ x = "idxwrite" /\ what = IdxEnd
  BY DEF DelData, _db_findfree, _db_writedat, _db_writeidx, Lock, Goto
<1>2. pc'[q] = x /\ \A r \in Procs : r # q => pc'[r] = pc[r]
  BY <1>1 DEF Types, TypeOK
<1>3. Chain(q)' = Chain(q)
  BY <1>1 DEF Chain
<1>4. ASSUME NEW l \in locks, l[1] = q PROVE HasLock(q, l[2])'
  <2>1. HasLock(q, l[2])
    BY <1>4 DEF LocksInUse
  <2>2. l[2] = Chain(q)
    BY <1>1, <2>1
  <2> QED
    BY <1>1, <1>2, <1>3, <2>2
<1>5. HasLock(q, what)'
  BY <1>1, <1>2
<1> QED
  BY <1>1, <1>2, <1>4, <1>5 DEF Gained

\* Those that give it back.
LEMMA GivingGains ==
    ASSUME Types, Protocol, LocksInUse, NEW q \in Procs,
           \/ DelChain(q) \/ NoneFree(q) \/ TakeFree(q)
           \/ (pc[q] = "datwrite" /\ _db_writedat(q)) \/ (pc[q] = "idxwrite" /\ _db_writeidx(q))
    PROVE  Gained(q)
<1> USE DEF HasLock, OnChain, OnRecords, Chaining, Holding, Cutting, Adding, Reusing, Appending, Reading
<1>1. PICK what, x : /\ locks' = {l \in locks : ~(l[1] = q /\ l[2] = what)} /\ call' = call /\ pc' = [pc EXCEPT ![q] = x]
                     /\ \/ pc[q] = "unchain" /\ x = "unlock" /\ what = FREE_OFF
                        \/ pc[q] = "unchain" /\ x = "datseek" /\ what = FREE_OFF
                        \/ pc[q] = "freewalk" /\ x \in {"datseek", "reusedat"} /\ what = FREE_OFF
                        \/ pc[q] = "datwrite" /\ x = "idxseek" /\ what = DatFile
                        \/ pc[q] = "idxwrite" /\ x = "link" /\ what = IdxEnd
  BY DEF DelChain, NoneFree, TakeFree, _db_writedat, _db_writeidx, Release, Goto, Answer
<1>2. pc'[q] = x /\ \A r \in Procs : r # q => pc'[r] = pc[r]
  BY <1>1 DEF Types, TypeOK
<1>3. Chain(q)' = Chain(q)
  BY <1>1 DEF Chain
<1>4. call[q].op # "nextrec"
  <2>1. InCallOf(q)
    BY DEF Protocol
  <2> QED
    BY <1>1, <2>1 DEF InCallOf
<1>5. ASSUME NEW l \in locks', l[1] = q PROVE HasLock(q, l[2])'
  <2>1. l[2] # what
    BY <1>1, <1>5
  <2>2. HasLock(q, l[2])
    BY <1>1, <1>5 DEF LocksInUse
  <2>3. l[2] = Chain(q)
    BY <1>1, <2>1, <2>2
  <2> QED
    BY <1>1, <1>2, <1>3, <1>4, <2>3
<1> QED
  BY <1>1, <1>2, <1>5 DEF Gained

\* And the ends of calls.
LEMMA EndingGains ==
    ASSUME Types, Protocol, LocksInUse, NEW q \in Procs,
           Unlock(q) \/ IndexFull(q) \/ Crash(q) \/ NextLost(q)
    PROVE  Gained(q)
<1> USE DEF HasLock, OnChain, OnRecords, Chaining, Holding, Cutting, Adding, Reusing, Appending, Reading
<1>1. CASE IndexFull(q) \/ Crash(q) \/ NextLost(q)
  <2>1. locks' = {l \in locks : l[1] # q} /\ call' = call /\ \E x : pc' = [pc EXCEPT ![q] = x]
    BY <1>1 DEF IndexFull, Crash, Die, NextLost, ReleaseAll, Goto
  <2> QED
    BY <2>1 DEF Gained, Types, TypeOK
<1>2. CASE Unlock(q)
  <2>1. /\ pc[q] = "unlock" /\ pc' = [pc EXCEPT ![q] = "idle"]
        /\ locks' = {l \in locks : ~(l[1] = q /\ l[2] = IF call[q].op = "nextrec" THEN FREE_OFF ELSE Chain(q))}
        /\ call' = [call EXCEPT ![q] = NoCall]
    BY <1>2 DEF Unlock, Release, Goto
  <2>2. ASSUME NEW l \in locks', l[1] = q PROVE FALSE
    <3>1. HasLock(q, l[2])
      BY <2>1, <2>2 DEF LocksInUse
    <3> QED
      BY <2>1, <2>2, <3>1
  <2> QED
    BY <2>1, <2>2 DEF Gained, Types, TypeOK
<1> QED
  BY <1>1, <1>2

\* The steps of db_nextrec.
LEMMA NextGains ==
    ASSUME Types, Protocol, LocksInUse, NEW q \in Procs, NextEOF(q) \/ NextBlank(q) \/ NextIdx(q) \/ NextDat(q)
    PROVE  Gained(q)
<1> USE DEF HasLock, OnChain, OnRecords, Chaining, Holding, Cutting, Adding, Reusing, Appending, Reading
<1>1. pc[q] \in Reading /\ locks' = locks
  BY DEF NextEOF, NextBlank, NextIdx, NextDat
<1>2. call[q].op = "nextrec"
  BY <1>1 DEF Protocol, InCallOf
<1>3. /\ pc'[q] \in {"next", "nextdat", "unlock"} /\ call'[q].op = "nextrec"
      /\ \A r \in Procs : r # q => pc'[r] = pc[r] /\ call'[r] = call[r]
  BY <1>1, <1>2 DEF NextEOF, NextBlank, NextIdx, NextDat, Answer, Goto, Types, TypeOK
<1>4. ASSUME NEW l \in locks, l[1] = q PROVE l[2] = FREE_OFF
  <2>1. HasLock(q, l[2])
    BY <1>4 DEF LocksInUse
  <2> QED
    BY <1>1, <2>1
<1> QED
  BY <1>1, <1>3, <1>4 DEF Gained

\* A step of any process leaves no lock behind that its call does not need.
LEMMA LocksStep == DbInv /\ LocksInUse /\ [Next]_vars => LocksInUse'
<1> SUFFICES ASSUME DbInv, LocksInUse, [Next]_vars PROVE LocksInUse'
  OBVIOUS
<1>1. Types /\ Protocol
  BY DEF DbInv
<1>2. CASE UNCHANGED vars
  BY <1>2 DEF vars, LocksInUse, HasLock, OnChain, OnRecords, Chain
<1>3. ASSUME Next PROVE \E p \in Procs : Gained(p)
  <2>1. PICK p \in Procs :
           \/ db_open(p) \/ OpenExisting(p) \/ db_close(p)
           \/ \E k \in Keys :
                 \/ db_fetch(p, k) \/ db_delete(p, k)
                 \/ \E d \in Data, flag \in {"insert", "replace", "store"} : db_store(p, k, d, flag)
           \/ db_rewind(p) \/ db_nextrec(p)
           \/ Step(p) \/ Crash(p)
    BY <1>3 DEF Next
  <2>2. CASE db_open(p) \/ OpenExisting(p) \/ db_close(p) \/ db_rewind(p) \/ db_nextrec(p)
    BY <1>1, <2>2, OutsideGains
  <2>3. ASSUME NEW k \in Keys,
               \/ db_fetch(p, k) \/ db_delete(p, k)
               \/ \E d \in Data, flag \in {"insert", "replace", "store"} : db_store(p, k, d, flag)
        PROVE  Gained(p)
    <3>1. CASE db_fetch(p, k)
      BY <1>1, <3>1, FindGains DEF db_fetch
    <3>2. CASE db_delete(p, k)
      BY <1>1, <3>2, FindGains DEF db_delete
    <3>3. ASSUME NEW d \in Data, NEW flag \in {"insert", "replace", "store"}, db_store(p, k, d, flag)
          PROVE  Gained(p)
      BY <1>1, <3>3, FindGains DEF db_store
    <3> QED
      BY <2>3, <3>1, <3>2, <3>3
  <2>4. CASE Crash(p)
    BY <1>1, <2>4, EndingGains
  <2>5. CASE Step(p)
    <3>1. CASE OpenStat(p) \/ OpenInit(p)
      BY <1>1, <3>1, OutsideGains
    <3>2. CASE \/ NotFound(p) \/ ReadUnequal(p) \/ Found(p) \/ _db_readdat(p) \/ DelIdx(p) \/ DelFree(p)
               \/ FreeUnfit(p) \/ ReuseDat(p) \/ ReuseIdx(p) \/ Link(p) \/ Overwrite(p)
      BY <1>1, <3>2, KeepingGains
    <3>3. CASE DelData(p) \/ _db_findfree(p)
      BY <1>1, <3>3, TakingGains
    <3>4. CASE DelChain(p) \/ NoneFree(p) \/ TakeFree(p)
      BY <1>1, <3>4, GivingGains
    <3>5. CASE _db_writedat(p)
      <4>1. pc[p] = "datseek" \/ pc[p] = "datwrite"
        BY <3>5 DEF _db_writedat
      <4> QED
        BY <1>1, <3>5, <4>1, TakingGains, GivingGains
    <3>6. CASE _db_writeidx(p)
      <4>1. pc[p] = "idxseek" \/ pc[p] = "idxwrite"
        BY <3>6 DEF _db_writeidx
      <4> QED
        BY <1>1, <3>6, <4>1, TakingGains, GivingGains
    <3>7. CASE Unlock(p) \/ IndexFull(p) \/ NextLost(p)
      BY <1>1, <3>7, EndingGains
    <3>8. CASE NextEOF(p) \/ NextBlank(p) \/ NextIdx(p) \/ NextDat(p)
      BY <1>1, <3>8, NextGains
    <3> QED
      BY <2>5, <3>1, <3>2, <3>3, <3>4, <3>5, <3>6, <3>7, <3>8 DEF Step
  <2> QED
    BY <2>1, <2>2, <2>3, <2>4, <2>5
<1> QED
  BY <1>2, <1>3, LocksInUseKept

\* The process is at a writew_lock that another process's lock keeps from it.
Waiting(p) ==
    \/ pc[p] = "stat" /\ \E l \in IdxLocks : ~CanLock(p, l, "w")
    \/ pc[p] \in {"delete", "findfree"} /\ ~CanLock(p, FREE_OFF, "w")
    \/ pc[p] = "datseek" /\ ~CanLock(p, DatFile, "w")
    \/ pc[p] = "idxseek" /\ ~CanLock(p, IdxEnd, "w")

\* Who holds the free list, or the end of a file, waits for nothing.
LEMMA LastLocksAreFreed ==
    ASSUME Protocol, LocksInUse, NEW p, NEW what \in {FREE_OFF, DatFile, IdxEnd}, ~CanLock(p, what, "w")
    PROVE  \E r \in InCall : ~Waiting(r)
<1>1. PICK l \in locks : l[2] = what
  BY DEF CanLock
<1>2. l[1] \in Procs /\ HasLock(l[1], what)
  BY <1>1 DEF LocksInUse
<1> DEFINE r == l[1]
<1>3. ~(OnChain(r) /\ what = Chain(r))
  <2> SUFFICES ASSUME OnChain(r), what = Chain(r) PROVE FALSE
    OBVIOUS
  <2>1. call[r].key \in Keys
    BY <1>2 DEF Protocol, InCallOf
  <2>2. Chain(r) \in 1..NHash
    BY <2>1, HashAssumption DEF Chain
  <2> QED
    BY <2>2, HashAssumption DEF FREE_OFF, DatFile, IdxEnd
<1>4. pc[r] \in {"blank", "freewalk", "free", "unchain", "next", "nextdat", "unlock", "datwrite", "idxwrite", "init"}
  BY <1>2, <1>3 DEF HasLock, OnRecords, Cutting, Reading
<1> QED
  BY <1>2, <1>4 DEF InCall, Waiting

\* The processes in calls never all wait for each other's locks, nor for one that
\* a call left behind: a call that has a chain locked waits only for the free list
\* or for the end of a file, whose holders wait for nothing.
THEOREM SomeoneHasItsLocks == Spec => [](InCall # {} => \E p \in InCall : ~Waiting(p))
<1>1. Init => LocksInUse
  BY DEF Init, LocksInUse
<1>2. Spec => []LocksInUse
  BY <1>1, LocksStep, TheDatabaseIsSound, PTL DEF Spec
<1>3. DbInv /\ LocksInUse => (InCall # {} => \E p \in InCall : ~Waiting(p))
  <2> SUFFICES ASSUME Protocol, LocksInUse, NEW p \in InCall, Waiting(p)
               PROVE  \E r \in InCall : ~Waiting(r)
    BY DEF DbInv
  <2>1. CASE pc[p] # "stat"
    BY <2>1, LastLocksAreFreed DEF Waiting
  <2>2. CASE pc[p] = "stat"
    <3>1. PICK what \in IdxLocks : ~CanLock(p, what, "w")
      BY <2>2 DEF Waiting
    <3>2. PICK l \in locks : l[2] = what
      BY <3>1 DEF CanLock
    <3>3. l[1] \in Procs /\ HasLock(l[1], what)
      BY <3>2 DEF LocksInUse
    <3>4. l[1] \in InCall /\ pc[l[1]] # "stat"
      BY <3>3 DEF InCall, HasLock, OnChain, OnRecords, Chaining, Holding, Cutting, Adding, Reusing, Appending, Reading
    <3>5. CASE Waiting(l[1])
      BY <3>4, <3>5, LastLocksAreFreed DEF Waiting
    <3> QED
      BY <3>4, <3>5
  <2> QED
    BY <2>1, <2>2
<1> QED
  BY <1>2, <1>3, TheDatabaseIsSound, PTL
=============================================================================
