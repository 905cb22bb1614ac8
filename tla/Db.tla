--------------------------------- MODULE Db ---------------------------------
(***************************************************************************)
(* The database library of db/db.c: an index file (free list pointer, hash *)
(* table, index records) and a data file, used by several processes at the *)
(* same time under fcntl record locks (lib/lockreg.c).                     *)
(*                                                                         *)
(* Offsets in the index file are counted in items: 0 is the free list      *)
(* pointer, 1..NHash the chain pointers of the hash table, and NHash + n   *)
(* the n-th index record; as in the code a pointer of 0 ends a list.       *)
(* Offsets in the data file count data records.  Keys and data keep their  *)
(* length, which decides where a record can be stored.  A step is one      *)
(* access to a file; an access that follows the acquisition of the lock    *)
(* that protects it, or precedes its release, is part of that step.        *)
(***************************************************************************)
EXTENDS Naturals, Sequences, FiniteSets

CONSTANTS Procs, Keys, Data,
          NONE,           \* no record, no answer
          BLANK,          \* the key and the data of a deleted record
          NHash,          \* length of the hash table
          Hash,           \* the chain of a key, 1..NHash
          KeyLen, DatLen, \* lengths of keys and data
          PtrMax,         \* PTR_MAX, in items
          Databases,      \* files that earlier programs may have left
          Scanners,       \* processes that step through the records
          MaxCalls,       \* bound: calls of all processes
          MaxDeaths       \* bound: processes that die in a call

ASSUME HashAssumption == NHash \in Nat /\ Hash \in [Keys -> 1..NHash]
ASSUME LengthAssumption == KeyLen \in [Keys -> Nat] /\ DatLen \in [Data -> Nat]
ASSUME NoneAssumption == NONE \notin Data \cup Keys /\ BLANK \notin Data \cup Keys
ASSUME BoundAssumption == PtrMax \in Nat /\ MaxCalls \in Nat /\ MaxDeaths \in Nat

FREE_OFF == 0
IdxEnd == NHash + 1      \* lock on the index file from the records on
DatFile == NHash + 2     \* lock on the data file
IdxLocks == FREE_OFF..IdxEnd
Lost == 0                \* a file offset that is not the start of a record

VARIABLES
    table,     \* index file: free list and chain pointers; <<>> when empty
    rec,       \* index file: the records
    dat,       \* data file
    locks,     \* fcntl locks: <<process, what, "r" or "w">>
    pc,
    call,      \* the call a process makes: [op, key, data]
    db,        \* its DB structure
    result,    \* what its call answers, from the moment that is settled
    kv,        \* history: the dictionary the callers see
    steady,    \* history: records not touched since a process rewound, while
               \* that process only calls db_nextrec
    seen,      \* history: records db_nextrec gave it since then
    scanning,  \* the process has rewound and not met the end
    calls, deaths

files == <<table, rec, dat>>
history == <<kv, steady, seen, scanning>>
bounds == <<calls, deaths>>
vars == <<files, locks, pc, call, db, result, history, bounds>>

Records == [ptr : Nat, key : Keys \cup {BLANK}, klen : Nat, datoff : Nat,
            datlen : Nat]
Values == Data \cup {NONE}
Pcs == {"closed", "stat", "init", "idle", "walk", "readdat", "delete", "blank",
        "free", "unchain", "findfree", "freewalk", "reusedat", "reuseidx",
        "datseek", "datwrite", "idxseek", "idxwrite", "link", "overwrite",
        "next", "nextdat", "unlock", "dead", "aborted"}
Ops == {"fetch", "delete", "insert", "replace", "store", "nextrec"}
NoCall == [op |-> "nextrec", key |-> NONE, data |-> NONE]
NewDb == [ptroff |-> 0, next |-> 0, idxoff |-> 0, ptrval |-> 0, datoff |-> 0,
          datlen |-> 0, link |-> 0, pos |-> NHash + 1]

-----------------------------------------------------------------------------
(* The files that are there when the programs start. *)

\* The lists of an index file of n records, where ptr has the pointer at each
\* offset: the records on list c are s[c], and rk falls along a list, from the
\* list's own pointer to its end, without passing a record by.
Items(n) == (NHash + 1)..(NHash + n)
Lists(ptr, s, rk, n) ==
    /\ \A c, d \in 0..NHash : c # d => s[c] \cap s[d] = {}
    /\ \A c \in 0..NHash : s[c] \subseteq Items(n)
    /\ \A c \in 0..NHash : \A m \in {c} \cup s[c] :
          /\ ptr[m] # 0 => ptr[m] \in s[c] /\ rk[ptr[m]] < rk[m]
          /\ \A o \in s[c] : /\ rk[o] < rk[m] => ptr[m] # 0 /\ rk[o] <= rk[ptr[m]]
                             /\ rk[o] = rk[m] => o = m
                             /\ rk[o] < rk[c]

\* What programs leave that used the library and ended: every record is on one
\* list, that of its key or the free list, and has its own place in the data file.
Pointers(f) == [o \in 0..(NHash + Len(f.rec)) |-> IF o <= NHash THEN f.table[o] ELSE f.rec[o - NHash].ptr]
Intact(f) ==
    /\ f.table \in [0..NHash -> Nat] /\ f.rec \in Seq(Records)
    /\ f.dat \in Seq(Data \cup {BLANK}) /\ f.kv \in [Keys -> Values]
    /\ \A i, j \in 1..Len(f.rec) : f.rec[i].datoff = f.rec[j].datoff => i = j
    /\ {f.rec[i].datoff : i \in 1..Len(f.rec)} = 1..Len(f.dat)
    /\ \E s \in [0..NHash -> SUBSET Items(Len(f.rec))] :
          /\ UNION {s[c] : c \in 0..NHash} = Items(Len(f.rec))
          /\ \A o \in s[0] : f.rec[o - NHash].key = BLANK
          /\ \A c \in 1..NHash : \A o \in s[c] :
                LET r == f.rec[o - NHash]
                IN  /\ r.key \in Keys /\ Hash[r.key] = c
                    /\ f.kv[r.key] # NONE /\ f.kv[r.key] = f.dat[r.datoff]
                    /\ \A o2 \in s[c] : f.rec[o2 - NHash].key = r.key => o2 = o
          /\ \A k \in Keys : f.kv[k] # NONE => \E o \in s[Hash[k]] : f.rec[o - NHash].key = k
          /\ \E rk \in [0..(NHash + Len(f.rec)) -> 0..(Len(f.rec) + 1)] : Lists(Pointers(f), s, rk, Len(f.rec))
Blank(f) == f.table = <<>> /\ f.rec = <<>> /\ f.dat = <<>> /\ f.kv = [k \in Keys |-> NONE]

ASSUME DatabaseAssumption == \A f \in Databases : Blank(f) \/ Intact(f)

Init ==
    /\ \E f \in Databases :
          table = f.table /\ rec = f.rec /\ dat = f.dat /\ kv = f.kv
    /\ locks = {}
    /\ pc = [p \in Procs |-> "closed"]
    /\ call = [p \in Procs |-> NoCall]
    /\ db = [p \in Procs |-> NewDb]
    /\ result = [p \in Procs |-> NONE]
    /\ steady = [p \in Procs |-> {}] /\ seen = [p \in Procs |-> {}]
    /\ scanning = [p \in Procs |-> FALSE]
    /\ calls = 0 /\ deaths = 0

-----------------------------------------------------------------------------
(* Locks and pointer fields. *)

CanLock(p, what, mode) ==
    \A l \in locks : l[2] = what /\ l[1] # p => mode = "r" /\ l[3] = "r"

Lock(p, what, mode) ==
    CanLock(p, what, mode) /\ locks' = locks \cup {<<p, what, mode>>}

Release(p, what) == locks' = {l \in locks : ~(l[1] = p /\ l[2] = what)}
ReleaseAll(p) == locks' = {l \in locks : l[1] # p}

Record(o) == rec[o - NHash]
_db_readptr(o) == IF o <= NHash THEN table[o] ELSE Record(o).ptr

_db_writeptr(o, v) ==
    IF o <= NHash
    THEN table' = [table EXCEPT ![o] = v] /\ UNCHANGED rec
    ELSE rec' = [rec EXCEPT ![o - NHash].ptr = v] /\ UNCHANGED table

\* write(2) at an offset: over what is there, or at the end.
Put(file, n, v) == IF n <= Len(file) THEN [file EXCEPT ![n] = v] ELSE Append(file, v)

Goto(p, l) == pc' = [pc EXCEPT ![p] = l]

Answer(p, a) ==
    /\ result' = [result EXCEPT ![p] = <<call[p].op, call[p].key, a>>]
    /\ Goto(p, "unlock")

Chain(p) == Hash[call[p].key]
Size(p) == DatLen[call[p].data]

-----------------------------------------------------------------------------
(* db_open, db_close and the calls' beginnings. *)

\* O_CREAT | O_TRUNC.  The files are truncated before the lock is taken, so the
\* programs must not create the database while another one uses it.
db_open(p) ==
    /\ pc[p] = "closed" /\ \A q \in Procs : pc[q] \in {"closed", "stat", "dead"}
    /\ calls < MaxCalls /\ calls' = calls + 1
    /\ table' = <<>> /\ rec' = <<>> /\ dat' = <<>>
    /\ kv' = [k \in Keys |-> NONE]
    /\ Goto(p, "stat")
    /\ UNCHANGED <<locks, call, db, result, steady, seen, scanning, deaths>>

\* "Write lock the entire file so that we can stat it, check its size, and
\* initialize it, atomically."
OpenStat(p) ==
    /\ pc[p] = "stat" /\ \A l \in IdxLocks : CanLock(p, l, "w")
    /\ IF table = <<>>
       THEN locks' = locks \cup {<<p, l, "w">> : l \in IdxLocks} /\ Goto(p, "init")
       ELSE UNCHANGED locks /\ Goto(p, "idle")
    /\ UNCHANGED <<files, call, db, result, history, bounds>>

OpenInit(p) ==
    /\ pc[p] = "init"
    /\ table' = [o \in 0..NHash |-> 0]
    /\ ReleaseAll(p)
    /\ Goto(p, "idle")
    /\ UNCHANGED <<rec, dat, call, db, result, history, bounds>>

\* Without O_TRUNC: the database is there.
OpenExisting(p) ==
    /\ pc[p] = "closed" /\ table # <<>>
    /\ Goto(p, "idle")
    /\ UNCHANGED <<files, locks, call, db, result, history, bounds>>

db_close(p) ==
    /\ pc[p] = "idle"
    /\ db' = [db EXCEPT ![p] = NewDb]
    /\ scanning' = [scanning EXCEPT ![p] = FALSE]
    /\ Goto(p, "closed")
    /\ UNCHANGED <<files, locks, call, result, kv, steady, seen, bounds>>

\* The start of _db_find_and_lock: lock the chain, read its pointer.
_db_find_and_lock(p, c, mode) ==
    /\ pc[p] = "idle"
    /\ calls < MaxCalls /\ calls' = calls + 1
    /\ Lock(p, Hash[c.key], mode)
    /\ call' = [call EXCEPT ![p] = c]
    /\ db' = [db EXCEPT ![p].ptroff = Hash[c.key], ![p].pos = Lost,
                        ![p].next = _db_readptr(Hash[c.key])]
    /\ Goto(p, "walk")
    /\ steady' = [q \in Procs |-> IF q = p THEN {}
                                   ELSE IF c.op = "fetch" THEN steady[q]
                                   ELSE steady[q] \ {c.key}]
    /\ UNCHANGED <<files, result, kv, seen, scanning, deaths>>

\* Mutant: the chain is not locked.
MutFetchUnlocked(p, k) ==
    /\ pc[p] = "idle"
    /\ calls < MaxCalls /\ calls' = calls + 1
    /\ call' = [call EXCEPT ![p] = [op |-> "fetch", key |-> k, data |-> NONE]]
    /\ db' = [db EXCEPT ![p].ptroff = Hash[k], ![p].pos = Lost,
                        ![p].next = _db_readptr(Hash[k])]
    /\ Goto(p, "walk")
    /\ UNCHANGED <<files, locks, result, kv, steady, seen, scanning, deaths>>

db_fetch(p, k) ==
    _db_find_and_lock(p, [op |-> "fetch", key |-> k, data |-> NONE], "r")

db_delete(p, k) ==
    _db_find_and_lock(p, [op |-> "delete", key |-> k, data |-> NONE], "w")

db_store(p, k, d, flag) ==
    _db_find_and_lock(p, [op |-> flag, key |-> k, data |-> d], "w")

\* un_lock and return.  Every call sets the fields of DB before it uses them,
\* but for the file offset; the others are cleared here.
Unlock(p) ==
    /\ pc[p] = "unlock"
    /\ Release(p, IF call[p].op = "nextrec" THEN FREE_OFF ELSE Chain(p))
    /\ call' = [call EXCEPT ![p] = NoCall]
    /\ db' = [db EXCEPT ![p] = [NewDb EXCEPT !.pos = db[p].pos]]
    /\ result' = [result EXCEPT ![p] = NONE]
    /\ Goto(p, "idle")
    /\ UNCHANGED <<files, history, bounds>>

-----------------------------------------------------------------------------
(* The rest of _db_find_and_lock and the calls' decisions. *)

NotFound(p) ==
    /\ pc[p] = "walk" /\ db[p].next = 0
    /\ CASE call[p].op = "fetch" -> Answer(p, NONE) /\ UNCHANGED db
         [] call[p].op \in {"delete", "replace"} -> Answer(p, "ENOENT") /\ UNCHANGED db
         [] OTHER -> /\ db' = [db EXCEPT ![p].link = table[Chain(p)]]
                     /\ Goto(p, "findfree") /\ UNCHANGED result
    /\ UNCHANGED <<files, locks, call, history, bounds>>

ReadUnequal(p) ==
    LET o == db[p].next IN
    /\ pc[p] = "walk" /\ o # 0 /\ Record(o).key # call[p].key
    /\ db' = [db EXCEPT ![p].ptroff = o, ![p].next = Record(o).ptr, ![p].pos = o + 1]
    /\ UNCHANGED <<files, locks, pc, call, result, history, bounds>>

Found(p) ==
    LET o == db[p].next IN
    /\ pc[p] = "walk" /\ o # 0 /\ Record(o).key = call[p].key
    /\ db' = [db EXCEPT ![p].idxoff = o, ![p].ptrval = Record(o).ptr, ![p].pos = o + 1,
                        ![p].datoff = Record(o).datoff, ![p].datlen = Record(o).datlen]
    /\ CASE call[p].op = "fetch" -> Goto(p, "readdat") /\ UNCHANGED result
         [] call[p].op = "delete" -> Goto(p, "delete") /\ UNCHANGED result
         [] call[p].op = "insert" -> Answer(p, "exists")
         [] OTHER -> /\ Goto(p, IF Size(p) # Record(o).datlen THEN "delete" ELSE "overwrite")
                     /\ UNCHANGED result
    /\ UNCHANGED <<files, locks, call, history, bounds>>

\* db_fetch.
_db_readdat(p) ==
    /\ pc[p] = "readdat"
    /\ Answer(p, dat[db[p].datoff])
    /\ UNCHANGED <<files, locks, call, db, history, bounds>>

-----------------------------------------------------------------------------
(* _db_dodelete: blank the data and the key, put the record on the free    *)
(* list, take it off its chain.                                            *)

DelData(p) ==
    /\ pc[p] = "delete"
    /\ Lock(p, FREE_OFF, "w")
    /\ dat' = [dat EXCEPT ![db[p].datoff] = BLANK]
    /\ Goto(p, "blank")
    /\ UNCHANGED <<table, rec, call, db, result, history, bounds>>

DelIdx(p) ==
    LET n == db[p].idxoff - NHash IN
    /\ pc[p] = "blank"
    /\ rec' = [rec EXCEPT ![n].key = BLANK, ![n].ptr = table[FREE_OFF]]
    /\ Goto(p, "free")
    /\ UNCHANGED <<table, dat, locks, call, db, result, history, bounds>>

\* Mutant: the free list pointer is not written.
MutNotFreed(p) ==
    /\ pc[p] = "free"
    /\ Goto(p, "unchain")
    /\ UNCHANGED <<files, locks, call, db, result, history, bounds>>

DelFree(p) ==
    /\ pc[p] = "free"
    /\ _db_writeptr(FREE_OFF, db[p].idxoff)
    /\ Goto(p, "unchain")
    /\ UNCHANGED <<dat, locks, call, db, result, history, bounds>>

\* Mutant: the record's own pointer, which DelIdx has changed, is used.
MutNoSaveptr(p) ==
    /\ pc[p] = "unchain"
    /\ _db_writeptr(db[p].ptroff, Record(db[p].idxoff).ptr)
    /\ Release(p, FREE_OFF)
    /\ db' = [db EXCEPT ![p].pos = Lost, ![p].link = table'[Chain(p)]]
    /\ IF call[p].op = "delete"
       THEN Answer(p, "ok") /\ kv' = [kv EXCEPT ![call[p].key] = NONE]
       ELSE Goto(p, "datseek") /\ UNCHANGED <<result, kv>>
    /\ UNCHANGED <<dat, call, steady, seen, scanning, bounds>>

\* db_store goes on to append, after it has read the chain pointer again.
DelChain(p) ==
    /\ pc[p] = "unchain"
    /\ _db_writeptr(db[p].ptroff, db[p].ptrval)
    /\ Release(p, FREE_OFF)
    /\ db' = [db EXCEPT ![p].pos = Lost, ![p].link = table'[Chain(p)]]
    /\ IF call[p].op = "delete"
       THEN Answer(p, "ok") /\ kv' = [kv EXCEPT ![call[p].key] = NONE]
       ELSE Goto(p, "datseek") /\ UNCHANGED <<result, kv>>
    /\ UNCHANGED <<dat, call, steady, seen, scanning, bounds>>

-----------------------------------------------------------------------------
(* db_store: find a free record of the right sizes, or append one; link it *)
(* to the front of the chain.  ptroff stands for findfree's saveoffset.    *)

_db_findfree(p) ==
    /\ pc[p] = "findfree"
    /\ Lock(p, FREE_OFF, "w")
    /\ db' = [db EXCEPT ![p].ptroff = FREE_OFF, ![p].next = _db_readptr(FREE_OFF)]
    /\ Goto(p, "freewalk")
    /\ UNCHANGED <<files, call, result, history, bounds>>

\* Mutant: the free list stays locked.
MutStayLocked(p) ==
    /\ pc[p] = "freewalk" /\ db[p].next = 0
    /\ Goto(p, "datseek")
    /\ UNCHANGED <<files, locks, call, db, result, history, bounds>>

NoneFree(p) ==
    /\ pc[p] = "freewalk" /\ db[p].next = 0
    /\ Release(p, FREE_OFF)
    /\ Goto(p, "datseek")
    /\ UNCHANGED <<files, call, db, result, history, bounds>>

Fits(p, r) == r.klen = KeyLen[call[p].key] /\ r.datlen = Size(p)

FreeUnfit(p) ==
    LET o == db[p].next IN
    /\ pc[p] = "freewalk" /\ o # 0 /\ ~Fits(p, Record(o))
    /\ db' = [db EXCEPT ![p].ptroff = o, ![p].next = Record(o).ptr]
    /\ UNCHANGED <<files, locks, pc, call, result, history, bounds>>

TakeFree(p) ==
    LET o == db[p].next IN
    /\ pc[p] = "freewalk" /\ o # 0 /\ Fits(p, Record(o))
    /\ _db_writeptr(db[p].ptroff, Record(o).ptr)
    /\ db' = [db EXCEPT ![p].idxoff = o, ![p].datoff = Record(o).datoff]
    /\ Release(p, FREE_OFF)
    /\ Goto(p, "reusedat")
    /\ UNCHANGED <<dat, call, result, history, bounds>>

ReuseDat(p) ==
    /\ pc[p] = "reusedat"
    /\ dat' = [dat EXCEPT ![db[p].datoff] = call[p].data]
    /\ Goto(p, "reuseidx")
    /\ UNCHANGED <<table, rec, locks, call, db, result, history, bounds>>

ReuseIdx(p) ==
    LET n == db[p].idxoff - NHash IN
    /\ pc[p] = "reuseidx"
    /\ rec' = [rec EXCEPT ![n].key = call[p].key, ![n].ptr = db[p].link]
    /\ Goto(p, "link")
    /\ UNCHANGED <<table, dat, locks, call, db, result, history, bounds>>

\* "If we're appending, we have to lock before doing the lseek and write to make
\* the two an atomic operation."
_db_writedat(p) ==
    \/ /\ pc[p] = "datseek"
       /\ Lock(p, DatFile, "w")
       /\ db' = [db EXCEPT ![p].datoff = Len(dat) + 1]
       /\ Goto(p, "datwrite")
       /\ UNCHANGED <<files, call, result, history, bounds>>
    \/ /\ pc[p] = "datwrite"
       /\ dat' = Put(dat, db[p].datoff, call[p].data)
       /\ Release(p, DatFile)
       /\ Goto(p, "idxseek")
       /\ UNCHANGED <<table, rec, call, db, result, history, bounds>>

NewRecord(p) ==
    [ptr |-> db[p].link, key |-> call[p].key, klen |-> KeyLen[call[p].key],
     datoff |-> db[p].datoff, datlen |-> Size(p)]

_db_writeidx(p) ==
    \/ /\ pc[p] = "idxseek"
       /\ Lock(p, IdxEnd, "w")
       /\ db' = [db EXCEPT ![p].idxoff = NHash + Len(rec) + 1]
       /\ Goto(p, "idxwrite")
       /\ UNCHANGED <<files, call, result, history, bounds>>
    \/ /\ pc[p] = "idxwrite"
       /\ rec' = Put(rec, db[p].idxoff - NHash, NewRecord(p))
       /\ Release(p, IdxEnd)
       /\ Goto(p, "link")
       /\ UNCHANGED <<table, dat, call, db, result, history, bounds>>

\* The process is gone, its locks with it.  If db_store had deleted the record
\* it replaces, that record is gone too.
Appending == {"datseek", "datwrite", "idxseek", "idxwrite", "link"}
Die(p) ==
    /\ ReleaseAll(p)
    /\ kv' = IF pc[p] \in Appending THEN [kv EXCEPT ![call[p].key] = NONE] ELSE kv
    /\ result' = [result EXCEPT ![p] = NONE]
    /\ Goto(p, "dead")
    /\ UNCHANGED <<files, call, db, steady, seen, scanning, calls>>

\* _db_writeptr does not take an offset beyond PTR_MAX: err_quit.
IndexFull(p) ==
    /\ pc[p] = "link" /\ db[p].idxoff > PtrMax
    /\ Die(p)
    /\ UNCHANGED deaths

Link(p) ==
    /\ pc[p] = "link" /\ db[p].idxoff <= PtrMax
    /\ _db_writeptr(Chain(p), db[p].idxoff)
    /\ db' = [db EXCEPT ![p].pos = Lost]
    /\ kv' = [kv EXCEPT ![call[p].key] = call[p].data]
    /\ Answer(p, "ok")
    /\ UNCHANGED <<dat, locks, call, steady, seen, scanning, bounds>>

Overwrite(p) ==
    /\ pc[p] = "overwrite"
    /\ dat' = [dat EXCEPT ![db[p].datoff] = call[p].data]
    /\ kv' = [kv EXCEPT ![call[p].key] = call[p].data]
    /\ Answer(p, "ok")
    /\ UNCHANGED <<table, rec, locks, call, db, steady, seen, scanning, bounds>>

-----------------------------------------------------------------------------
(* db_rewind and db_nextrec. *)

\* A call that may write key k is under way, or a process died in one.
Busy(k) == \E q \in Procs : call[q].key = k /\ call[q].op # "fetch"

db_rewind(p) ==
    /\ pc[p] = "idle" /\ p \in Scanners
    /\ calls < MaxCalls /\ calls' = calls + 1
    /\ db' = [db EXCEPT ![p].pos = NHash + 1]
    /\ scanning' = [scanning EXCEPT ![p] = TRUE]
    /\ seen' = [seen EXCEPT ![p] = {}]
    /\ steady' = [steady EXCEPT ![p] = {k \in Keys : kv[k] # NONE /\ ~Busy(k)}]
    /\ UNCHANGED <<files, locks, pc, call, result, kv, deaths>>

\* Mutant: the free list is not locked.
MutNextUnlocked(p) ==
    /\ pc[p] = "idle" /\ scanning[p]
    /\ Goto(p, "next")
    /\ UNCHANGED <<files, locks, call, db, result, history, bounds>>

db_nextrec(p) ==
    /\ pc[p] = "idle" /\ scanning[p]
    /\ Lock(p, FREE_OFF, "r")
    /\ Goto(p, "next")
    /\ UNCHANGED <<files, call, db, result, history, bounds>>

AtEnd(p) == db[p].pos > NHash + Len(rec)

NextEOF(p) ==
    /\ pc[p] = "next" /\ db[p].pos # Lost /\ AtEnd(p)
    /\ Answer(p, NONE)
    /\ scanning' = [scanning EXCEPT ![p] = FALSE]
    /\ UNCHANGED <<files, locks, call, db, kv, steady, seen, bounds>>

NextBlank(p) ==
    /\ pc[p] = "next" /\ db[p].pos # Lost /\ ~AtEnd(p) /\ Record(db[p].pos).key = BLANK
    /\ db' = [db EXCEPT ![p].pos = @ + 1]
    /\ UNCHANGED <<files, locks, pc, call, result, history, bounds>>

NextIdx(p) ==
    LET o == db[p].pos IN
    /\ pc[p] = "next" /\ o # Lost /\ ~AtEnd(p) /\ Record(o).key # BLANK
    /\ db' = [db EXCEPT ![p].pos = o + 1, ![p].datoff = Record(o).datoff]
    /\ call' = [call EXCEPT ![p] = [op |-> "nextrec", key |-> Record(o).key, data |-> NONE]]
    /\ Goto(p, "nextdat")
    /\ UNCHANGED <<files, locks, result, history, bounds>>

NextDat(p) ==
    /\ pc[p] = "nextdat"
    /\ Answer(p, dat[db[p].datoff])
    /\ seen' = [seen EXCEPT ![p] = @ \cup {call[p].key}]
    /\ UNCHANGED <<files, locks, call, db, kv, steady, scanning, bounds>>

\* The offset is not the start of a record: what is read there is not one, and
\* _db_readidx most likely ends the process with err_dump.
NextLost(p) ==
    /\ pc[p] = "next" /\ db[p].pos = Lost
    /\ ReleaseAll(p)
    /\ Goto(p, "aborted")
    /\ UNCHANGED <<files, call, db, result, history, bounds>>

-----------------------------------------------------------------------------
\* A process dies in a call, but not inside _db_dodelete: that leaves the chain
\* and the free list tied together.
Crash(p) ==
    /\ deaths < MaxDeaths /\ deaths' = deaths + 1
    /\ pc[p] \notin {"closed", "idle", "stat", "init", "dead", "aborted"}
    /\ pc[p] \notin {"blank", "free", "unchain"}
    /\ Die(p)

Step(p) ==
    \/ OpenStat(p) \/ OpenInit(p) \/ Unlock(p)
    \/ NotFound(p) \/ ReadUnequal(p) \/ Found(p) \/ _db_readdat(p)
    \/ DelData(p) \/ DelIdx(p) \/ DelFree(p) \/ DelChain(p)
    \/ _db_findfree(p) \/ NoneFree(p) \/ FreeUnfit(p) \/ TakeFree(p)
    \/ ReuseDat(p) \/ ReuseIdx(p) \/ _db_writedat(p) \/ _db_writeidx(p)
    \/ IndexFull(p) \/ Link(p) \/ Overwrite(p)
    \/ NextEOF(p) \/ NextBlank(p) \/ NextIdx(p) \/ NextDat(p) \/ NextLost(p)

Next ==
    \E p \in Procs :
       \/ db_open(p) \/ OpenExisting(p) \/ db_close(p)
       \/ \E k \in Keys :
             \/ db_fetch(p, k) \/ db_delete(p, k)
             \/ \E d \in Data, flag \in {"insert", "replace", "store"} :
                   db_store(p, k, d, flag)
       \/ db_rewind(p) \/ db_nextrec(p)
       \/ Step(p) \/ Crash(p)

Spec == Init /\ [][Next]_vars

-----------------------------------------------------------------------------
\* The variables keep their types: what the calls write into the two files is a
\* record, and data or blanks.
TypeOK ==
    /\ table \in [0..NHash -> Nat] \cup {<<>>}
    /\ rec \in Seq(Records) /\ dat \in Seq(Data \cup {BLANK})
    /\ locks \in SUBSET (Procs \X (0..DatFile) \X {"r", "w"})
    /\ pc \in [Procs -> Pcs]
    /\ call \in [Procs -> [op : Ops, key : Keys \cup {NONE}, data : Values]]
    /\ kv \in [Keys -> Values]
    /\ steady \in [Procs -> SUBSET Keys] /\ seen \in [Procs -> SUBSET Keys]
    /\ scanning \in [Procs -> BOOLEAN]
    /\ calls \in 0..MaxCalls /\ deaths \in 0..MaxDeaths

\* The items a walk from offset o meets, and whether it comes to an end.
Nodes(o) ==
    LET walk[n \in 0..Len(rec)] ==
          IF n = 0 THEN {o} \ {0}
          ELSE walk[n - 1] \cup ({Record(m).ptr : m \in walk[n - 1]} \ {0})
    IN walk[Len(rec)]
Ends(o) == o = 0 \/ \E m \in Nodes(o) : Record(m).ptr = 0

Unchanging(what) == table # <<>> /\ \A l \in locks : l[2] = what => l[3] = "r"

\* A hash chain that no process is changing holds the records of its keys, each
\* once, with their data: no deletion, reuse or append of another process, on
\* this or on another chain, gets into it.
ChainsHoldTheRecords ==
    \A c \in 1..NHash : Unchanging(c) =>
       LET on == Nodes(table[c])
           stored == {k \in Keys : Hash[k] = c /\ kv[k] # NONE}
       IN /\ Ends(table[c])
          /\ {Record(o).key : o \in on} = stored
          /\ Cardinality(on) = Cardinality(stored)
          /\ \A o \in on : dat[Record(o).datoff] = kv[Record(o).key]

\* The free list holds deleted records only.
FreeListIsFree ==
    Unchanging(FREE_OFF) =>
       /\ Ends(table[FREE_OFF])
       /\ \A o \in Nodes(table[FREE_OFF]) : Record(o).key = BLANK

\* While no process has died, every index record that nobody works on is on a
\* chain or on the free list, and no two share their place in the data file:
\* space is neither lost nor used twice.
Settled == \A p \in Procs : pc[p] \in {"closed", "idle"}
NoSpaceLost ==
    Settled /\ table # <<>> =>
       /\ UNION {Nodes(table[o]) : o \in 0..NHash} = (NHash + 1)..(NHash + Len(rec))
       /\ Len(dat) = Len(rec)
       /\ {rec[n].datoff : n \in 1..Len(rec)} = 1..Len(dat)

\* The two files are well formed: their records have the right types, deleted
\* records are on the free list, and all space is accounted for.
FilesAreWellFormed == TypeOK /\ FreeListIsFree /\ NoSpaceLost

\* "So that we don't read a record in the middle of its being deleted": what
\* db_nextrec returns is a record of the database, or one that its db_store has
\* written and is about to link; never a key with the data of another record or
\* with none.  A process that dies before it links the record leaves it in the
\* index file, on no chain, and db_nextrec gives it like any other: such a
\* record, its key with the data of that db_store, is excepted too.
NextrecReadsRecords ==
    [][\A p \in Procs :
         pc[p] = "nextdat" /\ pc'[p] = "unlock" =>
           LET k == result'[p][2]
               d == result'[p][3]
           IN \/ kv[k] = d
              \/ \E q \in Procs : /\ call[q].key = k /\ call[q].data = d
                                  /\ pc[q] \in {"link", "dead"}]_vars

\* A scan (db_rewind, then db_nextrec to the end, no other call on the handle)
\* gives every record that nobody touches meanwhile, and gives it once.  The
\* keys of the calls that processes died in, before db_rewind or after it, are
\* not among those: a db_store that died between _db_writeidx and _db_writeptr
\* left a second record with the key, and a scan may give the key twice.
ScanIsComplete ==
    [][\A p \in Procs :
         /\ pc[p] = "nextdat" /\ pc'[p] = "unlock" =>
               call[p].key \notin seen[p] \cap steady[p]
         /\ scanning[p] /\ ~scanning'[p] /\ pc[p] = "next" =>
               steady[p] \subseteq seen[p]]_vars

\* What db_nextrec gives is right, and in the end complete.
ScansAreRight == NextrecReadsRecords /\ ScanIsComplete

\* Processes in a call do not all wait for each other's locks, or for a lock
\* that a call left behind.
InCall == {p \in Procs : pc[p] \notin {"closed", "idle", "dead", "aborted"}}
SomeCallCanProceed == InCall # {} => \E p \in InCall : ENABLED Step(p)

\* The library implements the dictionary.
Answered(p) ==
    IF result[p] # NONE /\ call[p].op # "nextrec" THEN result[p] ELSE NONE
Dict == INSTANCE Dictionary WITH result <- [p \in Procs |-> Answered(p)]
ImplementsDictionary == Dict!Spec
=============================================================================
