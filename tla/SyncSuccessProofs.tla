------------------------- MODULE SyncSuccessProofs -------------------------
(***************************************************************************)
(* Proofs about Sync, on top of SyncProofs and just as general: every file *)
(* is given to one worker, once (HandledOnce), and a run that reports      *)
(* success has made the trees equal (SuccessMeansSynced).                  *)
(***************************************************************************)
EXTENDS SyncProofs

-----------------------------------------------------------------------------
(* The files that are still to be given to a worker.                       *)

Distinct(s) == \A i, j \in 1..Len(s) : s[i] = s[j] => i = j

\* In the slice of a child, or in the part of the list that nobody has got yet.
\* (The parent's index stops before the remainder, which the last child gets.)
Has(w, f) == \E i \in 1..Len(part[w]) : part[w][i] = f
Ahead == IF prog = "process" /\ ~(mpc = "fork" /\ started < count)
         THEN {} ELSE (index + 1)..Len(list)
Coming(f) == \E i \in Ahead : list[i] = f
Pending == {f \in Files : Coming(f) \/ \E w \in Workers : Has(w, f)}

\* No file waits in two places.
Apart ==
    /\ Distinct(list) /\ Len(list) <= Cardinality(Files)
    /\ \A w \in Workers : Distinct(part[w])
    /\ \A v, w \in Workers, f \in Files : Has(v, f) /\ Has(w, f) => v = w
    /\ \A w \in Workers, f \in Files : ~(Coming(f) /\ Has(w, f))
    /\ prog # "process" => \A w \in Workers : part[w] = <<>>

\* What the workers have in hand: a file that was taken once, that no other
\* worker has, and that has not failed yet.
Hands ==
    /\ \A f \in Files : taken[f] <= 1 /\ (f \in Pending => taken[f] = 0)
    /\ \A w \in Workers : wpc[w] \notin WithFile => file[w] = NoFile
    /\ \A w \in Workers : file[w] \in Files => taken[file[w]] = 1 /\ file[w] \notin failed
    /\ \A v, w \in Workers : file[v] = file[w] /\ file[v] \in Files => v = w
    /\ \A f \in failed : taken[f] = 1

\* What main and the workers have done, by where they are.
Phases ==
    /\ mpc \in {"target", "tree", "scan"} =>
          /\ failed = {} /\ \A f \in Files : taken[f] = 0
          /\ \A w \in Workers : wpc[w] = "none"
    /\ mpc \in {"target", "tree", "scan", "create", "fork", "walk"} => result = "none"
    /\ mpc \in {"create", "fork"} => \A w \in Workers : w >= started => wpc[w] = "none"
    /\ mpc = "create" => \A w \in Workers : wpc[w] = "done" => index = Len(list)
    /\ mpc = "exiting" => result = "failed"
    /\ mpc = "ended" /\ result = "ok" =>
          /\ index = Len(list) /\ errors = 0
          /\ \A w \in Workers : wpc[w] \in {"none", "done"}
    /\ \A w \in Workers : wpc[w] \in {"none", "done"} => part[w] = <<>>
    /\ prog = "simple" => /\ \A w \in Workers : w # 0 => wpc[w] = "none"
                          /\ mpc # "walk" => wpc[0] \in {"none", "done"}

\* The threads' statistics count the files that failed.
Counted == IF prog = "thread" THEN errors = Cardinality(failed) ELSE errors = 0

\* A run in which no call failed that the program overlooks, and that has not
\* failed itself: no file is left out.
Clean == ~dry /\ faults \subseteq Noticed[prog] /\ result # "failed"
Given == mpc \in {"create", "fork", "walk", "ended"}

Covered ==
    /\ Clean /\ Given => \A f \in Files : f \in Pending \/ taken[f] = 1
    /\ Clean /\ prog # "thread" => failed = {} /\ \A w \in Workers : wpc[w] # "error"

HandInv == SyncTypes /\ Apart /\ Hands /\ Phases /\ Counted /\ Covered

\* In a clean run of which no file was edited, those that are done are copied.
Safe(f) == SameData(f) \/ (prog # "process" /\ f \in blurred)

Copied ==
    Clean /\ quiet =>
       /\ \A w \in Workers : wpc[w] \in {"stamp", "synced"} => Safe(file[w])
       /\ \A f \in Files : taken[f] = 1 /\ f \notin failed /\ (\A w \in Workers : file[w] # f)
                             => Safe(f)

SuccessInv == CopyInv /\ HandInv /\ Copied

-----------------------------------------------------------------------------
USE FilesAssumption, DirOfAssumption, ContentsAssumption, OriginalAssumption,
    BoundsAssumption, CountsAssumption

(* Where files wait. *)

\* The list is kept or freed, slices are kept or dropped: files wait where they
\* waited before, or do not wait any more.
Shrinks ==
    /\ list' = <<>> \/ (list' = list /\ Ahead' \subseteq Ahead)
    /\ \A w \in Workers : part'[w] = part[w] \/ part'[w] = <<>>
    /\ prog' = prog

\* The indexes of the list that are ahead are indexes of the list.
LEMMA AheadFacts ==
    ASSUME MainTypes
    PROVE  /\ Ahead \subseteq 1..Len(list)
           /\ \A f : Coming(f) => f \in Files
BY DEF MainTypes, Ahead, Coming

\* A file is still in one place only when nobody took another one: the list,
\* a part or a worker.
LEMMA PlacesShrink ==
    ASSUME SyncTypes, SyncTypes', Apart, Shrinks
    PROVE  Apart' /\ Pending' \subseteq Pending
<1>0. MainTypes /\ WorkerTypes /\ MainTypes' /\ WorkerTypes'
    BY DEF SyncTypes
<1>1. \A f : Coming(f)' => Coming(f)
  <2>1. CASE list' = <<>>
    <3>1. Ahead' = {}
      BY <2>1, <1>0 DEF Ahead, MainTypes
    <3> QED
      BY <3>1 DEF Coming
  <2>2. CASE list' = list /\ Ahead' \subseteq Ahead
    BY <2>2 DEF Coming
  <2> QED
    BY <2>1, <2>2 DEF Shrinks
<1>2. \A w \in Workers : \A f : Has(w, f)' => Has(w, f)
    BY <1>0 DEF Shrinks, Has, WorkerTypes
<1>3. Distinct(list)' /\ (Len(list) <= Cardinality(Files))'
  <2>1. IsFiniteSet(Files) /\ Cardinality(Files) \in Nat
    BY FS_CardinalityType
  <2> QED
    BY <2>1 DEF Shrinks, Distinct, Apart
<1>4. \A w \in Workers : Distinct(part[w])'
    BY DEF Shrinks, Distinct, Apart
<1>5. prog' # "process" => \A w \in Workers : part'[w] = <<>>
    BY DEF Shrinks, Apart
<1>6. \A v, w \in Workers, f \in Files : Has(v, f)' /\ Has(w, f)' => v = w
    BY <1>2 DEF Apart
<1>7. \A w \in Workers, f \in Files : ~(Coming(f)' /\ Has(w, f)')
    BY <1>1, <1>2 DEF Apart
<1>8. Pending' \subseteq Pending
    BY <1>1, <1>2 DEF Pending
<1> QED
    BY <1>3, <1>4, <1>5, <1>6, <1>7, <1>8 DEF Apart

\* What waits is the same when neither main nor a slice changes.
LEMMA PlacesStay ==
    ASSUME Apart, UNCHANGED <<prog, list, part>>, Ahead' = Ahead
    PROVE  Apart' /\ Pending' = Pending
<1>1. \A f : Coming(f)' <=> Coming(f)
    BY DEF Coming
<1>2. \A w, f : Has(w, f)' <=> Has(w, f)
    BY DEF Has
<1> QED
    BY <1>1, <1>2 DEF Apart, Pending, Distinct

-----------------------------------------------------------------------------
(* How files change hands. *)

\* Workers give up their files, or a part of them, and some of these have failed.
Drop ==
    /\ taken' = taken
    /\ \A v \in Workers : file'[v] \in {file[v], NoFile}
    /\ \A f \in failed' :
          f \in failed \/ \E v \in Workers : f = file[v] /\ file'[v] = NoFile
    /\ Pending' \subseteq Pending
    /\ Clean' => Clean /\ Pending \subseteq Pending' /\ (Given' => Given)

\* A worker takes a file that waits; the one that it had may have failed.
Take(w, f) ==
    /\ taken' = [taken EXCEPT ![f] = @ + 1]
    /\ file' = [file EXCEPT ![w] = f]
    /\ failed' \subseteq failed \cup {file[w]}
    /\ Pending' = Pending \ {f}
    /\ Clean' => Clean /\ (Given' => Given)

\* No file was given to anybody yet.
Fresh ==
    /\ \A f \in Files : taken'[f] = 0
    /\ \A v \in Workers : file'[v] = NoFile
    /\ failed' = {}
    /\ Clean' /\ Given' => Pending' = Files

HandStep ==
    /\ Drop \/ Fresh \/ \E w \in Workers : \E f \in Pending : Take(w, f)
    /\ \A v \in Workers : wpc'[v] \notin WithFile => file'[v] = NoFile
    /\ Clean' /\ prog' # "thread" => failed' = {} /\ \A w \in Workers : wpc'[w] # "error"

\* Whatever changes hands, no file is in two hands or taken twice, and none is
\* left out.
LEMMA HandStepKeeps ==
    ASSUME SyncTypes, SyncTypes', Hands, Covered, HandStep
    PROVE  Hands' /\ Covered'
<1>0. /\ WorkerTypes /\ WorkerTypes'
      /\ NoFile \notin Files /\ Pending \subseteq Files /\ Pending' \subseteq Files
    BY DEF SyncTypes, Pending
<1>1. CASE Drop
  <2>1. \A f \in Files : taken'[f] <= 1 /\ (f \in Pending' => taken'[f] = 0)
    BY <1>1 DEF Drop, Hands
  <2>2. \A w \in Workers : file'[w] \in Files => file'[w] = file[w]
    BY <1>0, <1>1 DEF Drop
  <2>3. \A v, w \in Workers : file'[v] = file'[w] /\ file'[v] \in Files => v = w
    BY <2>2 DEF Hands
  <2>4. \A f \in failed' : taken'[f] = 1
    BY <1>0, <1>1 DEF Drop, Hands, WorkerTypes
  <2>5. \A w \in Workers : file'[w] \in Files => taken'[file'[w]] = 1 /\ file'[w] \notin failed'
    <3> SUFFICES ASSUME NEW w \in Workers, file'[w] \in Files
                 PROVE  taken'[file'[w]] = 1 /\ file'[w] \notin failed'
      OBVIOUS
    <3>1. file'[w] = file[w] /\ taken[file[w]] = 1 /\ file[w] \notin failed
      BY <2>2 DEF Hands
    <3>2. \A v \in Workers : file[w] = file[v] /\ file'[v] = NoFile => FALSE
      BY <1>0, <3>1 DEF Hands
    <3> QED
      BY <1>1, <3>1, <3>2 DEF Drop
  <2>6. Clean' /\ Given' => \A f \in Files : f \in Pending' \/ taken'[f] = 1
    BY <1>1 DEF Drop, Covered
  <2> QED
    BY <2>1, <2>3, <2>4, <2>5, <2>6 DEF Hands, Covered, HandStep
<1>2. CASE Fresh
    BY <1>0, <1>2 DEF Fresh, Hands, Covered, HandStep
<1>3. ASSUME NEW w \in Workers, NEW f \in Pending, Take(w, f)
      PROVE  Hands' /\ Covered'
  <2>1. taken[f] = 0 /\ f \in Files /\ f \notin failed
    BY <1>0 DEF Hands
  <2>2. taken' = [taken EXCEPT ![f] = 1] /\ file' = [file EXCEPT ![w] = f]
    BY <1>0, <1>3, <2>1 DEF Take, WorkerTypes
  <2>3. \A g \in Files : taken'[g] = IF g = f THEN 1 ELSE taken[g]
    BY <1>0, <2>1, <2>2 DEF WorkerTypes
  <2>4. \A v \in Workers : file'[v] = IF v = w THEN f ELSE file[v]
    BY <1>0, <2>2 DEF WorkerTypes
  <2>5. \A v \in Workers : file[v] # f
    BY <2>1 DEF Hands
  <2>6. \A g \in Files : taken'[g] <= 1 /\ (g \in Pending' => taken'[g] = 0)
    BY <1>3, <2>3 DEF Take, Hands
  <2>7. \A u, v \in Workers : file'[u] = file'[v] /\ file'[u] \in Files => u = v
    BY <2>4, <2>5 DEF Hands
  <2>8. \A g \in failed' : taken'[g] = 1
    BY <1>0, <1>3, <2>3 DEF Take, Hands, WorkerTypes
  <2>9. \A v \in Workers : file'[v] \in Files => taken'[file'[v]] = 1 /\ file'[v] \notin failed'
    <3> SUFFICES ASSUME NEW v \in Workers, file'[v] \in Files
                 PROVE  taken'[file'[v]] = 1 /\ file'[v] \notin failed'
      OBVIOUS
    <3>1. CASE v = w
      BY <1>3, <3>1, <2>1, <2>3, <2>4, <2>5 DEF Take
    <3>2. CASE v # w
      BY <1>3, <3>2, <2>3, <2>4 DEF Take, Hands
    <3> QED
      BY <3>1, <3>2
  <2>10. Clean' /\ Given' => \A g \in Files : g \in Pending' \/ taken'[g] = 1
    BY <1>3, <2>3 DEF Take, Covered
  <2> QED
    BY <2>6, <2>7, <2>8, <2>9, <2>10 DEF Hands, Covered, HandStep
<1> QED
    BY <1>1, <1>2, <1>3 DEF HandStep

-----------------------------------------------------------------------------
\* Calls that failed are not forgotten within a run, and a run is clean only
\* while the program notices them.
LEMMA CleanSince ==
    ASSUME UNCHANGED <<dry, prog>>, faults \subseteq faults',
           result = "failed" => result' = "failed"
    PROVE  Clean' => Clean
BY DEF Clean

\* Failed calls are remembered.
LEMMA FaultsGrow ==
    /\ NoFault => faults' = faults
    /\ \A kind : SomeFault(kind) => faults \subseteq faults' /\ kind \in faults'
BY DEF NoFault, SomeFault, Works, Fails, fault, Thread!Works, Thread!Fails, Thread!fault,
       Process!Works, Process!Fails, Process!fault, Simple!Works, Simple!Fails, Simple!fault

\* A call whose failure its program overlooks takes the run out of the property.
LEMMA Overlooked ==
    ASSUME NEW kind, SomeFault(kind), prog' = prog, prog \in {"thread", "process", "simple"},
           \/ kind \in {"killed", "child", "stat", "read"}
           \/ prog \in {"thread", "process"} /\ kind = "opendir"
           \/ prog = "process" /\ kind \in {"mkdir", "open", "write"}
    PROVE  ~Clean'
<1>1. kind \in faults'
    BY FaultsGrow
<1> QED
    BY <1>1 DEF Clean, Noticed

\* A worker that goes on with its file leaves everybody's hands as they are.
Labour(w) ==
    /\ wpc[w] \in WithFile
    /\ wpc' = wpc \/ \E label \in WithFile : wpc' = [wpc EXCEPT ![w] = label]
    /\ UNCHANGED <<mainVars, dry, file, part, errors, taken, failed>>
    /\ faults \subseteq faults'
    /\ prog # "thread" /\ wpc'[w] = "error" => wpc[w] = "error" \/ ~Clean'

\* A worker that goes on with its file keeps what is known of all files.
LEMMA LabourKeeps ==
    ASSUME HandInv, SyncTypes', NEW w \in Workers, Labour(w)
    PROVE  HandInv'
<1> USE DEF mainVars
<1>0. /\ SyncTypes /\ Apart /\ Hands /\ Phases /\ Counted /\ Covered /\ WorkerTypes
    BY DEF HandInv, SyncTypes
<1>1. \A v \in Workers : wpc'[v] = wpc[v] \/ (v = w /\ wpc'[v] \in WithFile)
    BY <1>0 DEF Labour, WorkerTypes
<1>2. \A v \in Workers : wpc'[v] \notin WithFile => wpc'[v] = wpc[v]
    BY <1>1
<1>3. Apart' /\ Pending' = Pending
  <2>1. Ahead' = Ahead
    BY DEF Labour, Ahead
  <2> QED
    BY <1>0, <2>1, PlacesStay DEF Labour
<1>4. Clean' => Clean
    BY CleanSince DEF Labour
<1>5. HandStep
  <2>1. Drop
    BY <1>3, <1>4 DEF Labour, Drop, Given
  <2>2. \A v \in Workers : wpc'[v] \notin WithFile => file'[v] = NoFile
    BY <1>0, <1>2 DEF Labour, Hands
  <2>3. Clean' /\ prog' # "thread" => failed' = {} /\ \A v \in Workers : wpc'[v] # "error"
    BY <1>0, <1>1, <1>4 DEF Labour, Covered
  <2> QED
    BY <2>1, <2>2, <2>3 DEF HandStep
<1>6. Hands' /\ Covered'
    BY <1>0, <1>5, HandStepKeeps
<1>7. wpc[w] \in WithFile /\ wpc'[w] \in WithFile
    BY <1>0, <1>1 DEF Labour
<1>8. \A v \in Workers : wpc'[v] \in {"none", "done"} <=> wpc[v] \in {"none", "done"}
    BY <1>1, <1>7 DEF WithFile
<1>9. \A v \in Workers : wpc[v] = "none" => wpc'[v] = "none"
    BY <1>1, <1>7 DEF WithFile
<1>10. \A v \in Workers : wpc'[v] = "done" => wpc[v] = "done"
    BY <1>2 DEF WithFile
<1>11. Phases' /\ Counted'
    BY <1>0, <1>8, <1>9, <1>10, ParameterFacts DEF Labour, Phases, Counted
<1> QED
    BY <1>3, <1>6, <1>11 DEF HandInv

\* A new list has every file of the set once; nobody has a slice of it yet.
LEMMA NewList ==
    ASSUME NEW F \in SUBSET Files, SyncTypes', list' = Listed(F), index' = 0,
           \A w \in Workers : part'[w] = <<>>,
           prog' = "process" => mpc' = "fork" /\ started' < count'
    PROVE  Apart' /\ Pending' = F
<1>0. MainTypes' /\ Len(list') \in Nat
    BY DEF SyncTypes, MainTypes
<1>1. \A w \in Workers : Len(part'[w]) = 0
    OBVIOUS
<1>2. \A w \in Workers, f \in Files : ~Has(w, f)'
    BY <1>1 DEF Has
<1>3. Ahead' = 1..Len(list')
    BY <1>0 DEF Ahead
<1>4. /\ list' \in Seq(F) /\ Len(list') = Cardinality(F)
      /\ \A f \in F : \E i \in 1..Len(list') : list'[i] = f
      /\ \A i, j \in 1..Len(list') : list'[i] = list'[j] => i = j
    BY ListingAssumption DEF Listed
<1>5. Cardinality(F) <= Cardinality(Files)
    BY FS_Subset
<1>6. Distinct(list)' /\ \A w \in Workers : Distinct(part[w])'
    BY <1>1, <1>4 DEF Distinct
<1>7. \A f \in Files : Coming(f)' <=> f \in F
    BY <1>3, <1>4 DEF Coming
<1>8. Apart'
    BY <1>2, <1>4, <1>5, <1>6 DEF Apart
<1>9. Pending' = F
    BY <1>2, <1>7 DEF Pending
<1> QED
    BY <1>8, <1>9

\* The next file of the list, for those who take files by the index.
LEMMA IndexTake ==
    ASSUME SyncTypes, SyncTypes', Apart, prog # "process", UNCHANGED <<prog, list, part>>,
           index < Len(list), index' = index + 1
    PROVE  /\ Apart' /\ list[index + 1] \in Pending
           /\ Pending' = Pending \ {list[index + 1]}
<1>0. list \in Seq(Files) /\ index \in 0..Len(list) /\ index + 1 \in 1..Len(list)
    BY DEF SyncTypes, MainTypes
<1>1. Ahead = (index + 1)..Len(list) /\ Ahead' = (index + 2)..Len(list)
    BY <1>0 DEF Ahead
<1>2. \A w \in Workers : \A f : ~Has(w, f) /\ ~Has(w, f)'
  <2>1. \A w \in Workers : Len(part[w]) = 0
    BY DEF Apart
  <2> QED
    BY <2>1 DEF Has
<1>3. \A f : Coming(f)' <=> Coming(f) /\ f # list[index + 1]
    BY <1>0, <1>1, SMTT(30) DEF Coming, Apart, Distinct
<1>4. Coming(list[index + 1]) /\ list[index + 1] \in Files
    BY <1>0, <1>1 DEF Coming
<1>5. Shrinks
    BY <1>0, <1>1 DEF Shrinks
<1> QED
    BY <1>2, <1>3, <1>4, <1>5, PlacesShrink DEF Pending

\* Before any file is given to anybody.
LEMMA BeforeTheFirst ==
    ASSUME HandInv, SyncTypes', Apart', mpc \in {"target", "tree", "scan"},
           UNCHANGED <<prog, started, wpc, file, part, errors, taken, failed>>,
           Clean' /\ Given' => Pending' = Files,
           \/ mpc' \in {"tree", "scan", "create", "fork"} /\ result' = result
           \/ mpc' = "ended" /\ (result' = "ok" => index' = Len(list'))
    PROVE  HandInv'
<1>0. /\ SyncTypes /\ Hands /\ Phases /\ Counted /\ Covered
      /\ failed = {} /\ Cardinality(failed) = 0 /\ result = "none"
      /\ \A f \in Files : taken[f] = 0
      /\ \A w \in Workers : wpc[w] = "none"
    BY FS_EmptySet DEF HandInv, Phases
<1>1. \A w \in Workers : file[w] = NoFile
    BY <1>0 DEF Hands, WithFile
<1>2. HandStep
    BY <1>0, <1>1 DEF HandStep, Fresh
<1>3. Hands' /\ Covered'
    BY <1>0, <1>2, HandStepKeeps
<1>4. errors = 0 /\ Counted'
    BY <1>0 DEF Counted
<1>5. Phases'
    BY <1>0, <1>4, ParameterFacts DEF Phases
<1> QED
    BY <1>3, <1>4, <1>5 DEF HandInv

\* The same for a list that is freed, or kept while nobody takes files from it.
LEMMA BeforeTheList ==
    ASSUME HandInv, SyncTypes', Shrinks, mpc \in {"target", "tree", "scan"},
           UNCHANGED <<started, wpc, file, part, errors, taken, failed>>,
           Given' => ~Clean' \/ Files = {},
           \/ mpc' \in {"tree", "scan"} /\ result' = result
           \/ mpc' = "ended" /\ (result' = "ok" => index' = Len(list'))
    PROVE  HandInv'
<1>1. Apart' /\ prog' = prog
    BY PlacesShrink DEF HandInv, Shrinks
<1>2. Clean' /\ Given' => Pending' = Files
    BY DEF Pending
<1> QED
    BY <1>1, <1>2, BeforeTheFirst

-----------------------------------------------------------------------------
\* The threads take files from the list under its lock, one each time.
LEMMA ThreadHands ==
    HandInv /\ SyncTypes' /\ prog = "thread" /\ Thread!Step => HandInv'
<1> SUFFICES ASSUME HandInv, SyncTypes', prog = "thread", Thread!Step PROVE HandInv'
    OBVIOUS
<1> USE DEF NoFault, SomeFault, Thread!main, Thread!workers, Thread!history, Thread!given
<1>0. /\ SyncTypes /\ Apart /\ Hands /\ Phases /\ Counted /\ Covered
      /\ MainTypes /\ WorkerTypes /\ Programs
    BY DEF HandInv, SyncTypes
<1>a. \A w \in Workers : part[w] = <<>>
    BY <1>0 DEF Apart
<1>b. /\ count \in Nat \ {0} /\ started \in 0..count
      /\ \A i \in 0..(count - 1) : i \in Workers
    BY <1>0, ParameterFacts DEF MainTypes
<1>1. CASE Thread!CheckDirectories
  <2>1. Shrinks
    <3>1. UNCHANGED <<list, index, prog, count, started, part>> \/ (list' = <<>> /\ prog' = prog /\ part' = part)
      BY <1>1 DEF Thread!CheckDirectories, Thread!Return
    <3> QED
      BY <3>1 DEF Shrinks, Ahead
  <2>2. \/ mpc' = "tree" /\ result' = result
        \/ mpc' = "ended" /\ result' = "failed"
    BY <1>1 DEF Thread!CheckDirectories, Thread!Return
  <2>3. Given' => ~Clean'
    BY <2>2 DEF Given, Clean
  <2> QED
    BY <1>1, <2>1, <2>2, <2>3, BeforeTheList DEF Thread!CheckDirectories
<1>2. CASE Thread!sync_directory_structure
  <2>1. Shrinks
    BY <1>2 DEF Thread!sync_directory_structure, Shrinks, Ahead
  <2>2. mpc' = "scan" /\ result' = result /\ ~Given'
    BY <1>2 DEF Thread!sync_directory_structure, Given
  <2> QED
    BY <1>2, <2>1, <2>2, BeforeTheList DEF Thread!sync_directory_structure
<1>3. CASE Thread!traverse_directory
  <2>1. PICK F \in SUBSET Files :
           /\ \/ Thread!Works /\ F = Files
              \/ Thread!Fails("opendir")
           /\ IF dry \/ F = {} THEN Thread!Return("ok")
              ELSE /\ list' = Listed(F) /\ index' = 0
                   /\ mpc' = "create" /\ UNCHANGED result
    BY <1>3 DEF Thread!traverse_directory, Thread!Listed, Listed
  <2>2. /\ UNCHANGED <<prog, dry, started, wpc, file, part, errors, taken, failed>>
        /\ mpc = "scan"
    BY <1>3 DEF Thread!traverse_directory
  <2>3. Clean' => F = Files /\ ~dry
    BY <2>1, <2>2, Overlooked DEF Clean
  <2>4. CASE dry \/ F = {}
    <3>1. list' = <<>> /\ index' = 0 /\ mpc' = "ended" /\ result' = "ok"
      BY <2>1, <2>4 DEF Thread!Return
    <3>2. Shrinks /\ Len(list') = 0
      BY <2>2, <3>1 DEF Shrinks
    <3>3. ~Clean' \/ Files = {}
      BY <2>3, <2>4
    <3> QED
      BY <2>2, <3>1, <3>2, <3>3, BeforeTheList
  <2>5. CASE ~(dry \/ F = {})
    <3>1. list' = Listed(F) /\ index' = 0 /\ mpc' = "create" /\ result' = result
      BY <2>1, <2>5
    <3>2. Apart' /\ Pending' = F
      BY <2>2, <3>1, <1>a, NewList
    <3> QED
      BY <2>2, <2>3, <3>1, <3>2, BeforeTheFirst
  <2> QED
    BY <2>4, <2>5
<1>4. CASE Thread!CreateThread
  <2>0. /\ mpc = "create" /\ started < count /\ started \in Workers /\ result = "none"
        /\ UNCHANGED <<prog, dry, file, part, errors, taken, failed>>
    BY <1>0, <1>4, <1>b DEF Thread!CreateThread, Phases
  <2>1. CASE mpc' = "create"
    <3>1. /\ wpc' = [wpc EXCEPT ![started] = "get"] /\ started' = started + 1
          /\ UNCHANGED <<mpc, list, index, result, count>> /\ faults' = faults
      BY <1>4, <2>1, FaultsGrow DEF Thread!CreateThread, Thread!Goto
    <3>2. wpc[started] = "none"
      BY <1>0, <1>b, <2>0 DEF Phases
    <3>3. \A v \in Workers : wpc'[v] = IF v = started THEN "get" ELSE wpc[v]
      BY <1>0, <3>1 DEF WorkerTypes
    <3>4. Apart' /\ Pending' = Pending
      BY <1>0, <2>0, <3>1, PlacesStay DEF Ahead
    <3>5. Drop
      BY <2>0, <3>1, <3>4, CleanSince DEF Drop, Given
    <3>6. HandStep
      BY <1>0, <2>0, <3>2, <3>3, <3>5 DEF HandStep, Hands, WithFile
    <3>7. Counted'
      BY <1>0, <2>0 DEF Counted
    <3>8. \A v \in Nat : v >= started + 1 => v >= started /\ v # started
      BY <1>b
    <3>9. \A v \in Workers : v \in Nat
      BY DEF Workers
    <3>10. Phases'
      BY <1>0, <2>0, <3>1, <3>2, <3>3, <3>8, <3>9 DEF Phases
    <3> QED
      BY <1>0, <3>4, <3>6, <3>7, <3>10, HandStepKeeps DEF HandInv
  <2>2. CASE mpc' # "create"
    <3>1. list' = <<>> /\ index' = 0 /\ mpc' = "exiting" /\ result' = "failed" /\ wpc' = wpc
      BY <1>4, <2>0, <2>2 DEF Thread!CreateThread
    <3>2. Shrinks
      BY <2>0, <3>1 DEF Shrinks
    <3>3. Apart' /\ Pending' \subseteq Pending /\ ~Clean'
      BY <1>0, <3>1, <3>2, PlacesShrink DEF Clean
    <3>4. HandStep
      BY <1>0, <2>0, <3>1, <3>3 DEF HandStep, Drop, Hands
    <3>5. Phases' /\ Counted'
      BY <1>0, <2>0, <3>1 DEF Phases, Counted
    <3> QED
      BY <1>0, <3>3, <3>4, <3>5, HandStepKeeps DEF HandInv
  <2> QED
    BY <2>1, <2>2
<1>5. CASE Thread!JoinThreads
  <2>1. /\ mpc = "create" /\ started = count /\ \A w \in 0..(count - 1) : wpc[w] = "done"
        /\ list' = <<>> /\ index' = 0 /\ mpc' = "ended"
        /\ result' = IF errors > 0 THEN "failed" ELSE "ok"
        /\ UNCHANGED <<prog, dry, wpc, file, part, errors, taken, failed, faults>>
    BY <1>5 DEF Thread!JoinThreads, Thread!Return, Thread!fault
  <2>2. Shrinks
    BY <2>1 DEF Shrinks
  <2>3. Apart' /\ Pending' \subseteq Pending
    BY <1>0, <2>2, PlacesShrink
  <2>4. \A w \in Workers : wpc[w] \in {"none", "done"}
    <3>1. \A w \in Workers : w \in Nat
      BY DEF Workers
    <3> QED
      BY <1>0, <1>b, <2>1, <3>1 DEF Phases
  <2>5. index = Len(list) /\ result = "none"
    <3>1. 0 \in Workers /\ wpc[0] = "done"
      BY <1>b, <2>1
    <3> QED
      BY <1>0, <2>1, <3>1 DEF Phases
  <2>6. Pending = {}
    <3>1. Ahead = {}
      BY <1>0, <2>5 DEF Ahead, MainTypes
    <3>2. \A w \in Workers : Len(part[w]) = 0
      BY <1>a
    <3> QED
      BY <3>1, <3>2 DEF Pending, Coming, Has
  <2>7. Drop
    BY <2>1, <2>3, <2>5, <2>6, CleanSince DEF Drop, Given
  <2>8. HandStep
    BY <1>0, <2>1, <2>7 DEF HandStep, Hands
  <2>9. Counted'
    BY <1>0, <2>1 DEF Counted
  <2>10. errors \in Nat /\ (result' = "ok" => errors' = 0)
    BY <1>0, <2>1 DEF WorkerTypes
  <2>11. Phases'
    BY <1>0, <2>1, <2>4, <2>10 DEF Phases
  <2> QED
    BY <1>0, <2>3, <2>8, <2>9, <2>11, HandStepKeeps DEF HandInv
<1>6. CASE Thread!ExitProcess
  <2>1. /\ mpc = "exiting" /\ mpc' = "ended"
        /\ \A w \in Workers : wpc'[w] = "none" /\ file'[w] = NoFile
        /\ UNCHANGED <<prog, dry, count, list, index, started, result, part, errors, taken, failed>>
    BY <1>6 DEF Thread!ExitProcess, Workers, Thread!Workers
  <2>2. result = "failed" /\ ~Clean'
    BY <1>0, <2>1 DEF Phases, Clean
  <2>3. Apart' /\ Pending' = Pending
    BY <1>0, <2>1, PlacesStay DEF Ahead
  <2>4. HandStep
    BY <2>1, <2>2, <2>3 DEF HandStep, Drop
  <2>5. Phases' /\ Counted'
    BY <1>0, <1>a, <2>1, <2>2 DEF Phases, Counted
  <2> QED
    BY <1>0, <2>3, <2>4, <2>5, HandStepKeeps DEF HandInv
<1>7. ASSUME NEW w \in Workers, Thread!worker_thread(w) PROVE HandInv'
  <2>1. CASE Thread!get_next_file(w)
    <3>0. /\ wpc[w] = "get" /\ mpc \notin {"target", "tree", "scan"}
          /\ ~(mpc = "ended" /\ result = "ok") /\ ~(mpc = "create" /\ w >= started)
          /\ UNCHANGED <<prog, dry, count, mpc, list, started, result, part, errors, failed, faults>>
      BY <1>0, <2>1 DEF Thread!get_next_file, Phases, Thread!fault
    <3>1. CASE index < Len(list)
      <4>1. PICK f : f = list[index + 1]
        OBVIOUS
      <4>2. /\ Apart' /\ f \in Pending /\ Pending' = Pending \ {f} /\ index' = index + 1
        BY <1>0, <2>1, <3>0, <3>1, <4>1, IndexTake DEF Thread!get_next_file
      <4>3. /\ file' = [file EXCEPT ![w] = f] /\ wpc' = [wpc EXCEPT ![w] = "compare"]
            /\ taken' = [taken EXCEPT ![f] = @ + 1]
        BY <1>0, <2>1, <3>1, <4>1 DEF Thread!get_next_file, Thread!Goto, WorkerTypes
      <4>4. \A v \in Workers : /\ wpc'[v] = IF v = w THEN "compare" ELSE wpc[v]
                               /\ file'[v] = IF v = w THEN f ELSE file[v]
        BY <1>0, <4>3 DEF WorkerTypes
      <4>5. Take(w, f)
        BY <3>0, <4>2, <4>3, CleanSince DEF Take, Given
      <4>6. HandStep
        BY <1>0, <3>0, <4>2, <4>4, <4>5 DEF HandStep, Hands, WithFile
      <4>7. Counted'
        BY <1>0, <3>0 DEF Counted
      <4>8. mpc = "create" => \A v \in Workers : wpc[v] # "done"
        BY <1>0, <3>1 DEF Phases, MainTypes
      <4>9. Phases'
        BY <1>0, <1>a, <3>0, <4>4, <4>8 DEF Phases
      <4> QED
        BY <1>0, <4>2, <4>6, <4>7, <4>9, HandStepKeeps DEF HandInv
    <3>2. CASE ~(index < Len(list))
      <4>1. /\ wpc' = [wpc EXCEPT ![w] = "done"] /\ UNCHANGED <<file, index, taken>>
            /\ index = Len(list)
        BY <1>0, <2>1, <3>2 DEF Thread!get_next_file, Thread!Goto, MainTypes
      <4>2. \A v \in Workers : wpc'[v] = IF v = w THEN "done" ELSE wpc[v]
        BY <1>0, <4>1 DEF WorkerTypes
      <4>3. Apart' /\ Pending' = Pending
        BY <1>0, <3>0, <4>1, PlacesStay DEF Ahead
      <4>4. Drop
        BY <3>0, <4>1, <4>3, CleanSince DEF Drop, Given
      <4>5. HandStep
        BY <1>0, <3>0, <4>1, <4>2, <4>4 DEF HandStep, Hands, WithFile
      <4>6. Phases' /\ Counted'
        BY <1>0, <1>a, <3>0, <4>1, <4>2 DEF Phases, Counted
      <4> QED
        BY <1>0, <4>3, <4>5, <4>6, HandStepKeeps DEF HandInv
    <3> QED
      BY <3>1, <3>2
  <2>2. CASE Thread!CountFile(w)
    <3>0. /\ wpc[w] \in {"synced", "error"} /\ mpc \notin {"target", "tree", "scan"}
          /\ ~(mpc = "ended" /\ result = "ok") /\ ~(mpc = "create" /\ w >= started)
          /\ wpc' = [wpc EXCEPT ![w] = "get"] /\ file' = [file EXCEPT ![w] = NoFile]
          /\ UNCHANGED <<prog, dry, count, mpc, list, index, started, result, part, faults, taken>>
      BY <1>0, <2>2 DEF Thread!CountFile, Phases, Thread!fault, Thread!Goto
    <3>1. \A v \in Workers : /\ wpc'[v] = IF v = w THEN "get" ELSE wpc[v]
                             /\ file'[v] = IF v = w THEN NoFile ELSE file[v]
      BY <1>0, <3>0 DEF WorkerTypes
    <3>2. file[w] \in Files /\ file[w] \notin failed
      BY <1>0, <3>0 DEF WorkerTypes, Hands, WithFile
    <3>3. \/ wpc[w] = "error" /\ errors' = errors + 1 /\ failed' = failed \cup {file[w]}
          \/ UNCHANGED <<errors, failed>>
      BY <2>2 DEF Thread!CountFile
    <3>4. Apart' /\ Pending' = Pending
      BY <1>0, <3>0, PlacesStay DEF Ahead
    <3>5. Drop
      BY <3>0, <3>1, <3>3, <3>4, CleanSince DEF Drop, Given
    <3>6. HandStep
      BY <1>0, <3>0, <3>1, <3>5 DEF HandStep, Hands
    <3>7. Counted'
      <4>1. failed \in SUBSET Files /\ IsFiniteSet(failed)
        BY <1>0, FS_Subset DEF WorkerTypes
      <4>2. Cardinality(failed \cup {file[w]}) = Cardinality(failed) + 1
        BY <3>2, <4>1, FS_AddElement
      <4> QED
        BY <1>0, <3>0, <3>3, <4>2 DEF Counted
    <3>8. Phases'
      BY <1>0, <1>a, <3>0, <3>1 DEF Phases
    <3> QED
      BY <1>0, <3>4, <3>6, <3>7, <3>8, HandStepKeeps DEF HandInv
  <2>3. CASE ~Thread!get_next_file(w) /\ ~Thread!CountFile(w)
    <3>1. /\ wpc[w] \in WithFile
          /\ wpc' = wpc \/ \E label \in WithFile : wpc' = [wpc EXCEPT ![w] = label]
      BY <1>7, <2>3
      DEF Thread!worker_thread, Thread!Compare, Thread!create_directory, Thread!OpenFiles,
          Thread!CopyLoop, Thread!StampFile, Thread!LostPath, Thread!Goto, WithFile
    <3>2. UNCHANGED <<mainVars, dry, file, part, errors, taken, failed>>
      BY <1>7, <2>3
      DEF Thread!worker_thread, Thread!Compare, Thread!create_directory, Thread!OpenFiles,
          Thread!CopyLoop, Thread!StampFile, Thread!LostPath, mainVars
    <3>3. faults \subseteq faults'
      BY <1>7, <2>3, FaultsGrow
      DEF Thread!worker_thread, Thread!Compare, Thread!create_directory, Thread!OpenFiles,
          Thread!CopyLoop, Thread!StampFile, Thread!LostPath, Thread!Works, Thread!fault
    <3> QED
      BY <3>1, <3>2, <3>3, LabourKeeps DEF Labour
  <2> QED
    BY <2>1, <2>2, <2>3
<1> QED
    BY <1>1, <1>2, <1>3, <1>4, <1>5, <1>6, <1>7
    DEF Thread!Step, Thread!perform_sync, Thread!Workers, Workers

-----------------------------------------------------------------------------
\* A child gets the files that the parent has next in the list, and the last
\* child all that are left.
LEMMA ForkPlaces ==
    ASSUME SyncTypes, SyncTypes', Apart, mpc = "fork", started < count, started \in Workers,
           part[started] = <<>>, part' = [part EXCEPT ![started] = Process!Slice(started, index)],
           index' = index + Len(list) \div count, started' = started + 1,
           UNCHANGED <<prog, count, mpc, list>>
    PROVE  Apart' /\ Pending' = Pending
<1>0. MainTypes /\ WorkerTypes /\ Programs /\ prog = "process"
    BY DEF SyncTypes, Programs
<1>1. PICK slice \in Seq(Files) :
         /\ slice = Process!Slice(started, index)
         /\ \A k \in 1..Len(slice) : index + k \in 1..Len(list) /\ slice[k] = list[index + k]
         /\ Len(slice) = IF started = count - 1 THEN Len(list) - index ELSE Len(list) \div count
    BY <1>0, SliceFacts
<1>2. index \in 0..Len(list) /\ Len(list) \in Nat /\ count \in Nat /\ started \in Nat
    BY <1>0, ParameterFacts DEF MainTypes
<1>3. PICK m \in Nat : m = Len(slice)
    OBVIOUS
<1>4. Ahead = (index + 1)..Len(list) /\ Ahead' = (index + m + 1)..Len(list)
  <2>1. Ahead = (index + 1)..Len(list)
    BY DEF Ahead
  <2>2. CASE started = count - 1
    BY <1>0, <1>1, <1>2, <1>3, <2>2 DEF Ahead
  <2>3. CASE started # count - 1
    <3>1. started' < count' /\ index' = index + m
      BY <1>1, <1>2, <1>3, <2>3, SMTT(30)
    <3> QED
      BY <3>1, <1>0, <1>2 DEF Ahead
  <2> QED
    BY <2>1, <2>2, <2>3
<1>5. \A w \in Workers : part'[w] = IF w = started THEN slice ELSE part[w]
    BY <1>0, <1>1 DEF WorkerTypes
<1>6. \A w \in Workers : \A f : Has(w, f)' <=>
          IF w = started THEN \E k \in 1..m : list[index + k] = f ELSE Has(w, f)
  <2>1. \A w \in Workers : w # started => \A f : Has(w, f)' <=> Has(w, f)
    BY <1>5 DEF Has
  <2>0. PICK u \in Workers : u = started
    OBVIOUS
  <2>2. part'[u] = slice /\ \A k \in 1..m : slice[k] = list[index + k]
    BY <1>1, <1>3, <1>5, <2>0
  <2>3. \A f : Has(u, f)' <=> \E k \in 1..m : slice[k] = f
    BY <1>3, <2>2 DEF Has
  <2>4. \A f : Has(u, f)' <=> \E k \in 1..m : list[index + k] = f
    <3>1. ASSUME NEW f, Has(u, f)' PROVE \E k \in 1..m : list[index + k] = f
      <4>1. PICK k \in 1..m : slice[k] = f
        BY <2>3, <3>1
      <4>2. list[index + k] = f
        BY <2>2, <4>1
      <4> QED
        BY <4>2
    <3>2. ASSUME NEW f, NEW k \in 1..m, list[index + k] = f PROVE Has(u, f)'
      <4>1. slice[k] = f
        BY <2>2, <3>2
      <4> QED
        BY <2>3, <4>1
    <3> QED
      BY <3>1, <3>2
  <2> QED
    BY <2>0, <2>1, <2>4
<1>7. \A f : ~Has(started, f)
  <2>1. Len(part[started]) = 0
    OBVIOUS
  <2> QED
    BY <2>1 DEF Has
<1>8. \A f : Coming(f) <=> Coming(f)' \/ \E k \in 1..m : list[index + k] = f
  <2>1. index + m <= Len(list)
    BY <1>1, <1>2, <1>3
  <2>2. \A i \in (index + 1)..(index + m) : i - index \in 1..m /\ index + (i - index) = i
    BY <1>2
  <2>3. \A f : (\E i \in (index + 1)..(index + m) : list[i] = f)
                 <=> \E k \in 1..m : list[index + k] = f
    <3>1. \A k \in 1..m : index + k \in (index + 1)..(index + m)
      BY <1>2
    <3> QED
      BY <2>2, <3>1
  <2>4. Ahead = (index + 1)..(index + m) \cup Ahead'
    BY <1>2, <1>4, <2>1
  <2> QED
    BY <2>3, <2>4 DEF Coming
<1>9. \A f : ~(Coming(f)' /\ \E k \in 1..m : list[index + k] = f)
  <2>1. ASSUME NEW i \in (index + m + 1)..Len(list), NEW k \in 1..m
        PROVE  i \in 1..Len(list) /\ index + k \in 1..Len(list) /\ i # index + k
    <3>1. index + k \in 1..Len(list)
      BY <1>1, <1>3
    <3> QED
      BY <1>2, <3>1
  <2>2. \A i, j \in 1..Len(list) : list[i] = list[j] => i = j
    BY DEF Apart, Distinct
  <2> QED
    BY <1>4, <2>1, <2>2 DEF Coming
<1>10. Pending' = Pending
    BY <1>6, <1>7, <1>8 DEF Pending
<1>11. \A w \in Workers : Distinct(part[w])'
  <2>1. Distinct(slice)
    <3> SUFFICES ASSUME NEW i \in 1..Len(slice), NEW j \in 1..Len(slice), slice[i] = slice[j]
                 PROVE  i = j
      BY DEF Distinct
    <3>0. \A a, b \in 1..Len(list) : list[a] = list[b] => a = b
      BY DEF Apart, Distinct
    <3>1. index + i = index + j
      BY <1>1, <3>0
    <3> QED
      BY <1>2, <3>1
  <2> QED
    BY <1>5, <2>1 DEF Apart, Distinct
<1>12. \A v, w \in Workers, f \in Files : Has(v, f)' /\ Has(w, f)' => v = w
    BY <1>6, <1>8 DEF Apart
<1>13. \A w \in Workers, f \in Files : ~(Coming(f)' /\ Has(w, f)')
    BY <1>6, <1>8, <1>9 DEF Apart
<1>14. Distinct(list)' /\ (Len(list) <= Cardinality(Files))'
    BY DEF Apart, Distinct
<1> QED
    BY <1>0, <1>10, <1>11, <1>12, <1>13, <1>14 DEF Apart

\* A child takes the first file of its slice.
LEMMA SliceTake ==
    ASSUME SyncTypes, SyncTypes', Apart, NEW w \in Workers, part[w] # <<>>,
           part' = [part EXCEPT ![w] = Tail(@)], UNCHANGED <<prog, list>>, Ahead' = Ahead
    PROVE  /\ Apart' /\ Head(part[w]) \in Pending
           /\ Pending' = Pending \ {Head(part[w])}
<1>0. part \in [Workers -> Seq(Files)] /\ prog = "process"
    BY DEF SyncTypes, WorkerTypes, Apart
<1>1. PICK s \in Seq(Files), f \in Files, rest \in Seq(Files) :
         /\ s = part[w] /\ f = Head(s) /\ rest = Tail(s) /\ f = s[1]
         /\ Len(s) \in Nat \ {0} /\ Len(rest) = Len(s) - 1
         /\ \A i \in 1..Len(rest) : rest[i] = s[i + 1]
  <2>1. part[w] \in Seq(Files)
    BY <1>0
  <2>2. PICK s \in Seq(Files) : s = part[w]
    BY <2>1
  <2>3. s # <<>> /\ Len(s) \in Nat /\ Len(s) # 0
    BY <2>2, EmptySeq
  <2>4. /\ Head(s) \in Files /\ Head(s) = s[1] /\ Tail(s) \in Seq(Files)
        /\ Len(Tail(s)) = Len(s) - 1
        /\ \A i \in 1..Len(Tail(s)) : Tail(s)[i] = s[i + 1]
    BY <2>3, HeadTailProperties
  <2> QED
    BY <2>2, <2>3, <2>4
<1>2. \A v \in Workers : part'[v] = IF v = w THEN rest ELSE part[v]
    BY <1>0, <1>1
<1>3. Distinct(s) /\ \A v \in Workers : Distinct(part[v])
    BY <1>1 DEF Apart
<1>4. Distinct(rest)
  <2> SUFFICES ASSUME NEW i \in 1..Len(rest), NEW j \in 1..Len(rest), rest[i] = rest[j]
               PROVE  i = j
    BY DEF Distinct
  <2>1. i + 1 \in 1..Len(s) /\ j + 1 \in 1..Len(s) /\ s[i + 1] = s[j + 1]
    BY <1>1, SMTT(30)
  <2>2. i + 1 = j + 1
    BY <1>3, <2>1 DEF Distinct
  <2> QED
    BY <2>2
<1>5. \A g : (\E i \in 1..Len(rest) : rest[i] = g) <=> (\E i \in 1..Len(s) : s[i] = g) /\ g # f
  <2> SUFFICES ASSUME NEW g
               PROVE  (\E i \in 1..Len(rest) : rest[i] = g)
                        <=> (\E i \in 1..Len(s) : s[i] = g) /\ g # f
    OBVIOUS
  <2>1. ASSUME NEW i \in 1..Len(rest), rest[i] = g
        PROVE  (\E j \in 1..Len(s) : s[j] = g) /\ g # f
    <3>1. i + 1 \in 1..Len(s) /\ s[i + 1] = g /\ i + 1 # 1 /\ 1 \in 1..Len(s)
      BY <1>1, <2>1
    <3> QED
      BY <1>1, <1>3, <3>1 DEF Distinct
  <2>2. ASSUME NEW i \in 1..Len(s), s[i] = g, g # f
        PROVE  \E j \in 1..Len(rest) : rest[j] = g
    <3>1. i # 1
      BY <1>1, <2>2
    <3>2. i - 1 \in 1..Len(rest) /\ (i - 1) + 1 = i
      BY <1>1, <3>1
    <3> QED
      BY <1>1, <2>2, <3>2
  <2> QED
    BY <2>1, <2>2
<1>6. \A v \in Workers : \A g : Has(v, g)' <=> Has(v, g) /\ (v = w => g # f)
  <2>1. \A v \in Workers : v # w => \A g : Has(v, g)' <=> Has(v, g)
    BY <1>2 DEF Has
  <2>2. part'[w] = rest /\ part[w] = s
    BY <1>1, <1>2
  <2>3. \A g : Has(w, g)' <=> \E i \in 1..Len(rest) : rest[i] = g
    BY <2>2 DEF Has
  <2>4. \A g : Has(w, g) <=> \E i \in 1..Len(s) : s[i] = g
    BY <2>2 DEF Has
  <2> QED
    BY <1>5, <2>1, <2>3, <2>4, ZenonT(30)
<1>7. Has(w, f)
  <2>1. 1 \in 1..Len(s) /\ s[1] = f
    BY <1>1
  <2>2. 1 \in 1..Len(part[w]) /\ part[w][1] = f
    BY <1>1, <2>1
  <2> QED
    BY <2>2 DEF Has
<1>8. \A g : Coming(g)' <=> Coming(g)
    BY DEF Coming
<1>9. f \in Pending /\ Pending' = Pending \ {f}
    BY <1>1, <1>6, <1>7, <1>8, SMTT(30) DEF Pending, Apart
<1>10. Apart'
    BY <1>0, <1>2, <1>3, <1>4, <1>6, <1>8, SMTT(30) DEF Apart, Distinct
<1> QED
    BY <1>1, <1>9, <1>10

\* The children take the files of their slices, in order.
LEMMA ProcessHands ==
    HandInv /\ SyncTypes' /\ prog = "process" /\ Process!Step => HandInv'
<1> SUFFICES ASSUME HandInv, SyncTypes', prog = "process", Process!Step PROVE HandInv'
    OBVIOUS
<1> USE DEF NoFault, SomeFault, Process!main, Process!workers, Process!history, Process!given
<1>0. /\ SyncTypes /\ Apart /\ Hands /\ Phases /\ Counted /\ Covered
      /\ MainTypes /\ WorkerTypes /\ Programs
    BY DEF HandInv, SyncTypes
<1>b. /\ count \in Nat \ {0} /\ started \in 0..count
      /\ \A i \in 0..(count - 1) : i \in Workers
    BY <1>0, ParameterFacts DEF MainTypes
<1>c. \A w \in Workers : w \in Nat
    BY DEF Workers
<1>1. CASE Process!CheckDirectories
  <2>1. Shrinks
    <3>1. UNCHANGED <<list, index, prog, count, started, part>> \/ (list' = <<>> /\ prog' = prog /\ part' = part)
      BY <1>1 DEF Process!CheckDirectories, Process!Return
    <3>2. mpc # "fork" /\ mpc' # "fork"
      BY <1>1 DEF Process!CheckDirectories, Process!Return
    <3> QED
      BY <3>1, <3>2 DEF Shrinks, Ahead
  <2>2. \/ mpc' = "tree" /\ result' = result
        \/ mpc' = "ended" /\ result' = "failed"
    BY <1>1 DEF Process!CheckDirectories, Process!Return
  <2>3. Given' => ~Clean'
    BY <2>2 DEF Given, Clean
  <2> QED
    BY <1>1, <2>1, <2>2, <2>3, BeforeTheList DEF Process!CheckDirectories
<1>2. CASE Process!sync_directory_structure
  <2>1. Shrinks
    BY <1>2 DEF Process!sync_directory_structure, Shrinks, Ahead
  <2>2. mpc' = "scan" /\ result' = result /\ ~Given'
    BY <1>2 DEF Process!sync_directory_structure, Given
  <2> QED
    BY <1>2, <2>1, <2>2, BeforeTheList DEF Process!sync_directory_structure
<1>3. CASE Process!traverse_directory
  <2>1. PICK F \in SUBSET Files :
           /\ \/ Process!Works /\ F = Files
              \/ Process!Fails("opendir")
           /\ IF F = {} THEN Process!Return("ok")
              ELSE /\ list' = Listed(F) /\ index' = 0
                   /\ mpc' = "fork" /\ UNCHANGED result
    BY <1>3 DEF Process!traverse_directory, Process!Listed, Listed
  <2>2. /\ UNCHANGED <<prog, dry, count, started, wpc, file, part, errors, taken, failed>>
        /\ mpc = "scan" /\ started = 0
    BY <1>0, <1>3 DEF Process!traverse_directory, Programs
  <2>3. Clean' => F = Files
    BY <2>1, <2>2, Overlooked
  <2>4. CASE F = {}
    <3>1. list' = <<>> /\ index' = 0 /\ mpc' = "ended" /\ result' = "ok"
      BY <2>1, <2>4 DEF Process!Return
    <3>2. Shrinks /\ Len(list') = 0
      BY <2>2, <3>1 DEF Shrinks
    <3>3. ~Clean' \/ Files = {}
      BY <2>3, <2>4
    <3> QED
      BY <2>2, <3>1, <3>2, <3>3, BeforeTheList
  <2>5. CASE F # {}
    <3>1. list' = Listed(F) /\ index' = 0 /\ mpc' = "fork" /\ result' = result
      BY <2>1, <2>5
    <3>2. \A w \in Workers : part'[w] = <<>>
      BY <1>0, <2>2 DEF Phases
    <3>3. started' < count'
      BY <1>b, <2>2
    <3>4. Apart' /\ Pending' = F
      BY <3>1, <3>2, <3>3, NewList
    <3> QED
      BY <2>2, <2>3, <3>1, <3>4, BeforeTheFirst
  <2> QED
    BY <2>4, <2>5
<1>4. CASE Process!ForkChild
  <2>0. /\ mpc = "fork" /\ started < count /\ started \in Workers /\ result = "none"
        /\ wpc[started] = "none" /\ part[started] = <<>>
        /\ UNCHANGED <<prog, dry, count, file, errors, taken, failed>>
    <3>1. mpc = "fork" /\ started < count /\ started \in Workers
      BY <1>4, <1>b DEF Process!ForkChild
    <3>2. wpc[started] = "none"
      BY <1>0, <1>b, <3>1 DEF Phases
    <3> QED
      BY <1>0, <1>4, <3>1, <3>2 DEF Process!ForkChild, Phases
  <2>1. CASE mpc' = "fork"
    <3>1. /\ wpc' = [wpc EXCEPT ![started] = "next"] /\ started' = started + 1
          /\ part' = [part EXCEPT ![started] = Process!Slice(started, index)]
          /\ index' = index + Len(list) \div count
          /\ UNCHANGED <<mpc, list, result>> /\ faults' = faults
      BY <1>4, <2>1, FaultsGrow DEF Process!ForkChild, Process!Return, Process!Goto
    <3>2. \A v \in Workers : wpc'[v] = IF v = started THEN "next" ELSE wpc[v]
      BY <1>0, <3>1 DEF WorkerTypes
    <3>3. Apart' /\ Pending' = Pending
      BY <1>0, <2>0, <3>1, ForkPlaces
    <3>4. Drop
      BY <2>0, <3>1, <3>3, CleanSince DEF Drop, Given
    <3>5. HandStep
      BY <1>0, <2>0, <3>1, <3>2, <3>4, CleanSince DEF HandStep, Hands, Covered, WithFile
    <3>6. Counted'
      BY <1>0, <2>0 DEF Counted
    <3>7. \A v \in Workers : v >= started' => v >= started /\ v # started
      BY <1>b, <1>c, <3>1
    <3>8. \A v \in Workers : v # started => part'[v] = part[v]
      BY <1>0, <3>1 DEF WorkerTypes
    <3>9. Phases'
      BY <1>0, <2>0, <3>1, <3>2, <3>7, <3>8 DEF Phases
    <3> QED
      BY <1>0, <3>3, <3>5, <3>6, <3>9, HandStepKeeps DEF HandInv
  <2>2. CASE mpc' # "fork"
    <3>1. /\ list' = <<>> /\ index' = 0 /\ mpc' = "ended" /\ result' = "failed"
          /\ UNCHANGED <<wpc, part>>
      BY <1>4, <2>0, <2>2 DEF Process!ForkChild, Process!Return
    <3>2. Shrinks
      BY <2>0, <3>1 DEF Shrinks
    <3>3. Apart' /\ Pending' \subseteq Pending /\ ~Clean'
      BY <1>0, <3>1, <3>2, PlacesShrink DEF Clean
    <3>4. HandStep
      BY <1>0, <2>0, <3>1, <3>3 DEF HandStep, Drop, Hands
    <3>5. Phases' /\ Counted'
      BY <1>0, <2>0, <3>1 DEF Phases, Counted
    <3> QED
      BY <1>0, <3>3, <3>4, <3>5, HandStepKeeps DEF HandInv
  <2> QED
    BY <2>1, <2>2
<1>5. CASE Process!WaitChildren
  <2>1. /\ mpc = "fork" /\ started = count /\ \A w \in 0..(count - 1) : wpc[w] = "done"
        /\ list' = <<>> /\ index' = 0 /\ mpc' = "ended" /\ result' = "ok"
        /\ UNCHANGED <<prog, dry, wpc, file, part, errors, taken, failed, faults>>
    BY <1>5 DEF Process!WaitChildren, Process!Return, Process!ExitStatus, Process!fault
  <2>2. Shrinks
    BY <2>1 DEF Shrinks
  <2>3. Apart' /\ Pending' \subseteq Pending
    BY <1>0, <2>2, PlacesShrink
  <2>4. \A w \in Workers : wpc[w] \in {"none", "done"}
    BY <1>0, <1>b, <1>c, <2>1 DEF Phases
  <2>5. Pending = {}
    <3>1. Ahead = {}
      BY <1>b, <2>1 DEF Ahead
    <3>2. \A w \in Workers : Len(part[w]) = 0
      BY <1>0, <2>4 DEF Phases
    <3> QED
      BY <3>1, <3>2 DEF Pending, Coming, Has
  <2>6. result = "none" /\ errors = 0
    BY <1>0, <2>1 DEF Phases, Counted
  <2>7. Drop
    BY <2>1, <2>3, <2>5, <2>6, CleanSince DEF Drop, Given
  <2>8. HandStep
    BY <1>0, <2>1, <2>6, <2>7, CleanSince DEF HandStep, Hands, Covered
  <2>9. Phases' /\ Counted'
    BY <1>0, <2>1, <2>4, <2>6 DEF Phases, Counted
  <2> QED
    BY <1>0, <2>3, <2>8, <2>9, HandStepKeeps DEF HandInv
<1>6. ASSUME NEW w \in Workers, Process!ChildDies(w) PROVE HandInv'
  <2>1. /\ wpc[w] \notin {"none", "done"} /\ wpc' = [wpc EXCEPT ![w] = "done"]
        /\ file' = [file EXCEPT ![w] = NoFile] /\ part' = [part EXCEPT ![w] = <<>>]
        /\ UNCHANGED <<mainVars, dry, errors, taken, failed>>
    BY <1>6 DEF Process!ChildDies, Process!Busy, Process!Goto, mainVars
  <2>2. \A v \in Workers : /\ wpc'[v] = IF v = w THEN "done" ELSE wpc[v]
                           /\ file'[v] = IF v = w THEN NoFile ELSE file[v]
                           /\ part'[v] = IF v = w THEN <<>> ELSE part[v]
    BY <1>0, <2>1 DEF WorkerTypes
  <2>3. Shrinks
    BY <2>1, <2>2 DEF Shrinks, Ahead, mainVars
  <2>4. Apart' /\ Pending' \subseteq Pending
    BY <1>0, <2>3, PlacesShrink
  <2>5. ~Clean'
    BY <1>6, <2>1, Overlooked DEF Process!ChildDies, mainVars
  <2>6. HandStep
    BY <1>0, <2>1, <2>2, <2>4, <2>5 DEF HandStep, Drop, Hands
  <2>7. Counted' /\ mpc # "create"
    BY <1>0, <2>1 DEF Counted, Programs, mainVars
  <2>8. Phases'
    BY <1>0, <2>1, <2>2, <2>7 DEF Phases, mainVars
  <2> QED
    BY <1>0, <2>4, <2>6, <2>7, <2>8, HandStepKeeps DEF HandInv
<1>7. ASSUME NEW w \in Workers, Process!worker_process(w) PROVE HandInv'
  <2>1. CASE Process!NextFile(w)
    <3>0. /\ wpc[w] \in {"next", "synced", "error"}
          /\ UNCHANGED <<mainVars, dry, errors, faults>>
          /\ failed' = IF wpc[w] = "error" THEN failed \cup {file[w]} ELSE failed
      BY <2>1 DEF Process!NextFile, mainVars, Process!fault
    <3>1. mpc # "create" /\ Ahead' = Ahead /\ Counted'
      BY <1>0, <3>0 DEF Programs, Ahead, Counted, mainVars
    <3>2. (Clean' => Clean) /\ (Given' <=> Given)
      BY <3>0, CleanSince DEF Given, mainVars
    <3>3. Clean => failed' = {}
      BY <1>0, <3>0 DEF Covered
    <3>4. CASE part[w] # <<>>
      <4>1. PICK f : f = Head(part[w])
        OBVIOUS
      <4>2. /\ file' = [file EXCEPT ![w] = f] /\ part' = [part EXCEPT ![w] = Tail(@)]
            /\ taken' = [taken EXCEPT ![f] = @ + 1] /\ wpc' = [wpc EXCEPT ![w] = "compare"]
        BY <2>1, <3>4, <4>1 DEF Process!NextFile, Process!Goto
      <4>3. Apart' /\ f \in Pending /\ Pending' = Pending \ {f}
        BY <1>0, <3>0, <3>1, <3>4, <4>1, <4>2, SliceTake DEF mainVars
      <4>4. \A v \in Workers : /\ wpc'[v] = IF v = w THEN "compare" ELSE wpc[v]
                               /\ file'[v] = IF v = w THEN f ELSE file[v]
                               /\ v # w => part'[v] = part[v]
        BY <1>0, <4>2 DEF WorkerTypes
      <4>5. Take(w, f)
        BY <3>0, <3>2, <4>2, <4>3 DEF Take
      <4>6. HandStep
        BY <1>0, <3>2, <3>3, <4>3, <4>4, <4>5 DEF HandStep, Hands, Covered, WithFile
      <4>7. Phases'
        BY <1>0, <3>0, <3>1, <4>4 DEF Phases, mainVars
      <4> QED
        BY <1>0, <3>1, <4>3, <4>6, <4>7, HandStepKeeps DEF HandInv
    <3>5. CASE part[w] = <<>>
      <4>1. /\ file' = [file EXCEPT ![w] = NoFile] /\ UNCHANGED <<part, taken>>
            /\ wpc' = [wpc EXCEPT ![w] = "done"]
        BY <2>1, <3>5 DEF Process!NextFile, Process!Goto
      <4>2. Apart' /\ Pending' = Pending
        BY <1>0, <3>0, <3>1, <4>1, PlacesStay DEF mainVars
      <4>3. \A v \in Workers : /\ wpc'[v] = IF v = w THEN "done" ELSE wpc[v]
                               /\ file'[v] = IF v = w THEN NoFile ELSE file[v]
        BY <1>0, <4>1 DEF WorkerTypes
      <4>4. Drop
        BY <3>0, <3>2, <4>1, <4>2, <4>3 DEF Drop
      <4>5. HandStep
        BY <1>0, <3>2, <3>3, <4>3, <4>4 DEF HandStep, Hands, Covered
      <4>6. Phases'
        BY <1>0, <3>0, <3>1, <3>5, <4>1, <4>3 DEF Phases, mainVars
      <4> QED
        BY <1>0, <3>1, <4>2, <4>5, <4>6, HandStepKeeps DEF HandInv
    <3> QED
      BY <3>4, <3>5
  <2>2. CASE ~Process!NextFile(w)
    <3>1. /\ wpc[w] \in WithFile
          /\ wpc' = wpc \/ \E label \in WithFile : wpc' = [wpc EXCEPT ![w] = label]
      BY <1>7, <2>2
      DEF Process!worker_process, Process!Compare, Process!create_directory, Process!OpenFiles,
          Process!CopyLoop, Process!Goto, WithFile
    <3>2. UNCHANGED <<mainVars, dry, file, part, errors, taken, failed>>
      BY <1>7, <2>2
      DEF Process!worker_process, Process!Compare, Process!create_directory, Process!OpenFiles,
          Process!CopyLoop, mainVars
    <3>3. faults \subseteq faults'
      BY <1>7, <2>2, FaultsGrow
      DEF Process!worker_process, Process!Compare, Process!create_directory, Process!OpenFiles,
          Process!CopyLoop, Process!Works, Process!fault
    <3>4. ASSUME wpc'[w] = "error", wpc[w] # "error" PROVE ~Clean'
      <4>1. w \in DOMAIN wpc
        BY <1>0 DEF WorkerTypes
      <4>2. \E kind \in {"mkdir", "open", "write"} : Process!Fails(kind)
        BY <1>7, <2>2, <3>4, <4>1
        DEF Process!worker_process, Process!Compare, Process!create_directory,
            Process!OpenFiles, Process!CopyLoop, Process!Goto
      <4> QED
        BY <3>2, <4>2, Overlooked DEF mainVars
    <3> QED
      BY <3>1, <3>2, <3>3, <3>4, LabourKeeps DEF Labour
  <2> QED
    BY <2>1, <2>2
<1> QED
    BY <1>1, <1>2, <1>3, <1>4, <1>5, <1>6, <1>7
    DEF Process!Step, Process!perform_sync, Process!Workers, Workers

-----------------------------------------------------------------------------
\* An error ends the walk of the simple version; nothing is in hand any more.
LEMMA QuitHands ==
    ASSUME HandInv, SyncTypes', prog = "simple", Simple!Quit,
           UNCHANGED <<prog, list, index, part, taken, errors>>
    PROVE  HandInv'
<1>0. /\ SyncTypes /\ Apart /\ Hands /\ Phases /\ Counted /\ Covered
      /\ WorkerTypes /\ 0 \in Workers
    BY ParameterFacts DEF HandInv, SyncTypes
<1>1. \A v \in Workers : /\ wpc'[v] = IF v = 0 THEN "done" ELSE wpc[v]
                         /\ file'[v] = IF v = 0 THEN NoFile ELSE file[v]
    BY <1>0 DEF Simple!Quit, Simple!Goto, Simple!Me, WorkerTypes
<1>2. Apart' /\ Pending' = Pending
    BY <1>0, PlacesStay DEF Ahead
<1>3. /\ mpc' = "ended" /\ result' = "failed" /\ ~Clean'
      /\ \A f \in failed' : f \in failed \/ f = file[0]
    BY DEF Simple!Quit, Simple!Me, Clean
<1>4. HandStep
    BY <1>0, <1>1, <1>2, <1>3 DEF HandStep, Drop, Hands
<1>5. Phases' /\ Counted'
    BY <1>0, <1>1, <1>3 DEF Phases, Counted, Apart
<1> QED
    BY <1>0, <1>2, <1>4, <1>5, HandStepKeeps DEF HandInv

\* The walk takes the files in the order of the list.
LEMMA SimpleHands ==
    HandInv /\ SyncTypes' /\ prog = "simple" /\ Simple!Step => HandInv'
<1> SUFFICES ASSUME HandInv, SyncTypes', prog = "simple", Simple!Step PROVE HandInv'
    OBVIOUS
<1> USE DEF NoFault, SomeFault, Simple!main, Simple!workers, Simple!history, Simple!given,
        Simple!Me, Simple!Goto
<1>0. /\ SyncTypes /\ Apart /\ Hands /\ Phases /\ Counted /\ Covered
      /\ MainTypes /\ WorkerTypes /\ 0 \in Workers
    BY ParameterFacts DEF HandInv, SyncTypes
<1>a. \A w \in Workers : part[w] = <<>>
    BY <1>0 DEF Apart
<1>b. wpc[0] \notin {"none", "done"} => mpc = "walk" /\ result = "none"
    BY <1>0 DEF Phases
<1>c. \A label : wpc' = [wpc EXCEPT ![0] = label] =>
          \A v \in Workers : wpc'[v] = IF v = 0 THEN label ELSE wpc[v]
    BY <1>0 DEF WorkerTypes
<1>d. CASE Simple!Quit /\ UNCHANGED <<prog, list, index, part, taken, errors>>
    BY <1>d, QuitHands
<1>1. CASE Simple!Open
  <2>1. SUFFICES ASSUME ~Simple!Quit PROVE HandInv'
    BY <1>1, <1>d DEF Simple!Open, Simple!Quit
  <2>2. /\ mpc = "target" /\ list' = Listed(Files) /\ index' = 0 /\ mpc' = "walk"
        /\ wpc' = [wpc EXCEPT ![0] = "entry"]
        /\ UNCHANGED <<result, failed, file, part, errors, taken, prog, dry>>
    BY <1>1, <2>1 DEF Simple!Open, Simple!Listed, Listed
  <2>3. Files \in SUBSET Files /\ Apart' /\ Pending' = Files
    BY <1>a, <2>2, NewList
  <2>4. /\ failed = {} /\ result = "none" /\ \A f \in Files : taken[f] = 0
        /\ \A w \in Workers : wpc[w] = "none"
    BY <1>0, <2>2 DEF Phases
  <2>5. \A w \in Workers : file[w] = NoFile
    BY <1>0, <2>4 DEF Hands, WithFile
  <2>6. \A v \in Workers : wpc'[v] = IF v = 0 THEN "entry" ELSE "none"
    BY <1>0, <2>2, <2>4 DEF WorkerTypes
  <2>7. HandStep
    BY <2>2, <2>3, <2>4, <2>5, <2>6 DEF HandStep, Fresh
  <2>8. Phases' /\ Counted'
    BY <1>0, <1>a, <2>2, <2>4, <2>6 DEF Phases, Counted
  <2> QED
    BY <1>0, <2>3, <2>7, <2>8, HandStepKeeps DEF HandInv
<1>2. CASE Simple!Entry
  <2>1. SUFFICES ASSUME ~Simple!Quit PROVE HandInv'
    BY <1>2, <1>b, <1>d DEF Simple!Entry, Simple!Going, Simple!Quit
  <2>2. /\ wpc[0] = "entry" /\ index < Len(list) /\ index' = index + 1
        /\ UNCHANGED <<mpc, list, result, failed, part, errors, prog, dry>>
        /\ faults \subseteq faults'
    BY <1>2, <2>1, FaultsGrow DEF Simple!Entry, Simple!Going
  <2>3. PICK f : f = list[index + 1]
    OBVIOUS
  <2>4. Apart' /\ f \in Pending /\ Pending' = Pending \ {f}
    BY <1>0, <2>2, <2>3, IndexTake
  <2>5. (Clean' => Clean) /\ Given' /\ Given /\ mpc = "walk"
    BY <1>b, <2>2, CleanSince DEF Given
  <2>6. CASE wpc' = [wpc EXCEPT ![0] = "compare"] /\ taken' # taken
    <3>1. /\ file' = [file EXCEPT ![0] = f] /\ taken' = [taken EXCEPT ![f] = @ + 1]
      BY <1>0, <1>2, <2>1, <2>3, <2>6 DEF Simple!Entry, WorkerTypes
    <3>2. \A v \in Workers : /\ wpc'[v] = IF v = 0 THEN "compare" ELSE wpc[v]
                             /\ file'[v] = IF v = 0 THEN f ELSE file[v]
      BY <1>0, <1>c, <2>6, <3>1 DEF WorkerTypes
    <3>3. Take(0, f)
      BY <2>2, <2>4, <2>5, <3>1 DEF Take
    <3>4. HandStep
      BY <1>0, <2>2, <2>4, <2>5, <3>2, <3>3 DEF HandStep, Hands, Covered, WithFile
    <3>5. Phases' /\ Counted'
      BY <1>0, <1>a, <2>2, <2>5, <3>2 DEF Phases, Counted
    <3> QED
      BY <1>0, <2>4, <3>4, <3>5, HandStepKeeps DEF HandInv
  <2>7. CASE ~(wpc' = [wpc EXCEPT ![0] = "compare"] /\ taken' # taken)
    <3>0. f \in Files /\ taken[f] = 0
      BY <1>0, <2>4 DEF Hands, Pending
    <3>1. Simple!Fails("stat") /\ UNCHANGED <<wpc, file, taken>>
      <4>1. ASSUME wpc' = [wpc EXCEPT ![0] = "compare"], file' = [file EXCEPT ![0] = f],
                   taken' = [taken EXCEPT ![file'[0]] = @ + 1]
            PROVE  FALSE
        <5>1. file'[0] = f
          BY <1>0, <4>1 DEF WorkerTypes
        <5>2. taken'[f] = 1
          BY <1>0, <3>0, <4>1, <5>1 DEF WorkerTypes
        <5> QED
          BY <2>7, <3>0, <4>1, <5>2
      <4> QED
        BY <1>2, <2>1, <2>3, <4>1 DEF Simple!Entry, Simple!Going
    <3>2. ~Clean'
      BY <2>2, <3>1, Overlooked
    <3>3. HandStep
      BY <1>0, <2>2, <2>4, <3>1, <3>2 DEF HandStep, Drop, Hands
    <3>4. Phases' /\ Counted'
      BY <1>0, <2>2, <2>5, <3>1 DEF Phases, Counted
    <3> QED
      BY <1>0, <2>4, <3>3, <3>4, HandStepKeeps DEF HandInv
  <2> QED
    BY <2>6, <2>7
<1>3. CASE Simple!EndOfWalk
  <2>1. /\ wpc[0] = "entry" /\ index = Len(list) /\ mpc' = "ended" /\ result' = "ok"
        /\ wpc' = [wpc EXCEPT ![0] = "done"]
        /\ UNCHANGED <<list, index, file, part, errors, taken, failed, prog, dry, faults>>
    BY <1>3 DEF Simple!EndOfWalk, Simple!fault
  <2>2. \A v \in Workers : wpc'[v] = IF v = 0 THEN "done" ELSE wpc[v]
    BY <1>c, <2>1
  <2>3. Apart' /\ Pending' = Pending
    BY <1>0, <2>1, PlacesStay DEF Ahead
  <2>4. mpc = "walk" /\ result = "none" /\ errors = 0 /\ Counted'
    BY <1>0, <1>b, <2>1 DEF Counted
  <2>5. Clean' => Clean
    BY <2>1, <2>4, CleanSince
  <2>6. Drop
    BY <2>1, <2>3, <2>4, <2>5 DEF Drop, Given
  <2>7. HandStep
    BY <1>0, <2>1, <2>2, <2>5, <2>6 DEF HandStep, Hands, Covered, WithFile
  <2>8. Phases'
    BY <1>0, <1>a, <2>1, <2>2, <2>4 DEF Phases
  <2> QED
    BY <1>0, <2>3, <2>4, <2>7, <2>8, HandStepKeeps DEF HandInv
<1>4. CASE Simple!Synced
  <2>1. /\ wpc[0] = "synced" /\ file' = [file EXCEPT ![0] = NoFile]
        /\ wpc' = [wpc EXCEPT ![0] = "entry"]
        /\ UNCHANGED <<mpc, list, index, result, part, errors, taken, failed, prog, dry, faults>>
    BY <1>4 DEF Simple!Synced, Simple!fault
  <2>2. \A v \in Workers : /\ wpc'[v] = IF v = 0 THEN "entry" ELSE wpc[v]
                           /\ file'[v] = IF v = 0 THEN NoFile ELSE file[v]
    BY <1>0, <1>c, <2>1 DEF WorkerTypes
  <2>3. Apart' /\ Pending' = Pending
    BY <1>0, <2>1, PlacesStay DEF Ahead
  <2>4. mpc = "walk" /\ (Clean' => Clean) /\ Counted'
    BY <1>0, <1>b, <2>1, CleanSince DEF Counted
  <2>5. Drop
    BY <2>1, <2>2, <2>3, <2>4 DEF Drop, Given
  <2>6. HandStep
    BY <1>0, <2>1, <2>2, <2>4, <2>5 DEF HandStep, Hands, Covered
  <2>7. Phases'
    BY <1>0, <1>a, <2>1, <2>2, <2>4 DEF Phases
  <2> QED
    BY <1>0, <2>3, <2>4, <2>6, <2>7, HandStepKeeps DEF HandInv
<1>5. CASE \/ Simple!Compare \/ Simple!create_directory_recursive \/ Simple!OpenFiles
           \/ Simple!copy_file_data \/ Simple!copy_file_attributes
  <2>1. SUFFICES ASSUME ~Simple!Quit PROVE HandInv'
    BY <1>5, <1>d
    DEF Simple!Compare, Simple!create_directory_recursive, Simple!OpenFiles,
        Simple!copy_file_data, Simple!copy_file_attributes
  <2>2. /\ wpc[0] \in WithFile \ {"error"}
        /\ wpc' = wpc \/ \E label \in WithFile \ {"error"} : wpc' = [wpc EXCEPT ![0] = label]
    BY <1>5, <2>1
    DEF Simple!Compare, Simple!create_directory_recursive, Simple!OpenFiles,
        Simple!copy_file_data, Simple!copy_file_attributes, WithFile
  <2>3. UNCHANGED <<mainVars, dry, file, part, errors, taken, failed>>
    BY <1>5, <2>1
    DEF Simple!Compare, Simple!create_directory_recursive, Simple!OpenFiles,
        Simple!copy_file_data, Simple!copy_file_attributes, Simple!Going, mainVars
  <2>4. faults \subseteq faults'
    BY <1>5, FaultsGrow
    DEF Simple!Compare, Simple!create_directory_recursive, Simple!OpenFiles,
        Simple!copy_file_data, Simple!copy_file_attributes
  <2>5. wpc'[0] # "error"
    BY <1>0, <1>c, <2>2
  <2> QED
    BY <1>0, <2>2, <2>3, <2>4, <2>5, LabourKeeps DEF Labour
<1> QED
    BY <1>1, <1>2, <1>3, <1>4, <1>5 DEF Simple!Step, Simple!sync_file

-----------------------------------------------------------------------------
\* Nothing has been given to anybody before the first run.
LEMMA HandInvInit == Init => HandInv
<1> SUFFICES ASSUME Init PROVE HandInv
    OBVIOUS
<1>1. SyncTypes
    BY SyncTypesInit
<1>2. /\ list = <<>> /\ Len(list) = 0 /\ index = 0 /\ failed = {} /\ prog = "simple"
      /\ mpc = "idle" /\ errors = 0 /\ result = "none"
      /\ \A w \in Workers : wpc[w] = "none" /\ file[w] = NoFile /\ part[w] = <<>>
      /\ \A w \in Workers : Len(part[w]) = 0
      /\ \A f \in Files : taken[f] = 0
    BY DEF Init
<1>3. Ahead = {}
    BY <1>2 DEF Ahead
<1>4. \A f : ~Coming(f) /\ \A w \in Workers : ~Has(w, f)
    BY <1>2, <1>3 DEF Coming, Has
<1>5. Cardinality(Files) \in Nat
    BY FS_CardinalityType
<1>6. Apart
  <2>1. Distinct(list) /\ \A w \in Workers : Distinct(part[w])
    BY <1>2 DEF Distinct
  <2>2. Len(list) <= Cardinality(Files)
    BY <1>2, <1>5
  <2>3. \A w \in Workers, f \in Files : ~Has(w, f)
    BY <1>4
  <2> QED
    BY <1>2, <2>1, <2>2, <2>3 DEF Apart
<1>7. Hands /\ Covered
    BY <1>2, <1>4 DEF Hands, Covered, Given
<1>8. Phases /\ Counted
    BY <1>2, ParameterFacts DEF Phases, Counted
<1> QED
    BY <1>1, <1>6, <1>7, <1>8 DEF HandInv

\* Runs start with empty hands, and end so when they are interrupted.
LEMMA HandInvStep == HandInv /\ [Next]_vars => HandInv'
<1> SUFFICES ASSUME HandInv, [Next]_vars PROVE HandInv'
    OBVIOUS
<1>0. /\ SyncTypes /\ Apart /\ Hands /\ Phases /\ Counted /\ Covered /\ MainTypes
      /\ WorkerTypes /\ 0 \in Workers
    BY ParameterFacts DEF HandInv, SyncTypes
<1>1. SyncTypes'
    BY <1>0, SyncTypesStep
<1>2. CASE Step
    BY <1>1, <1>2, ThreadHands, ProcessHands, SimpleHands DEF Step
<1>3. CASE StartThread \/ StartProcess \/ StartSimple
  <2>1. /\ mpc' = "target" /\ list' = <<>> /\ index' = 0 /\ result' = "none" /\ errors' = 0
        /\ failed' = {} /\ NoWorkers /\ \A f \in Files : taken'[f] = 0
    BY <1>3 DEF StartThread, StartProcess, StartSimple, Start
  <2>2. /\ \A w \in Workers : wpc'[w] = "none" /\ file'[w] = NoFile /\ part'[w] = <<>>
        /\ \A w \in Workers : Len(part'[w]) = 0
        /\ Len(list') = 0 /\ Cardinality(failed') = 0
    BY <2>1, FS_EmptySet DEF NoWorkers
  <2>3. Ahead' = {}
    BY <2>1, <2>2 DEF Ahead
  <2>4. \A f : ~Coming(f)' /\ \A w \in Workers : ~Has(w, f)'
    BY <2>2, <2>3 DEF Coming, Has
  <2>5. Apart'
    <3>1. Cardinality(Files) \in Nat
      BY FS_CardinalityType
    <3>2. Distinct(list)' /\ \A w \in Workers : Distinct(part[w])'
      BY <2>2 DEF Distinct
    <3>3. Len(list') <= Cardinality(Files)
      BY <2>2, <3>1
    <3>4. \A w \in Workers, f \in Files : ~Has(w, f)'
      BY <2>4
    <3> QED
      BY <2>2, <3>2, <3>3, <3>4 DEF Apart
  <2>6. HandStep
    BY <2>1, <2>2 DEF HandStep, Fresh, Given
  <2>7. Phases' /\ Counted'
    BY <1>0, <2>1, <2>2 DEF Phases, Counted
  <2> QED
    BY <1>0, <1>1, <2>5, <2>6, <2>7, HandStepKeeps DEF HandInv
<1>4. CASE Interrupt
  <2>1. /\ mpc' = "idle" /\ result' = "none" /\ NoWorkers
        /\ UNCHANGED <<list, index, started, errors, taken, failed, prog, dry, count>>
    BY <1>4 DEF Interrupt, history, given
  <2>2. /\ \A w \in Workers : wpc'[w] = "none" /\ file'[w] = NoFile /\ part'[w] = <<>>
    BY <2>1 DEF NoWorkers
  <2>3. Shrinks
    BY <2>1, <2>2 DEF Shrinks, Ahead
  <2>4. Apart' /\ Pending' \subseteq Pending
    BY <1>0, <1>1, <2>3, PlacesShrink
  <2>5. ~Clean'
    BY <1>0, <1>4, <2>1, Overlooked DEF Interrupt, SomeFault, MainTypes
  <2>6. HandStep
    BY <2>1, <2>2, <2>4, <2>5 DEF HandStep, Drop
  <2>7. Phases' /\ Counted'
    BY <1>0, <2>1, <2>2 DEF Phases, Counted
  <2> QED
    BY <1>0, <1>1, <2>4, <2>6, <2>7, HandStepKeeps DEF HandInv
<1>5. CASE Tick \/ UNCHANGED vars \/ \E f \in Files : Edit(f)
  <2>1. UNCHANGED <<mpc, list, index, started, result, wpc, file, part, errors, taken, failed,
                    prog, dry, count, faults>>
    BY <1>5 DEF Tick, Edit, vars, main, workers, history, fault, given
  <2>2. Apart' /\ Pending' = Pending
    BY <1>0, <2>1, PlacesStay DEF Ahead
  <2>3. Hands' /\ Phases' /\ Counted'
    BY <1>0, <2>1, <2>2 DEF Hands, Phases, Counted
  <2>4. Covered'
    BY <1>0, <2>1, <2>2 DEF Covered, Clean, Given
  <2> QED
    BY <1>1, <2>2, <2>3, <2>4 DEF HandInv
<1> QED
    BY <1>2, <1>3, <1>4, <1>5 DEF Next

\* The inductive invariant of the hands: files wait in one place, are in one
\* hand, and are left out only by runs that failed or overlooked a failure.
THEOREM HandInvariance == Spec => []HandInv
BY HandInvInit, HandInvStep, PTL DEF Spec

\* HandledOnce for every instance: the index under its lock and the slices of the
\* list give every file to one worker, once.
THEOREM FilesAreHandledOnce == Spec => []HandledOnce
<1>1. HandInv => TypeOK
  <2> SUFFICES ASSUME HandInv PROVE TypeOK
    OBVIOUS
  <2>1. TreeTypes /\ MainTypes /\ WorkerTypes /\ Apart /\ Counted
    BY DEF HandInv, SyncTypes
  <2>2. index \in 0..Cardinality(Files)
    <3>1. Cardinality(Files) \in Nat
      BY FS_CardinalityType
    <3> QED
      BY <2>1, <3>1 DEF MainTypes, Apart
  <2>3. errors \in 0..Cardinality(Files)
    <3>1. Cardinality(failed) <= Cardinality(Files) /\ Cardinality(Files) \in Nat
      BY <2>1, FS_Subset, FS_CardinalityType DEF WorkerTypes
    <3> QED
      BY <2>1, <3>1 DEF WorkerTypes, Counted
  <2>4. \A w \in Workers : wpc[w] \in {"compare", "mkdir", "open", "copy", "stamp"}
                             => file[w] # NoFile
    BY <2>1 DEF WorkerTypes, WithFile
  <2> QED
    BY <2>1, <2>2, <2>3, <2>4 DEF TypeOK, TreeTypes, MainTypes, WorkerTypes
<1>2. HandInv => \A f \in Files : taken[f] <= 1
    BY DEF HandInv, Hands
<1>3. HandInv /\ mpc = "ended" /\ result = "ok" /\ Clean => Pending = {}
  <2> SUFFICES ASSUME HandInv, mpc = "ended", result = "ok" PROVE Pending = {}
    OBVIOUS
  <2>1. Ahead = {}
    BY DEF HandInv, Phases, Ahead, SyncTypes, MainTypes
  <2>2. \A w \in Workers : Len(part[w]) = 0
    BY DEF HandInv, Phases
  <2> QED
    BY <2>1, <2>2 DEF Pending, Coming, Has
<1>4. HandInv => (mpc = "ended" /\ result = "ok" /\ ~dry /\ faults = {}
                    => \A f \in Files : taken[f] = 1)
    BY <1>3 DEF HandInv, Covered, Clean, Given
<1>5. HandInv => HandledOnce
    BY <1>1, <1>2, <1>4 DEF HandledOnce
<1> QED
    BY <1>5, HandInvariance, PTL

-----------------------------------------------------------------------------
(* What is copied stays copied. *)

\* Only the contents of the copies matter, not their stamps.
LEMMA DataStays ==
    ASSUME UNCHANGED <<src, blurred, prog>>, TreeTypes,
           tgt' = tgt \/ \E g \in DOMAIN tgt : Stamp(g)
    PROVE  \A f \in Files : Safe(f)' <=> Safe(f)
<1> SUFFICES ASSUME NEW f \in Files PROVE Safe(f)' <=> Safe(f)
    OBVIOUS
<1>1. CASE tgt' = tgt
    BY <1>1 DEF Safe, SameData, Exists
<1>2. ASSUME NEW g \in DOMAIN tgt, Stamp(g) PROVE Safe(f)' <=> Safe(f)
  <2>1. tgt[g] \in Copies
    BY DEF TreeTypes
  <2>2. PICK t : t = src[g].mtime
    OBVIOUS
  <2>3. PICK c : c = [tgt[g] EXCEPT !.mtime = t]
    OBVIOUS
  <2>4. c.data = tgt[g].data
    BY <2>1, <2>3 DEF Copies
  <2>5. tgt' = [tgt EXCEPT ![g] = c]
    BY <1>2, <2>2, <2>3 DEF Stamp
  <2>6. DOMAIN tgt' = DOMAIN tgt /\ \A h \in DOMAIN tgt : tgt'[h].data = tgt[h].data
    BY <2>4, <2>5 DEF TreeTypes
  <2> QED
    BY <2>6 DEF Safe, SameData, Exists
<1> QED
    BY <1>1, <1>2

\* Writing to one copy leaves the others as they are.
LEMMA OthersStay ==
    ASSUME UNCHANGED <<src, blurred, prog>>, TreeTypes, NEW g \in Files,
           Truncate(g) \/ (g \in DOMAIN tgt /\ CopyBlock(g))
    PROVE  \A f \in Files : f # g => (Safe(f)' <=> Safe(f))
<1>1. \A f \in Files : f # g => (f \in DOMAIN tgt' <=> f \in DOMAIN tgt)
    BY DEF Truncate, CopyBlock
<1>2. \A f \in DOMAIN tgt : f # g => tgt'[f] = tgt[f]
  <2>1. CASE Truncate(g)
    BY <2>1 DEF Truncate
  <2>2. CASE g \in DOMAIN tgt /\ CopyBlock(g)
    <3>1. PICK c : c = [data |-> Append(tgt[g].data, src[g].data[Len(tgt[g].data) + 1]),
                        mtime |-> clock]
      OBVIOUS
    <3>2. tgt' = [tgt EXCEPT ![g] = c]
      BY <2>2, <3>1 DEF CopyBlock
    <3> QED
      BY <3>2 DEF TreeTypes
  <2> QED
    BY <2>1, <2>2
<1> QED
    BY <1>1, <1>2 DEF Safe, SameData, Exists

\* The loop that finds no more to copy has copied the file, ...
LEMMA CopiedWhole ==
    ASSUME CopyInv, quiet, NEW w \in Workers, wpc[w] = "copy", ~MoreToCopy(file[w])
    PROVE  Safe(file[w])
<1>1. TreeTypes /\ file[w] \in DOMAIN tgt /\ file[w] \in Files
    BY DEF CopyInv, SyncTypes, Opened, WorkerTypes, WithFile
<1>2. PICK f \in Files : f = file[w]
    BY <1>1
<1>3. tgt[f].data \in Seq(Blocks) /\ src[f].data \in Seq(Blocks)
    BY <1>1, <1>2, CopyTypes DEF TreeTypes
<1>4. Prefix(tgt[f].data, src[f].data)
    BY <1>2 DEF CopyInv, Partial, Written, Writing, Excused
<1>5. Len(tgt[f].data) = Len(src[f].data)
    BY <1>2, <1>3, <1>4, SMTT(30) DEF Prefix, MoreToCopy, Size
<1>6. tgt[f].data = src[f].data
    BY <1>3, <1>4, <1>5, PrefixFacts
<1> QED
    BY <1>1, <1>2, <1>6 DEF Safe, SameData, Exists

\* ... and so had an earlier run when the comparison is content with it.
LEMMA ComparedSame ==
    ASSUME StampMeansCopied, NEW f \in Files, SameSize(f),
           SameData(f) \/ (prog # "process" /\ SameTime(f))
    PROVE  Safe(f)
BY DEF StampMeansCopied, Safe, SameSize, Exists

\* No worker says that it is done with a file that is not copied, ...
LEMMA CopiedStays ==
    ASSUME Copied, Clean' => Clean, quiet' => quiet, UNCHANGED <<file, taken, failed>>,
           WorkerTypes, \A f \in Files : Safe(f)' <=> Safe(f),
           \A w \in Workers : /\ wpc'[w] \in {"stamp", "synced"} => file[w] \in Files
                              /\ Clean' /\ quiet' /\ wpc'[w] \in {"stamp", "synced"} =>
                                    wpc[w] \in {"stamp", "synced"} \/ Safe(file[w])
    PROVE  Copied'
<1> SUFFICES ASSUME Clean', quiet' 
             PROVE  /\ \A w \in Workers : wpc'[w] \in {"stamp", "synced"} => Safe(file[w])'
                    /\ \A f \in Files : taken'[f] = 1 /\ f \notin failed'
                                        /\ (\A w \in Workers : file'[w] # f) => Safe(f)'
    BY DEF Copied
<1>0. Clean /\ quiet
    OBVIOUS
<1>1. ASSUME NEW w \in Workers, wpc'[w] \in {"stamp", "synced"} PROVE Safe(file[w])'
  <2>1. PICK f \in Files : f = file[w] /\ f = file'[w]
    BY <1>1
  <2>2. Safe(f)
    BY <1>0, <1>1, <2>1 DEF Copied
  <2>3. Safe(f)'
    BY <2>2
  <2> QED
    BY <2>1, <2>3 DEF Safe, SameData, Exists
<1>2. ASSUME NEW f \in Files, taken'[f] = 1, f \notin failed', \A w \in Workers : file'[w] # f
      PROVE  Safe(f)'
    BY <1>0, <1>2 DEF Copied
<1> QED
    BY <1>1, <1>2

\* ... nobody writes to a file that is done, ...
LEMMA CopiedOthers ==
    ASSUME Copied, Hands, Clean' => Clean, quiet' => quiet, UNCHANGED <<file, taken, failed>>,
           WorkerTypes, NEW w \in Workers, file[w] \in Files, wpc'[w] = "copy",
           \A v \in Workers : v # w => wpc'[v] = wpc[v],
           \A f \in Files : f # file[w] => (Safe(f)' <=> Safe(f))
    PROVE  Copied'
<1> SUFFICES ASSUME Clean', quiet' 
             PROVE  /\ \A v \in Workers : wpc'[v] \in {"stamp", "synced"} => Safe(file[v])'
                    /\ \A f \in Files : taken'[f] = 1 /\ f \notin failed'
                                        /\ (\A v \in Workers : file'[v] # f) => Safe(f)'
    BY DEF Copied
<1>0. Clean /\ quiet
    OBVIOUS
<1>1. ASSUME NEW v \in Workers, wpc'[v] \in {"stamp", "synced"} PROVE Safe(file[v])'
  <2>1. v # w /\ wpc[v] \in {"stamp", "synced"}
    BY <1>1
  <2>2. PICK f \in Files : f = file[v] /\ f = file'[v]
    BY <2>1 DEF WorkerTypes, WithFile
  <2>3. Safe(f) /\ f # file[w]
    BY <1>0, <2>1, <2>2 DEF Copied, Hands
  <2>4. Safe(f)'
    BY <2>3
  <2> QED
    BY <2>2, <2>4 DEF Safe, SameData, Exists
<1>2. ASSUME NEW f \in Files, taken'[f] = 1, f \notin failed', \A v \in Workers : file'[v] # f
      PROVE  Safe(f)'
    BY <1>0, <1>2 DEF Copied
<1> QED
    BY <1>1, <1>2

\* ... and nobody lets go of a file that is neither done nor failed.
LEMMA CopiedHands ==
    ASSUME Copied, Clean' => Clean, quiet' => quiet, WorkerTypes,
           \A f \in Files : Safe(f)' <=> Safe(f),
           \A w \in Workers : wpc'[w] \in {"stamp", "synced"} =>
                                 wpc[w] = wpc'[w] /\ file'[w] = file[w],
           \A f \in Files :
              taken'[f] = 1 /\ f \notin failed' /\ (\A w \in Workers : file'[w] # f) =>
                 /\ taken[f] = 1 /\ f \notin failed
                 /\ \A w \in Workers : file[w] = f => wpc[w] = "synced"
    PROVE  Copied'
<1> SUFFICES ASSUME Clean', quiet' 
             PROVE  /\ \A w \in Workers : wpc'[w] \in {"stamp", "synced"} => Safe(file[w])'
                    /\ \A f \in Files : taken'[f] = 1 /\ f \notin failed'
                                        /\ (\A w \in Workers : file'[w] # f) => Safe(f)'
    BY DEF Copied
<1>0. Clean /\ quiet
    OBVIOUS
<1>1. ASSUME NEW w \in Workers, wpc'[w] \in {"stamp", "synced"} PROVE Safe(file[w])'
  <2>1. PICK f \in Files : f = file[w] /\ f = file'[w] /\ wpc[w] \in {"stamp", "synced"}
    BY <1>1 DEF WorkerTypes, WithFile
  <2>2. Safe(f)
    BY <1>0, <2>1 DEF Copied
  <2>3. Safe(f)'
    BY <2>2
  <2> QED
    BY <2>1, <2>3 DEF Safe, SameData, Exists
<1>2. ASSUME NEW f \in Files, taken'[f] = 1, f \notin failed', \A w \in Workers : file'[w] # f
      PROVE  Safe(f)'
  <2>1. taken[f] = 1 /\ f \notin failed /\ \A w \in Workers : file[w] = f => wpc[w] = "synced"
    BY <1>2
  <2>2. CASE \A w \in Workers : file[w] # f
    BY <1>0, <2>1, <2>2 DEF Copied
  <2>3. ASSUME NEW w \in Workers, file[w] = f PROVE Safe(f)'
    <3>1. Safe(f)
      BY <1>0, <2>1, <2>3 DEF Copied
    <3> QED
      BY <3>1
  <2> QED
    BY <2>2, <2>3
<1> QED
    BY <1>1, <1>2

\* The threads: compare_files, sync_file and the counts.
LEMMA ThreadData ==
    SuccessInv /\ SyncTypes' /\ prog = "thread" /\ Thread!Step => Copied'
<1> SUFFICES ASSUME SuccessInv, SyncTypes', prog = "thread", Thread!Step PROVE Copied'
    OBVIOUS
<1> USE DEF NoFault, SomeFault, Thread!main, Thread!workers, Thread!history, Thread!given,
        Thread!disk, Thread!Goto
<1>0. /\ CopyInv /\ Copied /\ Hands /\ Phases /\ TreeTypes /\ MainTypes /\ WorkerTypes /\ Opened
      /\ StampMeansCopied
    BY DEF SuccessInv, HandInv, CopyInv, SyncTypes
<1>a. UNCHANGED <<src, blurred, quiet>>
    BY ProgramsOnlyRead DEF Step
<1>b. \A w \in Workers : \A label : wpc' = [wpc EXCEPT ![w] = label] =>
         wpc'[w] = label /\ \A v \in Workers : v # w => wpc'[v] = wpc[v]
    BY <1>0 DEF WorkerTypes
<1>c. \A w \in Workers : wpc[w] \in WithFile => file[w] \in Files
    BY <1>0 DEF WorkerTypes
<1>1. CASE \/ Thread!CheckDirectories \/ Thread!sync_directory_structure
           \/ Thread!traverse_directory \/ Thread!JoinThreads
  <2>1. /\ UNCHANGED <<tgt, wpc, file, taken, failed, prog, dry>>
        /\ mpc \in {"target", "tree", "scan", "create"}
    BY <1>1
    DEF Thread!CheckDirectories, Thread!sync_directory_structure, Thread!traverse_directory,
        Thread!JoinThreads
  <2>2. faults \subseteq faults'
    BY <1>1, FaultsGrow
    DEF Thread!CheckDirectories, Thread!sync_directory_structure, Thread!traverse_directory,
        Thread!JoinThreads, Thread!fault
  <2>3. result = "none"
    BY <1>0, <2>1 DEF Phases
  <2>4. Clean' => Clean
    BY <2>1, <2>2, <2>3, CleanSince
  <2>5. \A f \in Files : Safe(f)' <=> Safe(f)
    BY <1>0, <1>a, <2>1, DataStays
  <2> QED
    BY <1>0, <1>a, <1>c, <2>1, <2>4, <2>5, CopiedStays DEF WithFile
<1>2. CASE Thread!CreateThread
  <2>1. /\ UNCHANGED <<tgt, file, taken, failed, prog, dry>> /\ mpc = "create" /\ started < count
        /\ wpc' = wpc \/ wpc' = [wpc EXCEPT ![started] = "get"]
        /\ faults \subseteq faults'
    BY <1>2, FaultsGrow DEF Thread!CreateThread
  <2>2. started \in Workers
    BY <1>0, <2>1, ParameterFacts DEF MainTypes
  <2>3. result = "none"
    BY <1>0, <2>1 DEF Phases
  <2>4. Clean' => Clean
    BY <2>1, <2>3, CleanSince
  <2>5. \A f \in Files : Safe(f)' <=> Safe(f)
    BY <1>0, <1>a, <2>1, DataStays
  <2>6. \A w \in Workers : wpc'[w] \in {"stamp", "synced"} => wpc[w] \in {"stamp", "synced"}
    BY <1>b, <2>1, <2>2
  <2> QED
    BY <1>0, <1>a, <1>c, <2>1, <2>4, <2>5, <2>6, CopiedStays DEF WithFile
<1>3. CASE Thread!ExitProcess
  <2>1. result' = "failed"
    BY <1>0, <1>3 DEF Thread!ExitProcess, Phases
  <2> QED
    BY <2>1 DEF Copied, Clean
<1>4. ASSUME NEW w \in Workers, Thread!worker_thread(w) PROVE Copied'
  <2>0. Clean' => Clean
    <3>1. UNCHANGED <<prog, dry, result>>
      BY <1>4
      DEF Thread!worker_thread, Thread!get_next_file, Thread!Compare, Thread!create_directory,
          Thread!OpenFiles, Thread!CopyLoop, Thread!StampFile, Thread!CountFile, Thread!LostPath
    <3>2. faults \subseteq faults'
      BY <1>4, FaultsGrow
      DEF Thread!worker_thread, Thread!get_next_file, Thread!Compare, Thread!create_directory,
          Thread!OpenFiles, Thread!CopyLoop, Thread!StampFile, Thread!CountFile, Thread!LostPath,
          Thread!fault
    <3> QED
      BY <3>1, <3>2, CleanSince
  <2>a. prog' = prog
      BY <1>4
      DEF Thread!worker_thread, Thread!get_next_file, Thread!Compare, Thread!create_directory,
          Thread!OpenFiles, Thread!CopyLoop, Thread!StampFile, Thread!CountFile, Thread!LostPath
  <2>b. (tgt' = tgt \/ \E g \in DOMAIN tgt : Stamp(g)) => \A f \in Files : Safe(f)' <=> Safe(f)
    BY <1>0, <1>a, <2>a, DataStays
  <2>c. ASSUME UNCHANGED <<file, taken, failed>>, tgt' = tgt \/ \E g \in DOMAIN tgt : Stamp(g),
               wpc[w] \in WithFile,
               NEW label, wpc' = [wpc EXCEPT ![w] = label],
               Clean' /\ quiet' /\ label \in {"stamp", "synced"}
                  => wpc[w] \in {"stamp", "synced"} \/ Safe(file[w])
        PROVE  Copied'
    <3>1. wpc'[w] = label /\ \A v \in Workers : v # w => wpc'[v] = wpc[v]
      BY <1>b, <2>c
    <3>2. \A v \in Workers : /\ wpc'[v] \in {"stamp", "synced"} => file[v] \in Files
                             /\ Clean' /\ quiet' /\ wpc'[v] \in {"stamp", "synced"} =>
                                   wpc[v] \in {"stamp", "synced"} \/ Safe(file[v])
      BY <1>c, <2>c, <3>1 DEF WithFile
    <3> QED
      BY <1>0, <1>a, <2>0, <2>b, <2>c, <3>2, CopiedStays
  <2>1. CASE Thread!get_next_file(w)
    <3>1. wpc[w] = "get" /\ UNCHANGED <<tgt, failed>>
      BY <2>1 DEF Thread!get_next_file
    <3>2. PICK label \in {"compare", "done"} : wpc' = [wpc EXCEPT ![w] = label]
      BY <2>1 DEF Thread!get_next_file
    <3>3. file[w] = NoFile /\ NoFile \notin Files
      BY <1>0, <3>1 DEF Hands, WithFile
    <3>4. \A f \in Files : taken'[f] = 1 /\ (\A v \in Workers : file'[v] # f) =>
             taken[f] = 1 /\ \A v \in Workers : file[v] # f
      <4>1. CASE UNCHANGED <<file, taken>>
        BY <4>1
      <4>2. CASE ~UNCHANGED <<file, taken>>
        <5>1. PICK g : g = list[index + 1]
          OBVIOUS
        <5>2. file' = [file EXCEPT ![w] = g] /\ taken' = [taken EXCEPT ![g] = @ + 1]
          BY <1>0, <2>1, <4>2, <5>1 DEF Thread!get_next_file, WorkerTypes
        <5>3. file'[w] = g /\ \A v \in Workers : v # w => file'[v] = file[v]
          BY <1>0, <5>2 DEF WorkerTypes
        <5>4. \A f \in Files : f # g => taken'[f] = taken[f]
          BY <1>0, <5>2 DEF WorkerTypes
        <5> QED
          BY <3>3, <5>3, <5>4
      <4> QED
        BY <4>1, <4>2
    <3>5. \A v \in Workers : wpc'[v] \in {"stamp", "synced"} =>
             wpc[v] = wpc'[v] /\ file'[v] = file[v]
      <4>1. \A v \in Workers : v # w => file'[v] = file[v]
        BY <1>0, <2>1 DEF Thread!get_next_file, WorkerTypes
      <4> QED
        BY <1>b, <3>2, <4>1
    <3> QED
      BY <1>0, <1>a, <2>0, <2>b, <3>1, <3>4, <3>5, CopiedHands
  <2>2. CASE Thread!Compare(w)
    <3>1. PICK label \in {"synced", "open", "mkdir"} :
             /\ wpc' = [wpc EXCEPT ![w] = label]
             /\ label = "synced" => Thread!compare_files(file[w])
      BY <2>2 DEF Thread!Compare
    <3>2. UNCHANGED <<tgt, file, taken, failed>> /\ wpc[w] \in WithFile
      BY <2>2 DEF Thread!Compare, WithFile
    <3>3. PICK f \in Files : f = file[w]
      BY <1>c, <3>2
    <3>4. Thread!compare_files(f) => Safe(f)
      BY <1>0, ComparedSame
      DEF Thread!compare_files, Thread!SameSize, Thread!SameTime, Thread!SameData, Thread!Size,
          Thread!Exists, SameSize, SameTime, SameData, Size, Exists
    <3>5. label \in {"stamp", "synced"} => Safe(file[w])
      BY <3>1, <3>3, <3>4
    <3> QED
      BY <2>c, <3>1, <3>2, <3>5
  <2>3. CASE Thread!create_directory(w)
    BY <2>3, <2>c DEF Thread!create_directory, WithFile
  <2>4. CASE Thread!OpenFiles(w)
    <3>1. UNCHANGED <<file, taken, failed>> /\ wpc[w] \in WithFile
      BY <2>4 DEF Thread!OpenFiles, WithFile
    <3>2. CASE tgt' = tgt /\ wpc' = [wpc EXCEPT ![w] = "error"]
      BY <2>c, <3>1, <3>2
    <3>3. CASE Truncate(file[w]) /\ wpc' = [wpc EXCEPT ![w] = "copy"]
      <4>1. PICK f \in Files : f = file[w]
        BY <1>c, <3>1
      <4>2. \A g \in Files : g # f => (Safe(g)' <=> Safe(g))
        BY <1>0, <1>a, <2>a, <3>3, <4>1, OthersStay
      <4> QED
        BY <1>0, <1>a, <1>b, <2>0, <3>1, <3>3, <4>1, <4>2, CopiedOthers
    <3> QED
      BY <2>4, <3>2, <3>3 DEF Thread!OpenFiles, Thread!Truncate, Truncate
  <2>5. CASE Thread!CopyLoop(w)
    <3>1. /\ UNCHANGED <<file, taken, failed>> /\ wpc[w] = "copy" /\ wpc[w] \in WithFile
          /\ file[w] \in DOMAIN tgt
      BY <1>0, <2>5 DEF Thread!CopyLoop, WithFile, Opened
    <3>2. CASE CopyBlock(file[w]) /\ wpc' = wpc
      <4>1. PICK f \in Files : f = file[w]
        BY <1>c, <3>1
      <4>2. \A g \in Files : g # f => (Safe(g)' <=> Safe(g))
        BY <1>0, <1>a, <2>a, <3>1, <3>2, <4>1, OthersStay
      <4> QED
        BY <1>0, <1>a, <2>0, <3>1, <3>2, <4>1, <4>2, CopiedOthers
    <3>3. CASE ~MoreToCopy(file[w]) /\ wpc' = [wpc EXCEPT ![w] = "stamp"] /\ tgt' = tgt
      <4>1. quiet' => Safe(file[w])
        BY <1>0, <1>a, <3>1, <3>3, CopiedWhole
      <4> QED
        BY <2>c, <3>1, <3>3, <4>1
    <3>4. CASE Thread!Fails("read") /\ wpc' = [wpc EXCEPT ![w] = "stamp"] /\ tgt' = tgt
      <4>1. ~Clean'
        BY <2>a, <3>4, Overlooked
      <4> QED
        BY <4>1 DEF Copied
    <3>5. CASE wpc' = [wpc EXCEPT ![w] = "error"] /\ tgt' = tgt
      BY <2>c, <3>1, <3>5
    <3> QED
      BY <2>5, <3>2, <3>3, <3>4, <3>5
      DEF Thread!CopyLoop, Thread!CopyBlock, Thread!MoreToCopy, Thread!Size, CopyBlock,
          MoreToCopy, Size
  <2>6. CASE Thread!StampFile(w)
    <3>1. /\ UNCHANGED <<file, taken, failed>> /\ wpc[w] = "stamp" /\ wpc[w] \in WithFile
          /\ file[w] \in DOMAIN tgt /\ wpc' = [wpc EXCEPT ![w] = "synced"]
      BY <1>0, <2>6 DEF Thread!StampFile, WithFile, Opened
    <3>2. tgt' = tgt \/ Stamp(file[w])
      BY <2>6 DEF Thread!StampFile, Thread!Stamp, Stamp
    <3> QED
      BY <2>c, <3>1, <3>2
  <2>7. CASE Thread!CountFile(w)
    <3>1. /\ wpc[w] \in {"synced", "error"} /\ UNCHANGED <<tgt, taken>>
          /\ wpc' = [wpc EXCEPT ![w] = "get"] /\ file' = [file EXCEPT ![w] = NoFile]
          /\ failed' = IF wpc[w] = "error" THEN failed \cup {file[w]} ELSE failed
      BY <2>7 DEF Thread!CountFile
    <3>2. \A v \in Workers : /\ wpc'[v] = IF v = w THEN "get" ELSE wpc[v]
                             /\ file'[v] = IF v = w THEN NoFile ELSE file[v]
      BY <1>0, <3>1 DEF WorkerTypes
    <3>3. \A f \in Files : f \notin failed' /\ (\A v \in Workers : file'[v] # f) =>
             f \notin failed /\ \A v \in Workers : file[v] = f => wpc[v] = "synced"
      BY <3>1, <3>2
    <3>4. \A v \in Workers : wpc'[v] \in {"stamp", "synced"} =>
             wpc[v] = wpc'[v] /\ file'[v] = file[v]
      BY <3>2
    <3> QED
      BY <1>0, <1>a, <2>0, <2>b, <3>1, <3>3, <3>4, CopiedHands
  <2>8. CASE Thread!LostPath(w)
    <3>1. PICK label \in {"synced", "error"} :
             wpc' = [wpc EXCEPT ![w] = label] /\ (label = "synced" => wpc[w] = "stamp")
      BY <2>8 DEF Thread!LostPath
    <3> QED
      BY <2>8, <2>c, <3>1 DEF Thread!LostPath, WithFile
  <2> QED
    BY <1>4, <2>1, <2>2, <2>3, <2>4, <2>5, <2>6, <2>7, <2>8 DEF Thread!worker_thread
<1> QED
    BY <1>1, <1>2, <1>3, <1>4
    DEF Thread!Step, Thread!perform_sync, Thread!Workers, Workers

\* The children: compare_files looks at the contents, and there is no stamp.
LEMMA ProcessData ==
    SuccessInv /\ SyncTypes' /\ prog = "process" /\ Process!Step => Copied'
<1> SUFFICES ASSUME SuccessInv, SyncTypes', prog = "process", Process!Step PROVE Copied'
    OBVIOUS
<1> USE DEF NoFault, SomeFault, Process!main, Process!workers, Process!history, Process!given,
        Process!disk, Process!Goto
<1>0. /\ CopyInv /\ Copied /\ Hands /\ Phases /\ TreeTypes /\ MainTypes /\ WorkerTypes /\ Opened
      /\ StampMeansCopied
    BY DEF SuccessInv, HandInv, CopyInv, SyncTypes
<1>a. UNCHANGED <<src, blurred, quiet>>
    BY ProgramsOnlyRead DEF Step
<1>b. \A w \in Workers : \A label : wpc' = [wpc EXCEPT ![w] = label] =>
         wpc'[w] = label /\ \A v \in Workers : v # w => wpc'[v] = wpc[v]
    BY <1>0 DEF WorkerTypes
<1>c. \A w \in Workers : wpc[w] \in WithFile => file[w] \in Files
    BY <1>0 DEF WorkerTypes
<1>1. CASE \/ Process!CheckDirectories \/ Process!sync_directory_structure
           \/ Process!traverse_directory \/ Process!WaitChildren
  <2>1. /\ UNCHANGED <<tgt, wpc, file, taken, failed, prog, dry>>
        /\ mpc \in {"target", "tree", "scan", "fork"}
    BY <1>1
    DEF Process!CheckDirectories, Process!sync_directory_structure, Process!traverse_directory,
        Process!WaitChildren
  <2>2. faults \subseteq faults'
    BY <1>1, FaultsGrow
    DEF Process!CheckDirectories, Process!sync_directory_structure, Process!traverse_directory,
        Process!WaitChildren, Process!fault
  <2>3. result = "none"
    BY <1>0, <2>1 DEF Phases
  <2>4. Clean' => Clean
    BY <2>1, <2>2, <2>3, CleanSince
  <2>5. \A f \in Files : Safe(f)' <=> Safe(f)
    BY <1>0, <1>a, <2>1, DataStays
  <2> QED
    BY <1>0, <1>a, <1>c, <2>1, <2>4, <2>5, CopiedStays DEF WithFile
<1>2. CASE Process!ForkChild
  <2>1. /\ UNCHANGED <<tgt, file, taken, failed, prog, dry>> /\ mpc = "fork" /\ started < count
        /\ wpc' = wpc \/ wpc' = [wpc EXCEPT ![started] = "next"]
        /\ faults \subseteq faults'
    BY <1>2, FaultsGrow DEF Process!ForkChild
  <2>2. started \in Workers
    BY <1>0, <2>1, ParameterFacts DEF MainTypes
  <2>3. result = "none"
    BY <1>0, <2>1 DEF Phases
  <2>4. Clean' => Clean
    BY <2>1, <2>3, CleanSince
  <2>5. \A f \in Files : Safe(f)' <=> Safe(f)
    BY <1>0, <1>a, <2>1, DataStays
  <2>6. \A w \in Workers : wpc'[w] \in {"stamp", "synced"} => wpc[w] \in {"stamp", "synced"}
    BY <1>b, <2>1, <2>2
  <2> QED
    BY <1>0, <1>a, <1>c, <2>1, <2>4, <2>5, <2>6, CopiedStays DEF WithFile
<1>3. ASSUME NEW w \in Workers, Process!ChildDies(w) PROVE Copied'
  <2>1. ~Clean'
    BY <1>3, Overlooked DEF Process!ChildDies
  <2> QED
    BY <2>1 DEF Copied
<1>4. ASSUME NEW w \in Workers, Process!worker_process(w) PROVE Copied'
  <2>0. Clean' => Clean
    <3>1. UNCHANGED <<prog, dry, result>>
      BY <1>4
      DEF Process!worker_process, Process!NextFile, Process!Compare, Process!create_directory,
          Process!OpenFiles, Process!CopyLoop
    <3>2. faults \subseteq faults'
      BY <1>4, FaultsGrow
      DEF Process!worker_process, Process!NextFile, Process!Compare, Process!create_directory,
          Process!OpenFiles, Process!CopyLoop, Process!fault
    <3> QED
      BY <3>1, <3>2, CleanSince
  <2>a. prog' = prog
      BY <1>4
      DEF Process!worker_process, Process!NextFile, Process!Compare, Process!create_directory,
          Process!OpenFiles, Process!CopyLoop
  <2>b. tgt' = tgt => \A f \in Files : Safe(f)' <=> Safe(f)
    BY <1>0, <1>a, <2>a, DataStays
  <2>c. ASSUME UNCHANGED <<tgt, file, taken, failed>>, wpc[w] \in WithFile,
               NEW label, wpc' = [wpc EXCEPT ![w] = label],
               Clean' /\ quiet' /\ label \in {"stamp", "synced"}
                  => wpc[w] \in {"stamp", "synced"} \/ Safe(file[w])
        PROVE  Copied'
    <3>1. wpc'[w] = label /\ \A v \in Workers : v # w => wpc'[v] = wpc[v]
      BY <1>b, <2>c
    <3>2. \A v \in Workers : /\ wpc'[v] \in {"stamp", "synced"} => file[v] \in Files
                             /\ Clean' /\ quiet' /\ wpc'[v] \in {"stamp", "synced"} =>
                                   wpc[v] \in {"stamp", "synced"} \/ Safe(file[v])
      BY <1>c, <2>c, <3>1 DEF WithFile
    <3> QED
      BY <1>0, <1>a, <2>0, <2>b, <2>c, <3>2, CopiedStays
  <2>1. CASE Process!NextFile(w)
    <3>1. /\ wpc[w] \in {"next", "synced", "error"} /\ UNCHANGED tgt
          /\ failed' = IF wpc[w] = "error" THEN failed \cup {file[w]} ELSE failed
      BY <2>1 DEF Process!NextFile
    <3>2. PICK g : /\ file' = [file EXCEPT ![w] = g]
                   /\ taken' = taken \/ taken' = [taken EXCEPT ![g] = @ + 1]
      BY <2>1 DEF Process!NextFile
    <3>3. PICK label \in {"compare", "done"} : wpc' = [wpc EXCEPT ![w] = label]
      BY <2>1 DEF Process!NextFile
    <3>4. \A v \in Workers : /\ wpc'[v] = IF v = w THEN label ELSE wpc[v]
                             /\ file'[v] = IF v = w THEN g ELSE file[v]
      BY <1>0, <3>2, <3>3 DEF WorkerTypes
    <3>5. \A f \in Files : f # g => taken'[f] = taken[f]
      BY <1>0, <3>2 DEF WorkerTypes
    <3>6. wpc[w] = "next" => file[w] = NoFile /\ NoFile \notin Files
      BY <1>0 DEF Hands, WithFile
    <3>7. \A f \in Files : taken'[f] = 1 /\ f \notin failed' /\ (\A v \in Workers : file'[v] # f) =>
             /\ taken[f] = 1 /\ f \notin failed
             /\ \A v \in Workers : file[v] = f => wpc[v] = "synced"
      BY <3>1, <3>4, <3>5, <3>6
    <3>8. \A v \in Workers : wpc'[v] \in {"stamp", "synced"} =>
             wpc[v] = wpc'[v] /\ file'[v] = file[v]
      BY <3>4
    <3> QED
      BY <1>0, <1>a, <2>0, <2>b, <3>1, <3>7, <3>8, CopiedHands
  <2>2. CASE Process!Compare(w)
    <3>1. PICK label \in {"synced", "open", "mkdir"} :
             /\ wpc' = [wpc EXCEPT ![w] = label]
             /\ label = "synced" => Process!compare_files(file[w])
      BY <2>2 DEF Process!Compare
    <3>2. UNCHANGED <<tgt, file, taken, failed>> /\ wpc[w] \in WithFile
      BY <2>2 DEF Process!Compare, WithFile
    <3>3. PICK f \in Files : f = file[w]
      BY <1>c, <3>2
    <3>4. Process!compare_files(f) => Safe(f)
      BY DEF Process!compare_files, Process!SameData, Process!Exists, Safe, SameData, Exists
    <3>5. label \in {"stamp", "synced"} => Safe(file[w])
      BY <3>1, <3>3, <3>4
    <3> QED
      BY <2>c, <3>1, <3>2, <3>5
  <2>3. CASE Process!create_directory(w)
    BY <2>3, <2>c DEF Process!create_directory, WithFile
  <2>4. CASE Process!OpenFiles(w)
    <3>1. UNCHANGED <<file, taken, failed>> /\ wpc[w] \in WithFile
      BY <2>4 DEF Process!OpenFiles, WithFile
    <3>2. CASE tgt' = tgt /\ wpc' = [wpc EXCEPT ![w] = "error"]
      BY <2>c, <3>1, <3>2
    <3>3. CASE Truncate(file[w]) /\ wpc' = [wpc EXCEPT ![w] = "copy"]
      <4>1. PICK f \in Files : f = file[w]
        BY <1>c, <3>1
      <4>2. \A g \in Files : g # f => (Safe(g)' <=> Safe(g))
        BY <1>0, <1>a, <2>a, <3>3, <4>1, OthersStay
      <4> QED
        BY <1>0, <1>a, <1>b, <2>0, <3>1, <3>3, <4>1, <4>2, CopiedOthers
    <3> QED
      BY <2>4, <3>2, <3>3 DEF Process!OpenFiles, Process!Truncate, Truncate
  <2>5. CASE Process!CopyLoop(w)
    <3>1. /\ UNCHANGED <<file, taken, failed>> /\ wpc[w] = "copy" /\ wpc[w] \in WithFile
          /\ file[w] \in DOMAIN tgt
      BY <1>0, <2>5 DEF Process!CopyLoop, WithFile, Opened
    <3>2. CASE CopyBlock(file[w]) /\ wpc' = wpc
      <4>1. PICK f \in Files : f = file[w]
        BY <1>c, <3>1
      <4>2. \A g \in Files : g # f => (Safe(g)' <=> Safe(g))
        BY <1>0, <1>a, <2>a, <3>1, <3>2, <4>1, OthersStay
      <4> QED
        BY <1>0, <1>a, <2>0, <3>1, <3>2, <4>1, <4>2, CopiedOthers
    <3>3. CASE ~MoreToCopy(file[w]) /\ wpc' = [wpc EXCEPT ![w] = "synced"] /\ tgt' = tgt
      <4>1. quiet' => Safe(file[w])
        BY <1>0, <1>a, <3>1, <3>3, CopiedWhole
      <4> QED
        BY <2>c, <3>1, <3>3, <4>1
    <3>4. CASE Process!Fails("read") /\ wpc' = [wpc EXCEPT ![w] = "synced"] /\ tgt' = tgt
      <4>1. ~Clean'
        BY <2>a, <3>4, Overlooked
      <4> QED
        BY <4>1 DEF Copied
    <3>5. CASE wpc' = [wpc EXCEPT ![w] = "error"] /\ tgt' = tgt
      BY <2>c, <3>1, <3>5
    <3> QED
      BY <2>5, <3>2, <3>3, <3>4, <3>5
      DEF Process!CopyLoop, Process!CopyBlock, Process!MoreToCopy, Process!Size, CopyBlock,
          MoreToCopy, Size
  <2> QED
    BY <1>4, <2>1, <2>2, <2>3, <2>4, <2>5 DEF Process!worker_process
<1> QED
    BY <1>1, <1>2, <1>3, <1>4
    DEF Process!Step, Process!perform_sync, Process!Workers, Workers

\* The simple version: any failure ends the run, and the run says so.
LEMMA SimpleData ==
    SuccessInv /\ SyncTypes' /\ prog = "simple" /\ Simple!Step => Copied'
<1> SUFFICES ASSUME SuccessInv, SyncTypes', prog = "simple", Simple!Step PROVE Copied'
    OBVIOUS
<1> USE DEF NoFault, SomeFault, Simple!main, Simple!workers, Simple!history, Simple!given,
        Simple!disk, Simple!Goto, Simple!Me, Simple!Going
<1>0. /\ CopyInv /\ Copied /\ Hands /\ Phases /\ TreeTypes /\ MainTypes /\ WorkerTypes /\ Opened
      /\ StampMeansCopied /\ 0 \in Workers
    BY ParameterFacts DEF SuccessInv, HandInv, CopyInv, SyncTypes
<1>a. UNCHANGED <<src, blurred, quiet>>
    BY ProgramsOnlyRead DEF Step
<1>b. \A label : wpc' = [wpc EXCEPT ![0] = label] =>
         wpc'[0] = label /\ \A v \in Workers : v # 0 => wpc'[v] = wpc[v]
    BY <1>0 DEF WorkerTypes
<1>c. \A w \in Workers : wpc[w] \in WithFile => file[w] \in Files
    BY <1>0 DEF WorkerTypes
<1>d. CASE Simple!Quit
    BY <1>d DEF Simple!Quit, Copied, Clean
<1>e. UNCHANGED <<prog, dry>> /\ faults \subseteq faults'
  <2>1. UNCHANGED <<prog, dry>>
    BY DEF Simple!Step, Simple!sync_file, Simple!Open, Simple!Entry, Simple!EndOfWalk,
        Simple!Compare, Simple!create_directory_recursive, Simple!OpenFiles,
        Simple!copy_file_data, Simple!copy_file_attributes, Simple!Synced
  <2>2. faults \subseteq faults'
    BY FaultsGrow
    DEF Simple!Step, Simple!sync_file, Simple!Open, Simple!Entry, Simple!EndOfWalk,
        Simple!Compare, Simple!create_directory_recursive, Simple!OpenFiles,
        Simple!copy_file_data, Simple!copy_file_attributes, Simple!Synced, Simple!fault
  <2> QED
    BY <2>1, <2>2
<1>f. Clean' => Clean
  <2>1. result = "none"
    <3>1. mpc \in {"target", "walk"}
      BY <1>0
      DEF Simple!Step, Simple!sync_file, Simple!Open, Simple!Entry, Simple!EndOfWalk,
        Simple!Compare, Simple!create_directory_recursive, Simple!OpenFiles,
        Simple!copy_file_data, Simple!copy_file_attributes, Simple!Synced, Phases
    <3> QED
      BY <1>0, <3>1 DEF Phases
  <2> QED
    BY <1>e, <2>1, CleanSince
<1>g. (tgt' = tgt \/ \E g \in DOMAIN tgt : Stamp(g)) => \A f \in Files : Safe(f)' <=> Safe(f)
    BY <1>0, <1>a, <1>e, DataStays
<1>h. ASSUME UNCHANGED <<file, taken, failed>>, tgt' = tgt \/ \E g \in DOMAIN tgt : Stamp(g),
             NEW label, wpc' = [wpc EXCEPT ![0] = label],
             label \in {"stamp", "synced"} => wpc[0] \in WithFile,
             Clean' /\ quiet' /\ label \in {"stamp", "synced"}
                => wpc[0] \in {"stamp", "synced"} \/ Safe(file[0])
      PROVE  Copied'
  <2>1. wpc'[0] = label /\ \A v \in Workers : v # 0 => wpc'[v] = wpc[v]
    BY <1>b, <1>h
  <2>2. \A v \in Workers : /\ wpc'[v] \in {"stamp", "synced"} => file[v] \in Files
                           /\ Clean' /\ quiet' /\ wpc'[v] \in {"stamp", "synced"} =>
                                 wpc[v] \in {"stamp", "synced"} \/ Safe(file[v])
    BY <1>c, <1>h, <2>1 DEF WithFile
  <2> QED
    BY <1>0, <1>a, <1>f, <1>g, <1>h, <2>2, CopiedStays
<1>1. CASE Simple!Open
    BY <1>1, <1>d, <1>h DEF Simple!Open
<1>2. CASE Simple!EndOfWalk
    BY <1>2, <1>h DEF Simple!EndOfWalk
<1>3. CASE Simple!Entry
  <2>1. CASE Simple!Fails("stat") /\ taken' = taken
    <3>1. ~Clean'
      BY <1>e, <2>1, Overlooked
    <3> QED
      BY <3>1 DEF Copied
  <2>2. CASE ~Simple!Quit /\ ~(Simple!Fails("stat") /\ taken' = taken)
    <3>1. PICK g : g = list[index + 1]
      OBVIOUS
    <3>2. /\ file' = [file EXCEPT ![0] = g] /\ wpc' = [wpc EXCEPT ![0] = "compare"]
          /\ taken' = [taken EXCEPT ![g] = @ + 1] /\ UNCHANGED <<tgt, failed>>
          /\ wpc[0] = "entry"
      BY <1>0, <1>3, <2>2, <3>1 DEF Simple!Entry, WorkerTypes
    <3>3. \A v \in Workers : /\ wpc'[v] = IF v = 0 THEN "compare" ELSE wpc[v]
                             /\ file'[v] = IF v = 0 THEN g ELSE file[v]
      BY <1>0, <3>2 DEF WorkerTypes
    <3>4. \A f \in Files : f # g => taken'[f] = taken[f]
      BY <1>0, <3>2 DEF WorkerTypes
    <3>5. file[0] = NoFile /\ NoFile \notin Files
      BY <1>0, <3>2 DEF Hands, WithFile
    <3>6. \A f \in Files : taken'[f] = 1 /\ f \notin failed' /\ (\A v \in Workers : file'[v] # f) =>
             /\ taken[f] = 1 /\ f \notin failed
             /\ \A v \in Workers : file[v] = f => wpc[v] = "synced"
      BY <1>0, <3>2, <3>3, <3>4, <3>5
    <3>7. \A v \in Workers : wpc'[v] \in {"stamp", "synced"} =>
             wpc[v] = wpc'[v] /\ file'[v] = file[v]
      BY <3>3
    <3> QED
      BY <1>0, <1>a, <1>f, <1>g, <3>2, <3>6, <3>7, CopiedHands
  <2> QED
    BY <1>d, <2>1, <2>2
<1>4. CASE Simple!Compare
  <2>1. CASE ~Simple!Quit
    <3>1. PICK label \in {"synced", "mkdir"} :
             /\ wpc' = [wpc EXCEPT ![0] = label]
             /\ label = "synced" => dry \/ Simple!files_are_identical(file[0])
      BY <1>4, <2>1 DEF Simple!Compare
    <3>2. UNCHANGED <<tgt, file, taken, failed>> /\ wpc[0] \in WithFile
      BY <1>4, <2>1 DEF Simple!Compare, WithFile
    <3>3. PICK f \in Files : f = file[0]
      BY <1>0, <1>c, <3>2
    <3>4. Simple!files_are_identical(f) => Safe(f)
      BY <1>0, ComparedSame
      DEF Simple!files_are_identical, Simple!SameSize, Simple!SameTime, Simple!SameData,
          Simple!Size, Simple!Exists, SameSize, SameTime, SameData, Size, Exists
    <3>5. Clean' /\ label \in {"stamp", "synced"} => Safe(file[0])
      BY <1>f, <3>1, <3>3, <3>4 DEF Clean
    <3> QED
      BY <1>h, <3>1, <3>2, <3>5
  <2> QED
    BY <1>d, <2>1
<1>5. CASE Simple!create_directory_recursive
    BY <1>5, <1>d, <1>h DEF Simple!create_directory_recursive
<1>6. CASE Simple!OpenFiles
  <2>1. CASE ~Simple!Quit
    <3>1. /\ Truncate(file[0]) /\ wpc' = [wpc EXCEPT ![0] = "copy"]
          /\ UNCHANGED <<file, taken, failed>> /\ wpc[0] \in WithFile
      BY <1>6, <2>1 DEF Simple!OpenFiles, Simple!Truncate, Truncate, WithFile
    <3>2. PICK f \in Files : f = file[0]
      BY <1>0, <1>c, <3>1
    <3>3. \A g \in Files : g # f => (Safe(g)' <=> Safe(g))
      BY <1>0, <1>a, <1>e, <3>1, <3>2, OthersStay
    <3> QED
      BY <1>0, <1>a, <1>b, <1>f, <3>1, <3>2, <3>3, CopiedOthers
  <2> QED
    BY <1>d, <2>1
<1>7. CASE Simple!copy_file_data
  <2>0. /\ wpc[0] = "copy" /\ wpc[0] \in WithFile /\ file[0] \in DOMAIN tgt
    BY <1>0, <1>7 DEF Simple!copy_file_data, WithFile, Opened
  <2>1. CASE CopyBlock(file[0]) /\ UNCHANGED <<file, taken, failed, wpc>>
    <3>1. PICK f \in Files : f = file[0]
      BY <1>0, <1>c, <2>0
    <3>2. \A g \in Files : g # f => (Safe(g)' <=> Safe(g))
      BY <1>0, <1>a, <1>e, <2>0, <2>1, <3>1, OthersStay
    <3> QED
      BY <1>0, <1>a, <1>f, <2>0, <2>1, <3>1, <3>2, CopiedOthers
  <2>2. CASE /\ ~MoreToCopy(file[0]) /\ wpc' = [wpc EXCEPT ![0] = "stamp"]
             /\ UNCHANGED <<file, taken, failed, tgt>>
    <3>1. quiet' => Safe(file[0])
      BY <1>0, <1>a, <2>0, <2>2, CopiedWhole
    <3> QED
      BY <1>h, <2>0, <2>2, <3>1
  <2> QED
    BY <1>7, <1>d, <2>1, <2>2
    DEF Simple!copy_file_data, Simple!CopyBlock, Simple!MoreToCopy, Simple!Size, CopyBlock,
        MoreToCopy, Size
<1>8. CASE Simple!copy_file_attributes
  <2>1. CASE ~Simple!Quit
    <3>1. /\ wpc[0] = "stamp" /\ wpc[0] \in WithFile /\ file[0] \in DOMAIN tgt
          /\ UNCHANGED <<file, taken, failed>> /\ wpc' = [wpc EXCEPT ![0] = "synced"]
          /\ Stamp(file[0])
      BY <1>0, <1>8, <2>1
      DEF Simple!copy_file_attributes, Simple!Stamp, Stamp, WithFile, Opened
    <3> QED
      BY <1>h, <3>1
  <2> QED
    BY <1>d, <2>1
<1>9. CASE Simple!Synced
  <2>1. /\ wpc[0] = "synced" /\ UNCHANGED <<tgt, taken, failed>>
        /\ wpc' = [wpc EXCEPT ![0] = "entry"] /\ file' = [file EXCEPT ![0] = NoFile]
    BY <1>9 DEF Simple!Synced
  <2>2. \A v \in Workers : /\ wpc'[v] = IF v = 0 THEN "entry" ELSE wpc[v]
                           /\ file'[v] = IF v = 0 THEN NoFile ELSE file[v]
    BY <1>0, <2>1 DEF WorkerTypes
  <2>3. \A f \in Files : (\A v \in Workers : file'[v] # f) =>
           \A v \in Workers : file[v] = f => wpc[v] = "synced"
    BY <2>1, <2>2
  <2>4. \A v \in Workers : wpc'[v] \in {"stamp", "synced"} =>
           wpc[v] = wpc'[v] /\ file'[v] = file[v]
    BY <2>2
  <2> QED
    BY <1>0, <1>a, <1>f, <1>g, <2>1, <2>3, <2>4, CopiedHands
<1> QED
    BY <1>1, <1>2, <1>3, <1>4, <1>5, <1>6, <1>7, <1>8, <1>9 DEF Simple!Step, Simple!sync_file

-----------------------------------------------------------------------------
\* What is done is copied when runs begin and end, too.
LEMMA SuccessInvStep == SuccessInv /\ [Next]_vars => SuccessInv'
<1> SUFFICES ASSUME SuccessInv, [Next]_vars PROVE SuccessInv'
    OBVIOUS
<1>0. CopyInv /\ HandInv /\ Copied /\ WorkerTypes
    BY DEF SuccessInv, CopyInv, SyncTypes
<1>1. CopyInv' /\ HandInv' /\ SyncTypes'
    BY <1>0, CopyInvStep, HandInvStep DEF CopyInv
<1>2. SUFFICES Copied'
    BY <1>1 DEF SuccessInv
<1>3. CASE Step
    BY <1>1, <1>3, ThreadData, ProcessData, SimpleData DEF Step
<1>4. CASE StartThread \/ StartProcess \/ StartSimple
  <2>1. NoWorkers /\ \A f \in Files : taken'[f] = 0
    BY <1>4 DEF StartThread, StartProcess, StartSimple, Start
  <2>2. \A w \in Workers : wpc'[w] = "none"
    BY <2>1 DEF NoWorkers
  <2> QED
    BY <2>1, <2>2 DEF Copied
<1>5. CASE Interrupt
  <2>1. ~Clean'
    BY <1>0, <1>5, Overlooked DEF Interrupt, SomeFault, given, HandInv, SyncTypes, MainTypes
  <2> QED
    BY <2>1 DEF Copied
<1>6. ASSUME NEW f \in Files, Edit(f) PROVE Copied'
    BY <1>6 DEF Edit, Copied
<1>7. CASE Tick \/ UNCHANGED vars
  <2>1. UNCHANGED <<wpc, file, taken, failed, tgt, src, blurred, prog, quiet, dry, faults, result>>
    BY <1>7 DEF Tick, vars, disk, main, workers, history, fault, given, world
  <2> QED
    BY <1>0, <2>1 DEF Copied, Clean, Safe, SameData, Exists
<1> QED
    BY <1>3, <1>4, <1>5, <1>6, <1>7 DEF Next

\* SuccessMeansSynced for every instance: a run of any of the three programs that
\* reports success has made the trees equal, whatever earlier runs left behind.
THEOREM SuccessIsTrue == Spec => []SuccessMeansSynced
<1>1. Init => SuccessInv
    BY CopyInvInit, HandInvInit DEF SuccessInv, Copied, Init
<1>2. SuccessInv => SuccessMeansSynced
  <2> SUFFICES ASSUME SuccessInv, mpc = "ended", result = "ok", ~dry, quiet,
                      faults \subseteq Noticed[prog],
                      NEW f \in Files, ~(prog # "process" /\ f \in blurred)
               PROVE  SameData(f)
    BY DEF SuccessMeansSynced
  <2>0. HandInv /\ Copied /\ Clean /\ Phases
    BY DEF SuccessInv, HandInv, Clean
  <2>1. Ahead = {} /\ \A w \in Workers : Len(part[w]) = 0
    BY <2>0 DEF HandInv, Phases, Ahead, SyncTypes, MainTypes
  <2>2. Pending = {}
    BY <2>1 DEF Pending, Coming, Has
  <2>3. taken[f] = 1
    BY <2>0, <2>2 DEF HandInv, Covered, Given
  <2>4. \A w \in Workers : file[w] = NoFile
    BY <2>0 DEF HandInv, Phases, Hands, WithFile
  <2>5. failed = {}
    <3>1. CASE prog = "thread"
      <4>1. Cardinality(failed) = 0 /\ IsFiniteSet(failed)
        BY <2>0, <3>1, FS_Subset DEF HandInv, Counted, Phases, SyncTypes, WorkerTypes
      <4> QED
        BY <4>1, FS_EmptySet
    <3>2. CASE prog # "thread"
      BY <2>0, <3>2 DEF HandInv, Covered
    <3> QED
      BY <3>1, <3>2
  <2>6. Safe(f)
    BY <2>0, <2>3, <2>4, <2>5 DEF Copied
  <2> QED
    BY <2>6 DEF Safe
<1> QED
    BY <1>1, <1>2, SuccessInvStep, PTL DEF Spec
=============================================================================
