----------------------------- MODULE SyncProofs -----------------------------
(***************************************************************************)
(* Proofs about Sync, for any files, directories, contents, numbers of     *)
(* workers and bounds: equal stamps mean equal contents                    *)
(* (StampMeansCopied) and failures are real (FailuresAreReal).             *)
(***************************************************************************)
EXTENDS Sync, FiniteSetTheorems, SequenceTheorems, TLAPS

Copies == [data : Seq(Blocks), mtime : Nat]

Labels == {"none", "done", "get", "next", "entry", "compare", "mkdir", "open",
           "copy", "stamp", "synced", "error"}
WithFile == {"compare", "mkdir", "open", "copy", "stamp", "synced", "error"}

\* The trees and the clock have their types, and so have the variables of a run.
TreeTypes ==
    /\ clock \in Nat
    /\ src \in [Files -> Copies]
    /\ DOMAIN tgt \subseteq Files /\ tgt \in [DOMAIN tgt -> Copies]
    /\ dirs \subseteq Dirs
    /\ \A f \in DOMAIN tgt : DirOf[f] \in dirs

MainTypes ==
    /\ prog \in {"thread", "process", "simple"} /\ count \in Counts[prog]
    /\ mpc \in {"idle", "target", "tree", "scan", "create", "fork", "walk", "exiting", "ended"}
    /\ list \in Seq(Files) /\ index \in 0..Len(list) /\ started \in 0..count
    /\ result \in {"none", "ok", "failed"}

WorkerTypes ==
    /\ wpc \in [Workers -> Labels]
    /\ file \in [Workers -> Files \cup {NoFile}]
    /\ part \in [Workers -> Seq(Files)]
    /\ \A w \in Workers : wpc[w] \in WithFile => file[w] \in Files
    /\ failed \subseteq Files /\ taken \in [Files -> Nat] /\ errors \in Nat

\* A worker that writes to its file has opened it.
Opened == \A w \in Workers : wpc[w] \in {"copy", "stamp"} => file[w] \in DOMAIN tgt

\* Which program is at work, by where its main function is, and how far the
\* parent of the process version is in the list.
Programs ==
    /\ mpc \in {"target", "tree", "scan"} => started = 0
    /\ mpc \in {"tree", "scan"} => prog \in {"thread", "process"}
    /\ mpc \in {"create", "exiting"} => prog = "thread"
    /\ mpc = "walk" => prog = "simple"
    /\ mpc = "fork" => /\ prog = "process"
                       /\ index = started * (Len(list) \div count)

SyncTypes == TreeTypes /\ MainTypes /\ WorkerTypes /\ Opened /\ Programs

-----------------------------------------------------------------------------
USE FilesAssumption, DirOfAssumption, ContentsAssumption, OriginalAssumption,
    BoundsAssumption, CountsAssumption

\* What the assumptions say of the parameters: files and their directories, the
\* list of a set of files, and the workers of a program.
LEMMA ParameterFacts ==
    /\ \A f \in Files : DirOf[f] \in Dirs /\ f # NoFile
    /\ Root \in Dirs
    /\ \A S \in SUBSET Files : Listed(S) \in Seq(Files)
    /\ \A p \in {"thread", "process", "simple"} : \A n \in Counts[p] :
          n \in Nat \ {0} /\ \A i \in 0..(n - 1) : i \in Workers
    /\ 0 \in Workers
<1>1. \A f \in Files : DirOf[f] \in Dirs /\ f # NoFile
    BY DEF Dirs
<1>2. Root \in Dirs
    BY DEF Dirs
<1>3. ASSUME NEW F \in SUBSET Files PROVE Listed(F) \in Seq(Files)
    BY ListingAssumption, SeqMonotonic DEF Listed
<1>4. ASSUME NEW p \in {"thread", "process", "simple"}, NEW n \in Counts[p]
      PROVE  n \in Nat \ {0} /\ \A i \in 0..(n - 1) : i \in Workers
  <2>1. p \in DOMAIN Counts
    OBVIOUS
  <2> QED
    BY <2>1 DEF Workers
<1>5. 0 \in Workers
  <2>1. 1 \in Counts["simple"]
    OBVIOUS
  <2>2. \A i \in 0..(1 - 1) : i \in Workers
    BY <2>1, <1>4
  <2> QED
    BY <2>2
<1> QED
    BY <1>1, <1>2, <1>3, <1>4, <1>5

\* A list is empty, or some of the files.
LEMMA ListTypes ==
    ASSUME NEW l, NEW i, i = 0, l = <<>> \/ \E F \in SUBSET Files : l = Listed(F)
    PROVE  l \in Seq(Files) /\ i \in 0..Len(l)
<1>1. l \in Seq(Files)
    BY ParameterFacts, EmptySeq
<1> QED
    BY <1>1

\* The slices of the children lie in the list: the last one ends at its end.
LEMMA SliceBounds ==
    ASSUME NEW len \in Nat, NEW n \in Nat \ {0}, NEW i \in 0..(n - 1)
    PROVE  /\ len \div n \in Nat /\ len % n \in Nat
           /\ i * (len \div n) + (len \div n) = (i + 1) * (len \div n)
           /\ i * (len \div n) \in Nat
           /\ i * (len \div n) + (len \div n) <= len
           /\ i = n - 1 => i * (len \div n) + (len \div n) + (len % n) = len
<1> DEFINE q == len \div n
<1>0. len % n = len - n * q
    OBVIOUS
<1>1. q \in Nat /\ len % n \in Nat /\ n * q <= len
    OBVIOUS
<1> HIDE DEF q
<1>2. i * q + q = (i + 1) * q /\ i * q \in Nat
    BY <1>1
<1>3. (i + 1) * q <= n * q
    BY <1>1
<1>4. i = n - 1 => (i + 1) * q = n * q
    BY <1>1
<1>5. n * q \in Nat /\ (i + 1) * q \in Nat
    BY <1>1
<1>6. i * q + q <= len
    BY <1>1, <1>2, <1>3, <1>5
<1>7. i = n - 1 => i * q + q + (len % n) = len
    BY <1>0, <1>1, <1>2, <1>4, <1>5
<1> QED
    BY <1>1, <1>2, <1>6, <1>7, Zenon DEF q

\* A copy that is truncated, or gets one block more, or a stamp, is a copy.
LEMMA CopyTypes ==
    /\ \A t \in Nat : [data |-> <<>>, mtime |-> t] \in Copies
    /\ \A c \in Copies : c.data \in Seq(Blocks) /\ c.mtime \in Nat
    /\ \A d \in Contents, t \in Nat : [data |-> d, mtime |-> t] \in Copies
    /\ \A c, d \in Copies, t \in Nat :
          Len(c.data) < Len(d.data) =>
             [data |-> Append(c.data, d.data[Len(c.data) + 1]), mtime |-> t] \in Copies
    /\ \A c, d \in Copies : [c EXCEPT !.mtime = d.mtime] \in Copies
<1>1. \A c \in Copies : c.data \in Seq(Blocks) /\ c.mtime \in Nat
    BY DEF Copies
<1>2. ASSUME NEW s \in Seq(Blocks), NEW t \in Nat
      PROVE  [data |-> s, mtime |-> t] \in Copies
    BY DEF Copies
<1>3. ASSUME NEW c \in Copies, NEW d \in Copies, NEW t \in Nat,
             Len(c.data) < Len(d.data)
      PROVE  [data |-> Append(c.data, d.data[Len(c.data) + 1]), mtime |-> t] \in Copies
  <2>1. d.data[Len(c.data) + 1] \in Blocks
    BY <1>1, <1>3
  <2>2. Append(c.data, d.data[Len(c.data) + 1]) \in Seq(Blocks)
    BY <1>1, <2>1
  <2> QED
    BY <1>2, <2>2
<1>4. ASSUME NEW c \in Copies, NEW d \in Copies PROVE [c EXCEPT !.mtime = d.mtime] \in Copies
    BY DEF Copies
<1>5. <<>> \in Seq(Blocks)
    OBVIOUS
<1> QED
    BY <1>1, <1>2, <1>3, <1>4, <1>5

\* The run and the trees have their types at first.
LEMMA SyncTypesInit == Init => SyncTypes
<1> SUFFICES ASSUME Init PROVE SyncTypes
    OBVIOUS
<1>1. tgt = <<>> => DOMAIN tgt = {} /\ tgt \in [DOMAIN tgt -> Copies]
    OBVIOUS
<1>2. src \in [Files -> Copies]
    BY CopyTypes DEF Init, FilesInit
<1>3. <<>> \in Seq(Files) /\ Len(<<>>) = 0
    OBVIOUS
<1> QED
    BY <1>1, <1>2, <1>3
    DEF Init, FilesInit, SyncTypes, TreeTypes, MainTypes, WorkerTypes, Opened,
        Programs, Labels, WithFile

\* What a step of a worker does to the target tree keeps its type.
TargetStep(f) ==
    \/ Truncate(f) /\ DirOf[f] \in dirs
    \/ f \in DOMAIN tgt /\ MoreToCopy(f) /\ CopyBlock(f)
    \/ f \in DOMAIN tgt /\ Stamp(f)

\* Writing to a copy leaves the trees well-formed.
LEMMA TargetTypes ==
    ASSUME TreeTypes, NEW f \in Files, TargetStep(f), UNCHANGED <<clock, src, dirs>>
    PROVE  TreeTypes'
<1> USE DEF TreeTypes
<1>1. CASE Truncate(f) /\ DirOf[f] \in dirs
  <2>1. DOMAIN tgt' = DOMAIN tgt \cup {f}
    BY <1>1 DEF Truncate
  <2>2. \A g \in DOMAIN tgt' : tgt'[g] \in Copies
    BY <1>1, CopyTypes DEF Truncate
  <2>3. tgt' = [g \in DOMAIN tgt' |-> tgt'[g]]
    BY <1>1 DEF Truncate
  <2>4. tgt' \in [DOMAIN tgt' -> Copies]
    BY <2>2, <2>3
  <2> QED
    BY <1>1, <2>1, <2>4
<1>2. CASE f \in DOMAIN tgt /\ MoreToCopy(f) /\ CopyBlock(f)
  <2>1. tgt[f] \in Copies /\ src[f] \in Copies
    BY <1>2
  <2>2. PICK c \in Copies : c = [data |-> Append(tgt[f].data, src[f].data[Len(tgt[f].data) + 1]),
                                 mtime |-> clock]
    BY <1>2, <2>1, CopyTypes DEF MoreToCopy, Size
  <2>3. tgt' = [tgt EXCEPT ![f] = c]
    BY <1>2, <2>2 DEF CopyBlock
  <2> QED
    BY <1>2, <2>3
<1>3. CASE f \in DOMAIN tgt /\ Stamp(f)
  <2>1. tgt[f] \in Copies /\ src[f] \in Copies
    BY <1>3
  <2>2. PICK c \in Copies : c = [tgt[f] EXCEPT !.mtime = src[f].mtime]
    BY <2>1, CopyTypes
  <2>3. tgt' = [tgt EXCEPT ![f] = c]
    BY <1>3, <2>2 DEF Stamp
  <2> QED
    BY <1>3, <2>3
<1> QED
    BY <1>1, <1>2, <1>3 DEF TargetStep

\* What main leaves alone keeps its types, and so does a worker that goes on.
mainVars == <<prog, count, mpc, list, index, started, result>>

\* A step that is not main's.
LEMMA MainStays ==
    ASSUME MainTypes, Programs, UNCHANGED mainVars
    PROVE  MainTypes' /\ Programs'
BY DEF MainTypes, Programs, mainVars

\* A step that makes at most a directory.
LEMMA TreeStays ==
    ASSUME TreeTypes, UNCHANGED <<clock, src, tgt>>, dirs \subseteq dirs', dirs' \subseteq Dirs
    PROVE  TreeTypes'
BY DEF TreeTypes

\* A step that is not a worker's.
LEMMA WorkerStays ==
    ASSUME WorkerTypes, Opened, UNCHANGED <<wpc, file, part, failed, taken, errors, tgt>>
    PROVE  WorkerTypes' /\ Opened'
BY DEF WorkerTypes, Opened

\* A worker that goes on with the file it has.
LEMMA WorkerGoes ==
    ASSUME WorkerTypes, Opened, NEW w \in Workers, NEW label \in Labels,
           wpc' = [wpc EXCEPT ![w] = label], DOMAIN tgt \subseteq DOMAIN tgt',
           UNCHANGED <<file, part, failed, taken, errors>>,
           label \in WithFile => wpc[w] \in WithFile,
           label \in {"copy", "stamp"} => file[w] \in DOMAIN tgt'
    PROVE  WorkerTypes' /\ Opened'
BY DEF WorkerTypes, Opened

\* The steps of copying a file, which the three programs have in common.
LEMMA TargetGoes ==
    ASSUME TreeTypes, MainTypes, WorkerTypes, Opened, Programs, NEW w \in Workers,
           wpc[w] \in WithFile, NEW label \in Labels, TargetStep(file[w]),
           wpc' = wpc \/ wpc' = [wpc EXCEPT ![w] = label],
           label \in WithFile, wpc[w] = "open" \/ file[w] \in DOMAIN tgt,
           UNCHANGED <<mainVars, file, part, failed, taken, errors, clock, src, dirs>>
    PROVE  SyncTypes'
<1>1. file[w] \in Files
    BY DEF WorkerTypes
<1>2. TreeTypes'
    BY <1>1, TargetTypes
<1>3. DOMAIN tgt \subseteq DOMAIN tgt' /\ file[w] \in DOMAIN tgt'
  <2>1. CASE Truncate(file[w])
    BY <2>1 DEF Truncate
  <2>2. CASE ~Truncate(file[w])
    BY <2>2 DEF TargetStep, CopyBlock, Stamp
  <2> QED
    BY <2>1, <2>2
<1>4. WorkerTypes' /\ Opened'
  <2>1. CASE wpc' = wpc
    BY <2>1, <1>3 DEF WorkerTypes, Opened
  <2>2. CASE wpc' = [wpc EXCEPT ![w] = label]
    BY <2>2, <1>3, WorkerGoes
  <2> QED
    BY <2>1, <2>2
<1> QED
    BY <1>2, <1>4, MainStays DEF SyncTypes

\* The threads keep the types.
LEMMA ThreadTypes == SyncTypes /\ prog = "thread" /\ Thread!Step => SyncTypes'
<1> SUFFICES ASSUME SyncTypes, prog = "thread", Thread!Step PROVE SyncTypes'
    OBVIOUS
<1> USE DEF Thread!Works, Thread!Fails, Thread!Goto, Thread!fault, Thread!disk,
        Thread!main, Thread!workers, Thread!history, Thread!world, Thread!given, mainVars
<1>a. TreeTypes /\ MainTypes /\ WorkerTypes /\ Opened /\ Programs
    BY DEF SyncTypes
<1>b. <<>> \in Seq(Files) /\ Len(<<>>) = 0 /\ count \in Nat \ {0}
    BY <1>a, ParameterFacts DEF MainTypes
<1>c. dirs \subseteq Dirs
    BY <1>a DEF TreeTypes
<1>1. CASE Thread!CheckDirectories
  <2>1. dirs' = dirs \/ dirs' = dirs \cup {Root}
    BY <1>1 DEF Thread!CheckDirectories, Thread!Mkdir
  <2>2. TreeTypes'
    BY <1>1, <1>a, <1>c, <2>1, TreeStays, ParameterFacts DEF Thread!CheckDirectories
  <2>3. WorkerTypes' /\ Opened'
    BY <1>1, <1>a, WorkerStays DEF Thread!CheckDirectories
  <2>4. list' \in Seq(Files) /\ index' \in 0..Len(list')
    <3>1. UNCHANGED <<list, index>> \/ (list' = <<>> /\ index' = 0)
      BY <1>1 DEF Thread!CheckDirectories, Thread!Return
    <3> QED
      BY <3>1, <1>a, ListTypes DEF MainTypes
  <2>5. MainTypes' /\ Programs'
    BY <1>1, <1>a, <2>4 DEF Thread!CheckDirectories, Thread!Return, MainTypes, Programs
  <2> QED
    BY <2>2, <2>3, <2>5 DEF SyncTypes
<1>2. CASE Thread!sync_directory_structure
  <2>1. dirs \subseteq dirs' /\ dirs' \subseteq Dirs
    BY <1>2, <1>c DEF Thread!sync_directory_structure, Dirs, Thread!Dirs
  <2>2. TreeTypes'
    BY <1>2, <1>a, <2>1, TreeStays DEF Thread!sync_directory_structure
  <2>3. WorkerTypes' /\ Opened'
    BY <1>2, <1>a, WorkerStays DEF Thread!sync_directory_structure
  <2>4. MainTypes' /\ Programs'
    BY <1>2, <1>a DEF Thread!sync_directory_structure, MainTypes, Programs
  <2> QED
    BY <2>2, <2>3, <2>4 DEF SyncTypes
<1>3. CASE Thread!traverse_directory
  <2>1. TreeTypes' /\ WorkerTypes' /\ Opened'
    BY <1>3, <1>a, <1>c, TreeStays, WorkerStays DEF Thread!traverse_directory
  <2>2. index' = 0 /\ \/ list' = <<>>
                      \/ \E F \in SUBSET Files : list' = Listed(F)
    BY <1>3 DEF Thread!traverse_directory, Thread!Return, Thread!Listed, Listed
  <2>3. list' \in Seq(Files) /\ index' \in 0..Len(list')
    BY <2>2, ListTypes
  <2>4. MainTypes' /\ Programs'
    BY <1>3, <1>a, <2>3 DEF Thread!traverse_directory, Thread!Return, MainTypes, Programs
  <2> QED
    BY <2>1, <2>4 DEF SyncTypes
<1>4. CASE Thread!CreateThread
  <2>1. TreeTypes' /\ started \in Workers
    BY <1>4, <1>a, <1>b, <1>c, TreeStays, ParameterFacts DEF Thread!CreateThread, MainTypes
  <2>2. WorkerTypes' /\ Opened'
    BY <1>4, <1>a, <2>1, WorkerStays, WorkerGoes DEF Thread!CreateThread, Labels, WithFile
  <2>3. list' \in Seq(Files) /\ index' \in 0..Len(list') /\ started' \in 0..count
    <3>1. UNCHANGED <<list, index>> \/ (list' = <<>> /\ index' = 0)
      BY <1>4 DEF Thread!CreateThread
    <3>2. started' \in 0..count
      BY <1>4, <1>a, <1>b DEF Thread!CreateThread, MainTypes
    <3> QED
      BY <3>1, <3>2, <1>a, ListTypes DEF MainTypes
  <2>4. MainTypes' /\ Programs'
    BY <1>4, <1>a, <2>3 DEF Thread!CreateThread, MainTypes, Programs
  <2> QED
    BY <2>1, <2>2, <2>4 DEF SyncTypes
<1>5. CASE Thread!JoinThreads
  <2>1. TreeTypes' /\ WorkerTypes' /\ Opened'
    BY <1>5, <1>a, <1>c, TreeStays, WorkerStays DEF Thread!JoinThreads
  <2>2. list' \in Seq(Files) /\ index' \in 0..Len(list')
    BY <1>5, <1>b DEF Thread!JoinThreads, Thread!Return
  <2>3. MainTypes' /\ Programs'
    BY <1>5, <1>a, <2>2 DEF Thread!JoinThreads, Thread!Return, MainTypes, Programs
  <2> QED
    BY <2>1, <2>3 DEF SyncTypes
<1>6. CASE Thread!ExitProcess
  <2>1. TreeTypes'
    BY <1>6, <1>a, <1>c, TreeStays DEF Thread!ExitProcess
  <2>2. Thread!Workers = Workers
    BY DEF Workers, Thread!Workers
  <2>3. WorkerTypes' /\ Opened'
    BY <1>6, <1>a, <2>2 DEF Thread!ExitProcess, WorkerTypes, Opened, Labels, WithFile
  <2>4. MainTypes' /\ Programs'
    BY <1>6, <1>a DEF Thread!ExitProcess, MainTypes, Programs
  <2> QED
    BY <2>1, <2>3, <2>4 DEF SyncTypes
<1>7. ASSUME NEW w \in Workers, Thread!worker_thread(w) PROVE SyncTypes'
  <2>0. wpc[w] \in WithFile => file[w] \in Files
    BY <1>a DEF WorkerTypes
  <2>1. CASE Thread!get_next_file(w)
    <3>1. TreeTypes'
      BY <2>1, <1>a, <1>c, TreeStays DEF Thread!get_next_file
    <3>2. index < Len(list) => list[index + 1] \in Files /\ index + 1 \in 0..Len(list)
      BY <1>a DEF MainTypes
    <3>3. mpc # "fork"
      BY <1>a DEF Programs
    <3>4. MainTypes' /\ Programs'
      BY <2>1, <1>a, <3>2, <3>3 DEF Thread!get_next_file, MainTypes, Programs
    <3>5. WorkerTypes' /\ Opened'
      <4>1. CASE index < Len(list)
        <5>1. PICK f \in Files : f = list[index + 1]
          BY <3>2, <4>1
        <5>2. /\ file' = [file EXCEPT ![w] = f] /\ wpc' = [wpc EXCEPT ![w] = "compare"]
              /\ taken' = [taken EXCEPT ![f] = @ + 1]
              /\ UNCHANGED <<part, failed, errors, tgt>>
          BY <2>1, <4>1, <5>1, <1>a DEF Thread!get_next_file, WorkerTypes
        <5> QED
          BY <5>2, <1>a DEF WorkerTypes, Opened, Labels, WithFile
      <4>2. CASE ~(index < Len(list))
        BY <2>1, <4>2, <1>a, WorkerGoes DEF Thread!get_next_file, Labels, WithFile
      <4> QED
        BY <4>1, <4>2
    <3> QED
      BY <3>1, <3>4, <3>5 DEF SyncTypes
  <2>2. CASE Thread!Compare(w)
    <3>1. TreeTypes' /\ MainTypes' /\ Programs'
      BY <2>2, <1>a, <1>c, TreeStays, MainStays DEF Thread!Compare
    <3>2. PICK label \in {"synced", "open", "mkdir"} : wpc' = [wpc EXCEPT ![w] = label]
      BY <2>2 DEF Thread!Compare
    <3>3. WorkerTypes' /\ Opened'
      BY <2>2, <1>a, <3>2, WorkerGoes DEF Thread!Compare, Labels, WithFile
    <3> QED
      BY <3>1, <3>3 DEF SyncTypes
  <2>3. CASE Thread!create_directory(w)
    <3>1. file[w] \in Files
      BY <2>3, <2>0 DEF Thread!create_directory, WithFile
    <3>2. dirs' = dirs \/ dirs' = dirs \cup {Root, DirOf[file[w]]}
      BY <2>3 DEF Thread!create_directory, Thread!Mkdir
    <3>3. TreeTypes' /\ MainTypes' /\ Programs'
      BY <2>3, <1>a, <1>c, <3>1, <3>2, ParameterFacts, TreeStays, MainStays
      DEF Thread!create_directory
    <3>4. WorkerTypes' /\ Opened'
      BY <2>3, <1>a, WorkerGoes DEF Thread!create_directory, Labels, WithFile
    <3> QED
      BY <3>3, <3>4 DEF SyncTypes
  <2>4. CASE Thread!OpenFiles(w)
    <3>1. wpc[w] \in WithFile
      BY <2>4 DEF Thread!OpenFiles, WithFile
    <3>2. CASE Thread!Fails("open")
      <4>1. tgt' = tgt /\ wpc' = [wpc EXCEPT ![w] = "error"]
        BY <2>4, <3>2 DEF Thread!OpenFiles
      <4>2. TreeTypes' /\ MainTypes' /\ Programs'
        BY <2>4, <4>1, <1>a, <1>c, TreeStays, MainStays DEF Thread!OpenFiles
      <4>3. WorkerTypes' /\ Opened'
        BY <2>4, <4>1, <3>1, <1>a, WorkerGoes DEF Thread!OpenFiles, Labels
      <4> QED
        BY <4>2, <4>3 DEF SyncTypes
    <3>3. CASE ~Thread!Fails("open")
      <4>1. TargetStep(file[w]) /\ wpc' = [wpc EXCEPT ![w] = "copy"]
        BY <2>4, <3>3 DEF Thread!OpenFiles, Thread!Truncate, TargetStep, Truncate
      <4> QED
        BY <2>4, <3>1, <1>a, <4>1, TargetGoes DEF Thread!OpenFiles, Labels, WithFile
    <3> QED
      BY <3>2, <3>3
  <2>5. CASE Thread!CopyLoop(w)
    <3>1. wpc[w] \in WithFile /\ file[w] \in DOMAIN tgt
      BY <2>5, <1>a DEF Thread!CopyLoop, Opened, WithFile
    <3>2. PICK label \in {"copy", "stamp", "synced", "error"} :
             \/ wpc' = [wpc EXCEPT ![w] = label] /\ tgt' = tgt
             \/ wpc' = wpc /\ TargetStep(file[w])
      BY <2>5, <3>1 DEF Thread!CopyLoop, Thread!CopyBlock, Thread!MoreToCopy, Thread!Size,
         TargetStep, CopyBlock, MoreToCopy, Size
    <3>3. CASE wpc' = [wpc EXCEPT ![w] = label] /\ tgt' = tgt
      <4>1. TreeTypes' /\ MainTypes' /\ Programs'
        BY <2>5, <3>3, <1>a, <1>c, TreeStays, MainStays DEF Thread!CopyLoop
      <4>2. WorkerTypes' /\ Opened'
        BY <2>5, <3>1, <3>3, <1>a, WorkerGoes DEF Thread!CopyLoop, Labels
      <4> QED
        BY <4>1, <4>2 DEF SyncTypes
    <3>4. CASE wpc' = wpc /\ TargetStep(file[w])
      BY <2>5, <3>1, <3>4, <1>a, TargetGoes DEF Thread!CopyLoop, Labels, WithFile
    <3> QED
      BY <3>2, <3>3, <3>4
  <2>6. CASE Thread!StampFile(w)
    <3>1. wpc[w] \in WithFile /\ file[w] \in DOMAIN tgt
      BY <2>6, <1>a DEF Thread!StampFile, Opened, WithFile
    <3>2. tgt' = tgt \/ TargetStep(file[w])
      BY <2>6, <3>1 DEF Thread!StampFile, Thread!Stamp, TargetStep, Stamp
    <3>3. CASE tgt' = tgt
      <4>1. TreeTypes' /\ MainTypes' /\ Programs'
        BY <2>6, <3>3, <1>a, <1>c, TreeStays, MainStays DEF Thread!StampFile
      <4>2. WorkerTypes' /\ Opened'
        BY <2>6, <3>1, <3>3, <1>a, WorkerGoes DEF Thread!StampFile, Labels
      <4> QED
        BY <4>1, <4>2 DEF SyncTypes
    <3>4. CASE TargetStep(file[w])
      BY <2>6, <3>1, <3>4, <1>a, TargetGoes DEF Thread!StampFile, Labels, WithFile
    <3> QED
      BY <3>2, <3>3, <3>4
  <2>7. CASE Thread!CountFile(w)
    <3>1. TreeTypes' /\ MainTypes' /\ Programs'
      BY <2>7, <1>a, <1>c, TreeStays, MainStays DEF Thread!CountFile
    <3>2. file[w] \in Files
      BY <2>7, <2>0 DEF Thread!CountFile, WithFile
    <3>3. WorkerTypes' /\ Opened'
      BY <2>7, <1>a, <3>2 DEF Thread!CountFile, WorkerTypes, Opened, Labels, WithFile
    <3> QED
      BY <3>1, <3>3 DEF SyncTypes
  <2>8. CASE Thread!LostPath(w)
    <3>1. TreeTypes' /\ MainTypes' /\ Programs'
      BY <2>8, <1>a, <1>c, TreeStays, MainStays DEF Thread!LostPath
    <3>2. WorkerTypes' /\ Opened'
      BY <2>8, <1>a, WorkerGoes DEF Thread!LostPath, Labels, WithFile
    <3> QED
      BY <3>1, <3>2 DEF SyncTypes
  <2> QED
    BY <1>7, <2>1, <2>2, <2>3, <2>4, <2>5, <2>6, <2>7, <2>8 DEF Thread!worker_thread
<1> QED
    BY <1>1, <1>2, <1>3, <1>4, <1>5, <1>6, <1>7
    DEF Thread!Step, Thread!perform_sync, Workers, Thread!Workers

\* What a child gets: as many files from where the parent is in the list, and
\* the last child all that are left.
LEMMA SliceFacts ==
    ASSUME MainTypes, Programs, mpc = "fork", started < count
    PROVE  /\ Process!Slice(started, index) \in Seq(Files)
           /\ \A k \in 1..Len(Process!Slice(started, index)) :
                 /\ index + k \in 1..Len(list)
                 /\ Process!Slice(started, index)[k] = list[index + k]
           /\ Len(Process!Slice(started, index)) =
                 IF started = count - 1 THEN Len(list) - index ELSE Len(list) \div count
           /\ index + Len(list) \div count \in 0..Len(list)
           /\ index + Len(list) \div count = (started + 1) * (Len(list) \div count)
<1>1. /\ count \in Nat \ {0} /\ started \in 0..(count - 1) /\ Len(list) \in Nat
      /\ list \in Seq(Files) /\ index \in Nat
    BY ParameterFacts DEF MainTypes
<1>2. index = started * (Len(list) \div count)
    BY DEF Programs
<1>3. PICK len \in Nat, n \in Nat \ {0}, i \in Nat :
         len = Len(list) /\ n = count /\ i = started /\ i \in 0..(n - 1)
    BY <1>1
<1>4. /\ len \div n \in Nat /\ len % n \in Nat
      /\ i * (len \div n) + (len \div n) = (i + 1) * (len \div n)
      /\ i * (len \div n) + (len \div n) <= len
      /\ i = n - 1 => i * (len \div n) + (len \div n) + (len % n) = len
  <2>1. i \in 0..(n - 1)
    BY <1>3
  <2> HIDE <1>3, FilesAssumption, DirOfAssumption, ContentsAssumption, OriginalAssumption,
    BoundsAssumption, CountsAssumption
  <2> QED
    BY <2>1, SliceBounds, Zenon
<1>5. PICK q \in Nat, r \in Nat : q = len \div n /\ r = len % n
    BY <1>4
<1>6. index = i * q
    BY <1>2, <1>3, <1>5
<1>7. index + q <= len /\ (i = n - 1 => index + q + r = len)
    BY <1>4, <1>5, <1>6
<1>8. index + Len(list) \div count = (started + 1) * (Len(list) \div count)
    BY <1>3, <1>4, <1>5, <1>6
<1>9. PICK end \in Nat : /\ end = index + q + (IF i = n - 1 THEN r ELSE 0)
                        /\ end <= len /\ index <= end
                        /\ end - index = IF i = n - 1 THEN len - index ELSE q
  <2> DEFINE e == index + q + (IF i = n - 1 THEN r ELSE 0)
  <2>0. index \in Nat
    BY <1>1
  <2>1. CASE i = n - 1
    <3>1. e = index + q + r /\ e \in Nat /\ e <= len /\ index <= e /\ e - index = len - index
      BY <2>0, <2>1, <1>7
    <3> HIDE DEF e
    <3> QED
      BY <3>1, <2>1
  <2>2. CASE i # n - 1
    <3>1. e = index + q /\ e \in Nat /\ e <= len /\ index <= e /\ e - index = q
      BY <2>0, <2>2, <1>7
    <3> HIDE DEF e
    <3> QED
      BY <3>1, <2>2
  <2> QED
    BY <2>1, <2>2
<1>10. Process!Slice(started, index) = SubSeq(list, index + 1, end)
    BY <1>3, <1>5, <1>9 DEF Process!Slice
<1>11. \A k \in (index + 1)..end : list[k] \in Files
  <2>1. \A k \in (index + 1)..end : k \in 1..Len(list)
    BY <1>1, <1>3, <1>9
  <2>2. \A k \in 1..Len(list) : list[k] \in Files
    BY <1>1
  <2> QED
    BY <2>1, <2>2
<1>12. PICK slice : slice = SubSeq(list, index + 1, end)
    OBVIOUS
<1>13. /\ slice \in Seq(Files) /\ Len(slice) = end - index
       /\ \A k \in 1..(end - index) : slice[k] = list[index + k]
  <2>1. /\ slice \in Seq(Files)
        /\ Len(slice) = IF index + 1 <= end THEN end - (index + 1) + 1 ELSE 0
        /\ \A k \in 1..(end - (index + 1) + 1) : slice[k] = list[index + 1 + k - 1]
    BY <1>1, <1>11, <1>12, SubSeqProperties
  <2>2. \A k \in Nat : index + 1 + k - 1 = index + k
    BY <1>1
  <2> QED
    BY <1>1, <1>9, <2>1, <2>2
<1>14. \A k \in 1..(end - index) : index + k \in 1..Len(list)
    BY <1>1, <1>3, <1>9
<1>15. index + Len(list) \div count \in 0..Len(list)
    BY <1>1, <1>3, <1>5, <1>7
<1>16. Len(slice) = IF started = count - 1 THEN Len(list) - index ELSE Len(list) \div count
    BY <1>3, <1>5, <1>9, <1>13
<1> QED
    BY <1>8, <1>10, <1>12, <1>13, <1>14, <1>15, <1>16

\* The process version keeps the types.
LEMMA ProcessTypes == SyncTypes /\ prog = "process" /\ Process!Step => SyncTypes'
<1> SUFFICES ASSUME SyncTypes, prog = "process", Process!Step PROVE SyncTypes'
    OBVIOUS
<1> USE DEF Process!Works, Process!Fails, Process!Goto, Process!fault, Process!disk,
        Process!main, Process!workers, Process!history, Process!world, Process!given, mainVars
<1>a. TreeTypes /\ MainTypes /\ WorkerTypes /\ Opened /\ Programs
    BY DEF SyncTypes
<1>b. <<>> \in Seq(Files) /\ count \in Nat \ {0}
    BY <1>a, ParameterFacts, EmptySeq DEF MainTypes
<1>c. dirs \subseteq Dirs
    BY <1>a DEF TreeTypes
<1>1. CASE Process!CheckDirectories
  <2>1. dirs' = dirs \/ dirs' = dirs \cup {Root}
    BY <1>1 DEF Process!CheckDirectories, Process!Mkdir
  <2>2. TreeTypes'
    BY <1>1, <1>a, <1>c, <2>1, TreeStays, ParameterFacts DEF Process!CheckDirectories
  <2>3. WorkerTypes' /\ Opened'
    BY <1>1, <1>a, WorkerStays DEF Process!CheckDirectories
  <2>4. list' \in Seq(Files) /\ index' \in 0..Len(list')
    <3>1. UNCHANGED <<list, index>> \/ (list' = <<>> /\ index' = 0)
      BY <1>1 DEF Process!CheckDirectories, Process!Return
    <3> QED
      BY <3>1, <1>a, ListTypes DEF MainTypes
  <2>5. MainTypes' /\ Programs'
    BY <1>1, <1>a, <2>4 DEF Process!CheckDirectories, Process!Return, MainTypes, Programs
  <2> QED
    BY <2>2, <2>3, <2>5 DEF SyncTypes
<1>2. CASE Process!sync_directory_structure
  <2>1. dirs \subseteq dirs' /\ dirs' \subseteq Dirs
    BY <1>2, <1>c DEF Process!sync_directory_structure, Dirs, Process!Dirs
  <2>2. TreeTypes'
    BY <1>2, <1>a, <2>1, TreeStays DEF Process!sync_directory_structure
  <2>3. WorkerTypes' /\ Opened'
    BY <1>2, <1>a, WorkerStays DEF Process!sync_directory_structure
  <2>4. MainTypes' /\ Programs'
    BY <1>2, <1>a DEF Process!sync_directory_structure, MainTypes, Programs
  <2> QED
    BY <2>2, <2>3, <2>4 DEF SyncTypes
<1>3. CASE Process!traverse_directory
  <2>1. TreeTypes' /\ WorkerTypes' /\ Opened'
    BY <1>3, <1>a, <1>c, TreeStays, WorkerStays DEF Process!traverse_directory
  <2>2. index' = 0 /\ \/ list' = <<>>
                      \/ \E F \in SUBSET Files : list' = Listed(F)
    BY <1>3 DEF Process!traverse_directory, Process!Return, Process!Listed, Listed
  <2>3. list' \in Seq(Files) /\ index' \in 0..Len(list')
    BY <2>2, ListTypes
  <2>4. MainTypes'
    BY <1>3, <1>a, <2>3 DEF Process!traverse_directory, Process!Return, MainTypes
  <2>5. Programs'
    <3>1. started' = 0 /\ index' = 0 /\ prog' = prog
      BY <1>3, <1>a, <2>2 DEF Process!traverse_directory, Programs
    <3>2. 0 = 0 * (Len(list') \div count')
      BY <1>b, <1>3, <2>3, SliceBounds DEF Process!traverse_directory
    <3> QED
      BY <1>3, <1>a, <3>1, <3>2 DEF Process!traverse_directory, Process!Return, Programs
  <2> QED
    BY <2>1, <2>4, <2>5 DEF SyncTypes
<1>4. CASE Process!ForkChild
  <2>1. TreeTypes' /\ started \in Workers /\ started + 1 \in 0..count
    BY <1>4, <1>a, <1>b, <1>c, TreeStays, ParameterFacts DEF Process!ForkChild, MainTypes
  <2>2. CASE Process!Fails("fork")
    <3>1. list' = <<>> /\ index' = 0 /\ mpc' = "ended"
      BY <1>4, <2>2 DEF Process!ForkChild, Process!Return
    <3>2. list' \in Seq(Files) /\ index' \in 0..Len(list')
      BY <3>1, ListTypes
    <3>3. MainTypes' /\ Programs'
      BY <1>4, <2>2, <3>1, <3>2, <1>a
      DEF Process!ForkChild, Process!Return, MainTypes, Programs
    <3>4. WorkerTypes' /\ Opened'
      BY <1>4, <2>2, <1>a, WorkerStays DEF Process!ForkChild, Process!Return
    <3> QED
      BY <2>1, <3>3, <3>4 DEF SyncTypes
  <2>3. CASE ~Process!Fails("fork")
    <3>1. PICK slice \in Seq(Files) :
             /\ slice = Process!Slice(started, index)
             /\ index + Len(list) \div count \in 0..Len(list)
             /\ index + Len(list) \div count = (started + 1) * (Len(list) \div count)
      BY <1>4, <1>a, SliceFacts DEF Process!ForkChild
    <3>2. /\ part' = [part EXCEPT ![started] = slice]
          /\ wpc' = [wpc EXCEPT ![started] = "next"] /\ started' = started + 1
          /\ index' = index + Len(list) \div count
          /\ UNCHANGED <<mpc, list, result, file, prog, count, failed, taken, errors, tgt>>
      BY <1>4, <2>3, <3>1 DEF Process!ForkChild
    <3>3. MainTypes'
      BY <3>1, <3>2, <2>1, <1>a DEF MainTypes
    <3>4. Programs'
      BY <3>1, <3>2, <1>a, <1>4 DEF Programs, Process!ForkChild
    <3>5. WorkerTypes' /\ Opened'
      BY <3>2, <2>1, <1>a DEF WorkerTypes, Opened, Labels, WithFile
    <3> QED
      BY <2>1, <3>3, <3>4, <3>5 DEF SyncTypes
  <2> QED
    BY <2>2, <2>3
<1>5. CASE Process!WaitChildren
  <2>1. TreeTypes' /\ WorkerTypes' /\ Opened'
    BY <1>5, <1>a, <1>c, TreeStays, WorkerStays DEF Process!WaitChildren
  <2>2. list' \in Seq(Files) /\ index' \in 0..Len(list')
    BY <1>5, ListTypes DEF Process!WaitChildren, Process!Return
  <2>3. MainTypes' /\ Programs'
    BY <1>5, <1>a, <2>2 DEF Process!WaitChildren, Process!Return, MainTypes, Programs
  <2> QED
    BY <2>1, <2>3 DEF SyncTypes
<1>6. ASSUME NEW w \in Workers, Process!ChildDies(w) PROVE SyncTypes'
  <2>1. TreeTypes' /\ MainTypes' /\ Programs'
    BY <1>6, <1>a, <1>c, TreeStays, MainStays DEF Process!ChildDies
  <2>2. WorkerTypes' /\ Opened'
    BY <1>6, <1>a, <1>b DEF Process!ChildDies, WorkerTypes, Opened, Labels, WithFile
  <2> QED
    BY <2>1, <2>2 DEF SyncTypes
<1>7. ASSUME NEW w \in Workers, Process!worker_process(w) PROVE SyncTypes'
  <2>0. wpc[w] \in WithFile => file[w] \in Files
    BY <1>a DEF WorkerTypes
  <2>1. CASE Process!NextFile(w)
    <3>1. TreeTypes' /\ MainTypes' /\ Programs'
      BY <2>1, <1>a, <1>c, TreeStays, MainStays DEF Process!NextFile
    <3>2. failed' \subseteq Files
      BY <2>1, <1>a, <2>0 DEF Process!NextFile, WorkerTypes, WithFile
    <3>3. part[w] \in Seq(Files)
      BY <1>a DEF WorkerTypes
    <3>4. CASE part[w] # <<>>
      <4>1. PICK f \in Files, rest \in Seq(Files) : f = Head(part[w]) /\ rest = Tail(part[w])
        BY <3>3, <3>4, HeadTailProperties
      <4>2. /\ file' = [file EXCEPT ![w] = f] /\ part' = [part EXCEPT ![w] = rest]
            /\ taken' = [taken EXCEPT ![f] = @ + 1]
            /\ wpc' = [wpc EXCEPT ![w] = "compare"] /\ UNCHANGED <<errors, tgt>>
        BY <2>1, <3>4, <4>1 DEF Process!NextFile
      <4>3. WorkerTypes' /\ Opened'
        BY <3>2, <4>2, <1>a DEF WorkerTypes, Opened, Labels, WithFile
      <4> QED
        BY <3>1, <4>3 DEF SyncTypes
    <3>5. CASE part[w] = <<>>
      <4>1. /\ file' = [file EXCEPT ![w] = NoFile] /\ UNCHANGED <<part, taken, errors, tgt>>
            /\ wpc' = [wpc EXCEPT ![w] = "done"]
        BY <2>1, <3>5 DEF Process!NextFile
      <4>2. WorkerTypes' /\ Opened'
        BY <3>2, <4>1, <1>a DEF WorkerTypes, Opened, Labels, WithFile
      <4> QED
        BY <3>1, <4>2 DEF SyncTypes
    <3> QED
      BY <3>4, <3>5
  <2>2. CASE Process!Compare(w)
    <3>1. TreeTypes' /\ MainTypes' /\ Programs'
      BY <2>2, <1>a, <1>c, TreeStays, MainStays DEF Process!Compare
    <3>2. PICK label \in {"synced", "open", "mkdir"} : wpc' = [wpc EXCEPT ![w] = label]
      BY <2>2 DEF Process!Compare
    <3>3. WorkerTypes' /\ Opened'
      BY <2>2, <1>a, <3>2, WorkerGoes DEF Process!Compare, Labels, WithFile
    <3> QED
      BY <3>1, <3>3 DEF SyncTypes
  <2>3. CASE Process!create_directory(w)
    <3>1. file[w] \in Files
      BY <2>3, <2>0 DEF Process!create_directory, WithFile
    <3>2. dirs' = dirs \/ dirs' = dirs \cup {Root, DirOf[file[w]]}
      BY <2>3 DEF Process!create_directory, Process!Mkdir
    <3>3. TreeTypes' /\ MainTypes' /\ Programs'
      BY <2>3, <1>a, <1>c, <3>1, <3>2, ParameterFacts, TreeStays, MainStays
      DEF Process!create_directory
    <3>4. WorkerTypes' /\ Opened'
      BY <2>3, <1>a, WorkerGoes DEF Process!create_directory, Labels, WithFile
    <3> QED
      BY <3>3, <3>4 DEF SyncTypes
  <2>4. CASE Process!OpenFiles(w)
    <3>1. wpc[w] \in WithFile
      BY <2>4 DEF Process!OpenFiles, WithFile
    <3>2. CASE Process!Fails("open")
      <4>1. tgt' = tgt /\ wpc' = [wpc EXCEPT ![w] = "error"]
        BY <2>4, <3>2 DEF Process!OpenFiles
      <4>2. TreeTypes' /\ MainTypes' /\ Programs'
        BY <2>4, <4>1, <1>a, <1>c, TreeStays, MainStays DEF Process!OpenFiles
      <4>3. WorkerTypes' /\ Opened'
        BY <2>4, <4>1, <3>1, <1>a, WorkerGoes DEF Process!OpenFiles, Labels
      <4> QED
        BY <4>2, <4>3 DEF SyncTypes
    <3>3. CASE ~Process!Fails("open")
      <4>1. TargetStep(file[w]) /\ wpc' = [wpc EXCEPT ![w] = "copy"]
        BY <2>4, <3>3 DEF Process!OpenFiles, Process!Truncate, TargetStep, Truncate
      <4> QED
        BY <2>4, <3>1, <1>a, <4>1, TargetGoes DEF Process!OpenFiles, Labels, WithFile
    <3> QED
      BY <3>2, <3>3
  <2>5. CASE Process!CopyLoop(w)
    <3>1. wpc[w] \in WithFile /\ file[w] \in DOMAIN tgt
      BY <2>5, <1>a DEF Process!CopyLoop, Opened, WithFile
    <3>2. PICK label \in {"copy", "stamp", "synced", "error"} :
             \/ wpc' = [wpc EXCEPT ![w] = label] /\ tgt' = tgt
             \/ wpc' = wpc /\ TargetStep(file[w])
      BY <2>5, <3>1 DEF Process!CopyLoop, Process!CopyBlock, Process!MoreToCopy, Process!Size,
         TargetStep, CopyBlock, MoreToCopy, Size
    <3>3. CASE wpc' = [wpc EXCEPT ![w] = label] /\ tgt' = tgt
      <4>1. TreeTypes' /\ MainTypes' /\ Programs'
        BY <2>5, <3>3, <1>a, <1>c, TreeStays, MainStays DEF Process!CopyLoop
      <4>2. WorkerTypes' /\ Opened'
        BY <2>5, <3>1, <3>3, <1>a, WorkerGoes DEF Process!CopyLoop, Labels
      <4> QED
        BY <4>1, <4>2 DEF SyncTypes
    <3>4. CASE wpc' = wpc /\ TargetStep(file[w])
      BY <2>5, <3>1, <3>4, <1>a, TargetGoes DEF Process!CopyLoop, Labels, WithFile
    <3> QED
      BY <3>2, <3>3, <3>4
  <2> QED
    BY <1>7, <2>1, <2>2, <2>3, <2>4, <2>5 DEF Process!worker_process
<1> QED
    BY <1>1, <1>2, <1>3, <1>4, <1>5, <1>6, <1>7
    DEF Process!Step, Process!perform_sync, Workers, Process!Workers

\* An error ends the walk of the simple version and keeps the types.
LEMMA QuitTypes ==
    ASSUME TreeTypes, MainTypes, WorkerTypes, Opened, Programs, TreeTypes',
           Simple!Quit, DOMAIN tgt \subseteq DOMAIN tgt',
           UNCHANGED <<prog, count, list, index, started, part, taken, errors>>
    PROVE  SyncTypes'
<1>1. 0 \in Workers
    BY ParameterFacts
<1>2. MainTypes' /\ Programs'
    BY DEF Simple!Quit, MainTypes, Programs
<1>3. WorkerTypes' /\ Opened'
    BY <1>1 DEF Simple!Quit, Simple!Goto, Simple!Me, WorkerTypes, Opened, Labels, WithFile
<1> QED
    BY <1>2, <1>3 DEF SyncTypes

\* The simple version keeps the types.
LEMMA SimpleTypes == SyncTypes /\ prog = "simple" /\ Simple!Step => SyncTypes'
<1> SUFFICES ASSUME SyncTypes, prog = "simple", Simple!Step PROVE SyncTypes'
    OBVIOUS
<1> USE DEF Simple!Works, Simple!Fails, Simple!Goto, Simple!fault, Simple!disk,
        Simple!main, Simple!workers, Simple!history, Simple!world, Simple!given,
        Simple!Going, Simple!Me, mainVars
<1>a. TreeTypes /\ MainTypes /\ WorkerTypes /\ Opened /\ Programs
    BY DEF SyncTypes
<1>b. 0 \in Workers /\ (wpc[0] \in WithFile => file[0] \in Files)
    BY <1>a, ParameterFacts DEF WorkerTypes
<1>c. dirs \subseteq Dirs
    BY <1>a DEF TreeTypes
<1>d. ASSUME Simple!Quit, UNCHANGED <<tgt, dirs, clock, src>>,
             UNCHANGED <<prog, count, list, index, started, part, taken, errors>>
      PROVE  SyncTypes'
    BY <1>a, <1>c, <1>d, TreeStays, QuitTypes
<1>e. ASSUME NEW label \in Labels, wpc' = [wpc EXCEPT ![0] = label],
             label \in WithFile => wpc[0] \in WithFile,
             label \in {"copy", "stamp"} => file[0] \in DOMAIN tgt,
             UNCHANGED <<tgt, dirs, clock, src, mainVars, file, part, failed, taken, errors>>
      PROVE  SyncTypes'
  <2>1. TreeTypes' /\ MainTypes' /\ Programs'
    BY <1>a, <1>c, <1>e, TreeStays, MainStays
  <2>2. WorkerTypes' /\ Opened'
    BY <1>a, <1>b, <1>e, WorkerGoes
  <2> QED
    BY <2>1, <2>2 DEF SyncTypes
<1>f. \A label : wpc' = [wpc EXCEPT ![0] = label] => wpc'[0] = label
    BY <1>a, <1>b DEF WorkerTypes
<1>g. Simple!Quit => wpc'[0] = "done"
    BY <1>f DEF Simple!Quit
<1>1. CASE Simple!Open
  <2>1. CASE Simple!Quit
    BY <1>1, <1>d, <1>f, <1>g, <2>1 DEF Simple!Open
  <2>2. CASE ~Simple!Quit
    <3>1. /\ list' = Listed(Files) /\ index' = 0 /\ mpc' = "walk"
          /\ wpc' = [wpc EXCEPT ![0] = "entry"]
          /\ UNCHANGED <<result, failed, file, tgt, dirs, started, part, errors, taken,
                         clock, src, prog, count>>
      BY <1>1, <2>2 DEF Simple!Open, Simple!Listed, Listed
    <3>2. list' \in Seq(Files) /\ index' \in 0..Len(list')
      <4>1. Files \in SUBSET Files
        OBVIOUS
      <4> QED
        BY <3>1, <4>1, ListTypes
    <3>3. MainTypes' /\ Programs'
      BY <3>1, <3>2, <1>a DEF MainTypes, Programs
    <3>4. TreeTypes' /\ WorkerTypes' /\ Opened'
      BY <3>1, <1>a, <1>b, <1>c, TreeStays, WorkerGoes DEF Labels, WithFile
    <3> QED
      BY <3>3, <3>4 DEF SyncTypes
  <2> QED
    BY <2>1, <2>2
<1>2. CASE Simple!Entry
  <2>1. list[index + 1] \in Files /\ index + 1 \in 0..Len(list) /\ mpc # "fork"
    BY <1>2, <1>a DEF Simple!Entry, MainTypes, Programs
  <2>2. CASE Simple!Quit
    BY <1>2, <1>d, <1>f, <1>g, <2>2 DEF Simple!Entry
  <2>3. CASE ~Simple!Quit
    <3>1. index' = index + 1 /\ UNCHANGED <<tgt, dirs, clock, src, mpc, list, started, result, prog, count>>
      BY <1>2, <2>3 DEF Simple!Entry
    <3>2. TreeTypes' /\ MainTypes' /\ Programs'
      BY <3>1, <1>a, <1>c, <2>1, TreeStays DEF MainTypes, Programs
    <3>3. WorkerTypes' /\ Opened'
      <4>1. CASE wpc' = wpc /\ taken' = taken /\ file' = file
        BY <1>2, <2>3, <4>1, <1>a, WorkerStays DEF Simple!Entry
      <4>2. CASE ~(wpc' = wpc /\ taken' = taken /\ file' = file)
        <5>1. PICK f \in Files : f = list[index + 1]
          BY <2>1
        <5>2. /\ file' = [file EXCEPT ![0] = f] /\ wpc' = [wpc EXCEPT ![0] = "compare"]
              /\ taken' = [taken EXCEPT ![f] = @ + 1]
              /\ UNCHANGED <<part, failed, errors, tgt>>
          BY <1>2, <2>3, <4>2, <5>1, <1>a, <1>b DEF Simple!Entry, WorkerTypes
        <5> QED
          BY <5>2, <1>a, <1>b DEF WorkerTypes, Opened, Labels, WithFile
      <4> QED
        BY <4>1, <4>2
    <3> QED
      BY <3>2, <3>3 DEF SyncTypes
  <2> QED
    BY <2>2, <2>3
<1>3. CASE Simple!EndOfWalk
  <2>1. TreeTypes' /\ WorkerTypes' /\ Opened'
    BY <1>3, <1>a, <1>b, <1>c, TreeStays, WorkerGoes DEF Simple!EndOfWalk, Labels, WithFile
  <2>2. MainTypes' /\ Programs'
    BY <1>3, <1>a DEF Simple!EndOfWalk, MainTypes, Programs
  <2> QED
    BY <2>1, <2>2 DEF SyncTypes
<1>4. CASE Simple!Compare
  <2>1. CASE Simple!Quit
    BY <1>4, <1>d, <2>1 DEF Simple!Compare
  <2>2. CASE ~Simple!Quit
    <3>1. PICK label \in {"synced", "mkdir"} : wpc' = [wpc EXCEPT ![0] = label]
      BY <1>4, <2>2 DEF Simple!Compare
    <3> QED
      BY <1>4, <1>e, <2>2, <3>1 DEF Simple!Compare, Labels, WithFile
  <2> QED
    BY <2>1, <2>2
<1>5. CASE Simple!create_directory_recursive
  <2>1. CASE Simple!Quit
    BY <1>5, <1>d, <1>f, <1>g, <2>1 DEF Simple!create_directory_recursive
  <2>2. CASE ~Simple!Quit
    <3>1. dirs' = dirs \cup {Root, DirOf[file[0]]} /\ file[0] \in Files
      BY <1>5, <1>b, <2>2 DEF Simple!create_directory_recursive, Simple!Mkdir, WithFile
    <3>2. TreeTypes' /\ MainTypes' /\ Programs'
      BY <1>5, <1>a, <1>c, <2>2, <3>1, ParameterFacts, TreeStays, MainStays
      DEF Simple!create_directory_recursive
    <3>3. WorkerTypes' /\ Opened'
      BY <1>5, <1>a, <1>b, <2>2, WorkerGoes
      DEF Simple!create_directory_recursive, Labels, WithFile
    <3> QED
      BY <3>2, <3>3 DEF SyncTypes
  <2> QED
    BY <2>1, <2>2
<1>6. CASE Simple!OpenFiles
  <2>1. CASE Simple!Quit
    BY <1>6, <1>d, <1>f, <1>g, <2>1 DEF Simple!OpenFiles
  <2>2. CASE ~Simple!Quit
    <3>1. TargetStep(file[0]) /\ wpc' = [wpc EXCEPT ![0] = "copy"]
      BY <1>6, <2>2 DEF Simple!OpenFiles, Simple!Truncate, TargetStep, Truncate
    <3> QED
      BY <1>6, <1>a, <1>b, <2>2, <3>1, TargetGoes DEF Simple!OpenFiles, Labels, WithFile
  <2> QED
    BY <2>1, <2>2
<1>7. CASE Simple!copy_file_data
  <2>1. wpc[0] \in WithFile /\ file[0] \in DOMAIN tgt
    BY <1>7, <1>a, <1>b DEF Simple!copy_file_data, Opened, WithFile
  <2>2. CASE Simple!Quit
    BY <1>7, <1>d, <1>f, <1>g, <2>2 DEF Simple!copy_file_data
  <2>3. CASE ~Simple!Quit /\ tgt' = tgt /\ wpc' = [wpc EXCEPT ![0] = "stamp"]
    BY <1>7, <1>e, <2>1, <2>3 DEF Simple!copy_file_data, Labels
  <2>4. CASE ~Simple!Quit /\ ~(tgt' = tgt /\ wpc' = [wpc EXCEPT ![0] = "stamp"])
    <3>1. TargetStep(file[0]) /\ wpc' = wpc
      BY <1>7, <2>1, <2>4 DEF Simple!copy_file_data, Simple!CopyBlock, Simple!MoreToCopy,
         Simple!Size, TargetStep, CopyBlock, MoreToCopy, Size
    <3> QED
      BY <1>7, <1>a, <1>b, <2>1, <2>4, <3>1, TargetGoes
      DEF Simple!copy_file_data, Labels, WithFile
  <2> QED
    BY <2>2, <2>3, <2>4
<1>8. CASE Simple!copy_file_attributes
  <2>1. wpc[0] \in WithFile /\ file[0] \in DOMAIN tgt
    BY <1>8, <1>a, <1>b DEF Simple!copy_file_attributes, Opened, WithFile
  <2>2. CASE Simple!Quit
    <3>1. CASE tgt' = tgt
      BY <1>8, <1>d, <2>2, <3>1 DEF Simple!copy_file_attributes
    <3>2. CASE tgt' # tgt
      <4>1. TargetStep(file[0]) /\ file[0] \in Files /\ DOMAIN tgt' = DOMAIN tgt
        BY <1>8, <1>b, <2>1, <3>2
        DEF Simple!copy_file_attributes, Simple!Stamp, TargetStep, Stamp
      <4>2. TreeTypes'
        BY <1>8, <1>a, <4>1, TargetTypes DEF Simple!copy_file_attributes
      <4> QED
        BY <1>8, <1>a, <2>2, <4>1, <4>2, QuitTypes DEF Simple!copy_file_attributes
    <3> QED
      BY <3>1, <3>2
  <2>3. CASE ~Simple!Quit
    <3>1. TargetStep(file[0]) /\ wpc' = [wpc EXCEPT ![0] = "synced"]
      BY <1>8, <2>1, <2>3 DEF Simple!copy_file_attributes, Simple!Stamp, TargetStep, Stamp
    <3> QED
      BY <1>8, <1>a, <1>b, <2>1, <2>3, <3>1, TargetGoes
      DEF Simple!copy_file_attributes, Labels, WithFile
  <2> QED
    BY <2>2, <2>3
<1>9. CASE Simple!Synced
  <2>1. TreeTypes' /\ MainTypes' /\ Programs'
    BY <1>9, <1>a, <1>c, TreeStays, MainStays DEF Simple!Synced
  <2>2. WorkerTypes' /\ Opened'
    BY <1>9, <1>a, <1>b DEF Simple!Synced, WorkerTypes, Opened, Labels, WithFile
  <2> QED
    BY <2>1, <2>2 DEF SyncTypes
<1> QED
    BY <1>1, <1>2, <1>3, <1>4, <1>5, <1>6, <1>7, <1>8, <1>9
    DEF Simple!Step, Simple!sync_file

\* The types are kept by the runs, by their start and their end, and by the
\* world around them.
LEMMA SyncTypesStep == SyncTypes /\ [Next]_vars => SyncTypes'
<1> SUFFICES ASSUME SyncTypes, [Next]_vars PROVE SyncTypes'
    OBVIOUS
<1> USE DEF disk, main, workers, fault, history, world, given, mainVars
<1>a. TreeTypes /\ MainTypes /\ WorkerTypes /\ Opened /\ Programs /\ dirs \subseteq Dirs
    BY DEF SyncTypes, TreeTypes
<1>b. NoWorkers => /\ wpc' \in [Workers -> Labels] /\ file' \in [Workers -> Files \cup {NoFile}]
                   /\ part' \in [Workers -> Seq(Files)] /\ Opened'
                   /\ \A w \in Workers : wpc'[w] \notin WithFile
    BY DEF NoWorkers, Labels, WithFile, Opened
<1>1. ASSUME NEW p \in {"thread", "process", "simple"}, NEW options, Start(p, options)
      PROVE  SyncTypes'
  <2>1. TreeTypes'
    BY <1>1, <1>a, TreeStays DEF Start
  <2>2. list' \in Seq(Files) /\ index' \in 0..Len(list')
    BY <1>1, ListTypes DEF Start
  <2>3. count' \in Nat
    BY <1>1, ParameterFacts DEF Start
  <2>4. MainTypes' /\ Programs'
    BY <1>1, <2>2, <2>3 DEF Start, MainTypes, Programs
  <2>5. WorkerTypes' /\ Opened'
    BY <1>1, <1>b DEF Start, WorkerTypes
  <2> QED
    BY <2>1, <2>4, <2>5 DEF SyncTypes
<1>2. CASE Interrupt
  <2>1. TreeTypes'
    BY <1>2, <1>a, TreeStays DEF Interrupt
  <2>2. MainTypes' /\ Programs'
    BY <1>2, <1>a DEF Interrupt, MainTypes, Programs
  <2>3. WorkerTypes' /\ Opened'
    BY <1>2, <1>a, <1>b DEF Interrupt, WorkerTypes
  <2> QED
    BY <2>1, <2>2, <2>3 DEF SyncTypes
<1>3. CASE Tick
  <2>1. TreeTypes'
    BY <1>3, <1>a DEF Tick, TreeTypes
  <2> QED
    BY <1>3, <1>a, <2>1, MainStays, WorkerStays DEF Tick, SyncTypes
<1>4. ASSUME NEW f \in Files, Edit(f) PROVE SyncTypes'
  <2>1. PICK c \in Contents : src' = [src EXCEPT ![f] = [data |-> c, mtime |-> clock]]
    BY <1>4 DEF Edit
  <2>2. PICK new \in Copies : new = [data |-> c, mtime |-> clock]
    BY <1>a, CopyTypes DEF TreeTypes
  <2>3. TreeTypes'
    BY <1>4, <1>a, <2>1, <2>2 DEF Edit, TreeTypes
  <2> QED
    BY <1>4, <1>a, <2>3, MainStays, WorkerStays DEF Edit, SyncTypes
<1>5. CASE UNCHANGED vars
    BY <1>5, <1>a, TreeStays, MainStays, WorkerStays DEF vars, SyncTypes
<1> QED
    BY <1>1, <1>2, <1>3, <1>4, <1>5, ThreadTypes, ProcessTypes, SimpleTypes
    DEF Next, Step, StartThread, StartProcess, StartSimple

-----------------------------------------------------------------------------
(* Equal stamps mean equal contents. *)

\* The files that a worker writes to now.
Writing == {"copy", "stamp"}
Written(f) == \E w \in Workers : file[w] = f /\ wpc[w] \in Writing

\* What a step does to the copies: nothing, and no worker begins to write; or it
\* truncates one, adds a block to one or stamps one that a worker writes to.
CopyStep ==
    \/ /\ UNCHANGED tgt
       /\ \A f \in Files : Written(f)' => Written(f)
    \/ \E g \in Files :
          /\ \/ Truncate(g)
             \/ Written(g) /\ MoreToCopy(g) /\ CopyBlock(g)
             \/ Written(g) /\ Stamp(g)
          /\ \A f \in Files : f # g => (Written(f)' => Written(f))

\* A step of one worker on its own file leaves the others as they are.
LEMMA OthersWriting ==
    ASSUME WorkerTypes, WorkerTypes', NEW w \in Workers,
           \A v \in Workers : v # w => wpc'[v] = wpc[v] /\ file'[v] = file[v]
    PROVE  /\ \A f \in Files : f # file'[w] => (Written(f)' => Written(f))
           /\ wpc'[w] \notin Writing => \A f \in Files : Written(f)' => Written(f)
           /\ wpc[w] \in Writing /\ file'[w] = file[w] =>
                 \A f \in Files : Written(f)' => Written(f)
           /\ wpc[w] \in Writing => Written(file[w])
BY DEF Written

\* The threads write to the copies of their files.
LEMMA ThreadCopies == SyncTypes /\ SyncTypes' /\ prog = "thread" /\ Thread!Step => CopyStep
<1> SUFFICES ASSUME SyncTypes, SyncTypes', Thread!Step PROVE CopyStep
    OBVIOUS
<1> USE DEF Thread!Works, Thread!Goto, Thread!fault, Thread!disk, Thread!main, Thread!workers,
        Thread!history, Thread!world, Thread!given
<1>a. WorkerTypes /\ WorkerTypes' /\ Opened
    BY DEF SyncTypes
<1>b. ASSUME UNCHANGED <<tgt, wpc, file>> PROVE CopyStep
    BY <1>b DEF CopyStep, Written
<1>c. ASSUME NEW w \in Workers, UNCHANGED tgt, wpc'[w] \notin Writing \/ (wpc[w] \in Writing /\ file' = file),
             \A v \in Workers : v # w => wpc'[v] = wpc[v] /\ file'[v] = file[v]
      PROVE  CopyStep
    BY <1>a, <1>c, OthersWriting DEF CopyStep
<1>d. ASSUME NEW w \in Workers, file' = file, file[w] \in Files, NEW g, g = file[w],
             \/ Truncate(g)
             \/ wpc[w] \in Writing /\ MoreToCopy(g) /\ CopyBlock(g)
             \/ wpc[w] \in Writing /\ Stamp(g),
             \A v \in Workers : v # w => wpc'[v] = wpc[v]
      PROVE  CopyStep
  <2>1. wpc[w] \in Writing => Written(g)
    BY <1>d DEF Written
  <2>2. \A f \in Files : f # g => (Written(f)' => Written(f))
    BY <1>a, <1>d, OthersWriting
  <2>3. \E h \in Files :
           /\ \/ Truncate(h)
              \/ Written(h) /\ MoreToCopy(h) /\ CopyBlock(h)
              \/ Written(h) /\ Stamp(h)
           /\ \A f \in Files : f # h => (Written(f)' => Written(f))
    BY <1>d, <2>1, <2>2
  <2> QED
    BY <2>3 DEF CopyStep
<1>e. \A w \in Workers : \A label : wpc' = [wpc EXCEPT ![w] = label] =>
         wpc'[w] = label /\ \A v \in Workers : v # w => wpc'[v] = wpc[v]
    BY <1>a DEF WorkerTypes
<1>f. \A w \in Workers : \A f : file' = [file EXCEPT ![w] = f] =>
         file'[w] = f /\ \A v \in Workers : v # w => file'[v] = file[v]
    BY <1>a DEF WorkerTypes
<1>i. ASSUME NEW w \in Workers, NEW label \in Labels, label \notin Writing, NEW f,
             wpc' = [wpc EXCEPT ![w] = label], file' = file \/ file' = [file EXCEPT ![w] = f],
             UNCHANGED tgt
      PROVE  CopyStep
  <2>1. wpc'[w] = label /\ \A v \in Workers : v # w => wpc'[v] = wpc[v]
    BY <1>e, <1>i
  <2>2. \A v \in Workers : v # w => file'[v] = file[v]
    BY <1>f, <1>i
  <2> QED
    BY <1>c, <1>i, <2>1, <2>2
<1>g. \A w \in Workers : wpc[w] \in WithFile => file[w] \in Files
    BY <1>a DEF WorkerTypes
<1>1. CASE Thread!CheckDirectories \/ Thread!sync_directory_structure \/ Thread!traverse_directory
           \/ Thread!JoinThreads
    BY <1>1, <1>b
    DEF Thread!CheckDirectories, Thread!sync_directory_structure, Thread!traverse_directory,
        Thread!JoinThreads
<1>2. CASE Thread!CreateThread
  <2>1. started \in Workers
    <3>1. started \in 0..(count - 1) /\ count \in Counts[prog]
      BY <1>2, ParameterFacts, SMTT(30) DEF Thread!CreateThread, SyncTypes, MainTypes
    <3> QED
      BY <3>1, ParameterFacts DEF SyncTypes, MainTypes
  <2> QED
    BY <1>2, <1>b, <1>i, <2>1 DEF Thread!CreateThread, Labels, Writing
<1>3. CASE Thread!ExitProcess
  <2>1. \A w \in Workers : wpc'[w] \notin Writing
    BY <1>3 DEF Thread!ExitProcess, Writing, Workers, Thread!Workers
  <2> QED
    BY <1>3, <2>1 DEF Thread!ExitProcess, CopyStep, Written
<1>4. ASSUME NEW w \in Workers, Thread!worker_thread(w) PROVE CopyStep
  <2>1. CASE Thread!get_next_file(w)
    <3>1. PICK label \in {"compare", "done"} :
             /\ wpc' = [wpc EXCEPT ![w] = label] /\ UNCHANGED tgt
             /\ \/ file' = file
                \/ file' = [file EXCEPT ![w] = list[index + 1]]
      BY <2>1 DEF Thread!get_next_file
    <3>2. PICK f : f = list[index + 1]
      OBVIOUS
    <3> QED
      BY <3>1, <3>2, <1>i DEF Labels, Writing
  <2>2. CASE Thread!Compare(w)
    <3>1. PICK label \in {"synced", "open", "mkdir"} : wpc' = [wpc EXCEPT ![w] = label]
      BY <2>2 DEF Thread!Compare
    <3> QED
      BY <2>2, <3>1, <1>c, <1>e DEF Thread!Compare, Writing
  <2>3. CASE Thread!create_directory(w)
    <3>1. PICK label \in {"open", "error"} :
             wpc' = [wpc EXCEPT ![w] = label] /\ UNCHANGED <<tgt, file>>
      BY <2>3 DEF Thread!create_directory
    <3> QED
      BY <3>1, <1>i DEF Labels, Writing
  <2>4. CASE Thread!OpenFiles(w)
    <3>1. CASE tgt' = tgt /\ wpc' = [wpc EXCEPT ![w] = "error"]
      BY <2>4, <3>1, <1>i DEF Thread!OpenFiles, Labels, Writing
    <3>2. CASE ~(tgt' = tgt /\ wpc' = [wpc EXCEPT ![w] = "error"])
      <4>1. /\ Truncate(file[w]) /\ file' = file /\ file[w] \in Files
            /\ wpc' = [wpc EXCEPT ![w] = "copy"]
        BY <2>4, <3>2, <1>g DEF Thread!OpenFiles, Thread!Truncate, Truncate, WithFile
      <4> QED
        BY <4>1, <1>d, <1>e
    <3> QED
      BY <3>1, <3>2
  <2>5. CASE Thread!CopyLoop(w)
    BY <2>5, <1>c, <1>d, <1>e, <1>g
    DEF Thread!CopyLoop, Thread!CopyBlock, Thread!MoreToCopy, Thread!Size, CopyBlock,
        MoreToCopy, Size, Writing, WithFile
  <2>6. CASE Thread!StampFile(w)
    BY <2>6, <1>c, <1>d, <1>e, <1>g
    DEF Thread!StampFile, Thread!Stamp, Stamp, Writing, WithFile
  <2>7. CASE Thread!CountFile(w)
    BY <2>7, <1>c, <1>e, <1>f DEF Thread!CountFile, Writing
  <2>8. CASE Thread!LostPath(w)
    <3>1. PICK label \in {"synced", "error"} : wpc' = [wpc EXCEPT ![w] = label]
      BY <2>8 DEF Thread!LostPath
    <3> QED
      BY <2>8, <3>1, <1>c, <1>e DEF Thread!LostPath, Writing
  <2> QED
    BY <1>4, <2>1, <2>2, <2>3, <2>4, <2>5, <2>6, <2>7, <2>8 DEF Thread!worker_thread
<1> QED
    BY <1>1, <1>2, <1>3, <1>4 DEF Thread!Step, Thread!perform_sync, Workers, Thread!Workers

\* So do the children.
LEMMA ProcessCopies == SyncTypes /\ SyncTypes' /\ prog = "process" /\ Process!Step => CopyStep
<1> SUFFICES ASSUME SyncTypes, SyncTypes', Process!Step PROVE CopyStep
    OBVIOUS
<1> USE DEF Process!Works, Process!Goto, Process!fault, Process!disk, Process!main, Process!workers,
        Process!history, Process!world, Process!given
<1>a. WorkerTypes /\ WorkerTypes' /\ Opened
    BY DEF SyncTypes
<1>b. ASSUME UNCHANGED <<tgt, wpc, file>> PROVE CopyStep
    BY <1>b DEF CopyStep, Written
<1>c. ASSUME NEW w \in Workers, UNCHANGED tgt, wpc'[w] \notin Writing \/ (wpc[w] \in Writing /\ file' = file),
             \A v \in Workers : v # w => wpc'[v] = wpc[v] /\ file'[v] = file[v]
      PROVE  CopyStep
    BY <1>a, <1>c, OthersWriting DEF CopyStep
<1>d. ASSUME NEW w \in Workers, file' = file, file[w] \in Files, NEW g, g = file[w],
             \/ Truncate(g)
             \/ wpc[w] \in Writing /\ MoreToCopy(g) /\ CopyBlock(g)
             \/ wpc[w] \in Writing /\ Stamp(g),
             \A v \in Workers : v # w => wpc'[v] = wpc[v]
      PROVE  CopyStep
  <2>1. wpc[w] \in Writing => Written(g)
    BY <1>d DEF Written
  <2>2. \A f \in Files : f # g => (Written(f)' => Written(f))
    BY <1>a, <1>d, OthersWriting
  <2>3. \E h \in Files :
           /\ \/ Truncate(h)
              \/ Written(h) /\ MoreToCopy(h) /\ CopyBlock(h)
              \/ Written(h) /\ Stamp(h)
           /\ \A f \in Files : f # h => (Written(f)' => Written(f))
    BY <1>d, <2>1, <2>2
  <2> QED
    BY <2>3 DEF CopyStep
<1>e. \A w \in Workers : \A label : wpc' = [wpc EXCEPT ![w] = label] =>
         wpc'[w] = label /\ \A v \in Workers : v # w => wpc'[v] = wpc[v]
    BY <1>a DEF WorkerTypes
<1>f. \A w \in Workers : \A f : file' = [file EXCEPT ![w] = f] =>
         file'[w] = f /\ \A v \in Workers : v # w => file'[v] = file[v]
    BY <1>a DEF WorkerTypes
<1>i. ASSUME NEW w \in Workers, NEW label \in Labels, label \notin Writing, NEW f,
             wpc' = [wpc EXCEPT ![w] = label], file' = file \/ file' = [file EXCEPT ![w] = f],
             UNCHANGED tgt
      PROVE  CopyStep
  <2>1. wpc'[w] = label /\ \A v \in Workers : v # w => wpc'[v] = wpc[v]
    BY <1>e, <1>i
  <2>2. \A v \in Workers : v # w => file'[v] = file[v]
    BY <1>f, <1>i
  <2> QED
    BY <1>c, <1>i, <2>1, <2>2
<1>g. \A w \in Workers : wpc[w] \in WithFile => file[w] \in Files
    BY <1>a DEF WorkerTypes
<1>1. CASE Process!CheckDirectories \/ Process!sync_directory_structure \/ Process!traverse_directory
           \/ Process!WaitChildren
    BY <1>1, <1>b
    DEF Process!CheckDirectories, Process!sync_directory_structure, Process!traverse_directory,
        Process!WaitChildren
<1>2. CASE Process!ForkChild
  <2>1. started \in Workers
    <3>1. started \in 0..(count - 1) /\ count \in Counts[prog]
      BY <1>2, ParameterFacts DEF Process!ForkChild, SyncTypes, MainTypes
    <3> QED
      BY <3>1, ParameterFacts DEF SyncTypes, MainTypes
  <2> QED
    BY <1>2, <1>b, <1>i, <2>1 DEF Process!ForkChild, Labels, Writing
<1>3. ASSUME NEW w \in Workers, Process!ChildDies(w) PROVE CopyStep
    BY <1>3, <1>i DEF Process!ChildDies, Labels, Writing
<1>4. ASSUME NEW w \in Workers, Process!worker_process(w) PROVE CopyStep
  <2>1. CASE Process!NextFile(w)
    <3>1. PICK label, f :
             /\ label \in {"compare", "done"}
             /\ wpc' = [wpc EXCEPT ![w] = label] /\ UNCHANGED tgt
             /\ file' = [file EXCEPT ![w] = f]
      BY <2>1, SMTT(30) DEF Process!NextFile
    <3> QED
      BY <3>1, <1>i DEF Labels, Writing
  <2>2. CASE Process!Compare(w)
    <3>1. PICK label \in {"synced", "open", "mkdir"} : wpc' = [wpc EXCEPT ![w] = label]
      BY <2>2 DEF Process!Compare
    <3> QED
      BY <2>2, <3>1, <1>c, <1>e DEF Process!Compare, Writing
  <2>3. CASE Process!create_directory(w)
    <3>1. PICK label \in {"open", "error"} :
             wpc' = [wpc EXCEPT ![w] = label] /\ UNCHANGED <<tgt, file>>
      BY <2>3 DEF Process!create_directory
    <3> QED
      BY <3>1, <1>i DEF Labels, Writing
  <2>4. CASE Process!OpenFiles(w)
    <3>1. CASE tgt' = tgt /\ wpc' = [wpc EXCEPT ![w] = "error"]
      BY <2>4, <3>1, <1>i DEF Process!OpenFiles, Labels, Writing
    <3>2. CASE ~(tgt' = tgt /\ wpc' = [wpc EXCEPT ![w] = "error"])
      <4>1. /\ Truncate(file[w]) /\ file' = file /\ file[w] \in Files
            /\ wpc' = [wpc EXCEPT ![w] = "copy"]
        BY <2>4, <3>2, <1>g DEF Process!OpenFiles, Process!Truncate, Truncate, WithFile
      <4> QED
        BY <4>1, <1>d, <1>e
    <3> QED
      BY <3>1, <3>2
  <2>5. CASE Process!CopyLoop(w)
    BY <2>5, <1>c, <1>d, <1>e, <1>g
    DEF Process!CopyLoop, Process!CopyBlock, Process!MoreToCopy, Process!Size, CopyBlock,
        MoreToCopy, Size, Writing, WithFile
  <2> QED
    BY <1>4, <2>1, <2>2, <2>3, <2>4, <2>5 DEF Process!worker_process
<1> QED
    BY <1>1, <1>2, <1>3, <1>4 DEF Process!Step, Process!perform_sync, Workers, Process!Workers

\* So does the walk.
LEMMA SimpleCopies == SyncTypes /\ SyncTypes' /\ prog = "simple" /\ Simple!Step => CopyStep
<1> SUFFICES ASSUME SyncTypes, SyncTypes', Simple!Step PROVE CopyStep
    OBVIOUS
<1> USE DEF Simple!Works, Simple!Goto, Simple!fault, Simple!disk, Simple!main, Simple!workers,
        Simple!history, Simple!world, Simple!given
<1>a. WorkerTypes /\ WorkerTypes' /\ Opened
    BY DEF SyncTypes
<1>b. ASSUME UNCHANGED <<tgt, wpc, file>> PROVE CopyStep
    BY <1>b DEF CopyStep, Written
<1>c. ASSUME NEW w \in Workers, UNCHANGED tgt, wpc'[w] \notin Writing \/ (wpc[w] \in Writing /\ file' = file),
             \A v \in Workers : v # w => wpc'[v] = wpc[v] /\ file'[v] = file[v]
      PROVE  CopyStep
    BY <1>a, <1>c, OthersWriting DEF CopyStep
<1>d. ASSUME NEW w \in Workers, file' = file, file[w] \in Files, NEW g, g = file[w],
             \/ Truncate(g)
             \/ wpc[w] \in Writing /\ MoreToCopy(g) /\ CopyBlock(g)
             \/ wpc[w] \in Writing /\ Stamp(g),
             \A v \in Workers : v # w => wpc'[v] = wpc[v]
      PROVE  CopyStep
  <2>1. wpc[w] \in Writing => Written(g)
    BY <1>d DEF Written
  <2>2. \A f \in Files : f # g => (Written(f)' => Written(f))
    BY <1>a, <1>d, OthersWriting
  <2>3. \E h \in Files :
           /\ \/ Truncate(h)
              \/ Written(h) /\ MoreToCopy(h) /\ CopyBlock(h)
              \/ Written(h) /\ Stamp(h)
           /\ \A f \in Files : f # h => (Written(f)' => Written(f))
    BY <1>d, <2>1, <2>2
  <2> QED
    BY <2>3 DEF CopyStep
<1>e. \A w \in Workers : \A label : wpc' = [wpc EXCEPT ![w] = label] =>
         wpc'[w] = label /\ \A v \in Workers : v # w => wpc'[v] = wpc[v]
    BY <1>a DEF WorkerTypes
<1>f. \A w \in Workers : \A f : file' = [file EXCEPT ![w] = f] =>
         file'[w] = f /\ \A v \in Workers : v # w => file'[v] = file[v]
    BY <1>a DEF WorkerTypes
<1>i. ASSUME NEW w \in Workers, NEW label \in Labels, label \notin Writing, NEW f,
             wpc' = [wpc EXCEPT ![w] = label], file' = file \/ file' = [file EXCEPT ![w] = f],
             UNCHANGED tgt
      PROVE  CopyStep
  <2>1. wpc'[w] = label /\ \A v \in Workers : v # w => wpc'[v] = wpc[v]
    BY <1>e, <1>i
  <2>2. \A v \in Workers : v # w => file'[v] = file[v]
    BY <1>f, <1>i
  <2> QED
    BY <1>c, <1>i, <2>1, <2>2
<1>g. \A w \in Workers : wpc[w] \in WithFile => file[w] \in Files
    BY <1>a DEF WorkerTypes
<1>h. 0 \in Workers
    BY ParameterFacts
<1> USE DEF Simple!Me, Simple!Going
<1>q. ASSUME Simple!Quit PROVE wpc'[0] = "done" /\ \A v \in Workers : v # 0 => wpc'[v] = wpc[v] /\ file'[v] = file[v]
    BY <1>q, <1>e, <1>f, <1>h, ZenonT(30) DEF Simple!Quit
<1>1. CASE Simple!Open
  <2>1. CASE Simple!Quit
    BY <1>1, <2>1, <1>c, <1>h, <1>q DEF Simple!Open, Writing
  <2>2. CASE ~Simple!Quit
    BY <1>1, <2>2, <1>i, <1>h DEF Simple!Open, Labels, Writing
  <2> QED
    BY <2>1, <2>2
<1>2. CASE Simple!Entry
  <2>1. CASE Simple!Quit
    BY <1>2, <2>1, <1>c, <1>h, <1>q DEF Simple!Entry, Writing
  <2>2. CASE ~Simple!Quit
    BY <1>2, <2>2, <1>b, <1>i, <1>h DEF Simple!Entry, Labels, Writing
  <2> QED
    BY <2>1, <2>2
<1>3. CASE Simple!EndOfWalk
    BY <1>3, <1>c, <1>e, <1>h DEF Simple!EndOfWalk, Writing
<1>4. CASE Simple!Compare
  <2>1. Simple!Quit \/ (file' = file /\ \E label \in {"synced", "mkdir"} : wpc' = [wpc EXCEPT ![0] = label])
    BY <1>4 DEF Simple!Compare
  <2> QED
    BY <1>4, <2>1, <1>c, <1>e, <1>h, <1>q DEF Simple!Compare, Writing
<1>5. CASE Simple!create_directory_recursive
  <2>1. CASE Simple!Quit
    <3>1. UNCHANGED tgt
      BY <1>5 DEF Simple!create_directory_recursive
    <3>2. wpc'[0] \notin Writing /\ \A v \in Workers : v # 0 => wpc'[v] = wpc[v] /\ file'[v] = file[v]
      BY <2>1, <1>q DEF Writing
    <3> QED
      BY <3>1, <3>2, <1>c, <1>h
  <2>2. CASE ~Simple!Quit
    BY <1>5, <2>2, <1>i, <1>h DEF Simple!create_directory_recursive, Labels, Writing
  <2> QED
    BY <2>1, <2>2
<1>6. CASE Simple!OpenFiles
  <2>1. CASE Simple!Fails("open")
    BY <1>6, <2>1, <1>c, <1>h, <1>q DEF Simple!OpenFiles, Simple!Fails, Writing
  <2>2. CASE ~Simple!Fails("open")
    <3>1. /\ Truncate(file[0]) /\ file' = file /\ file[0] \in Files
          /\ wpc' = [wpc EXCEPT ![0] = "copy"]
      BY <1>6, <2>2, <1>g, <1>h DEF Simple!OpenFiles, Simple!Truncate, Truncate, WithFile
    <3> QED
      BY <3>1, <1>d, <1>e, <1>h
  <2> QED
    BY <2>1, <2>2
<1>7. CASE Simple!copy_file_data
    BY <1>7, <1>c, <1>d, <1>e, <1>g, <1>h, <1>q
    DEF Simple!copy_file_data, Simple!CopyBlock, Simple!MoreToCopy, Simple!Size, CopyBlock,
        MoreToCopy, Size, Writing, WithFile
<1>8. CASE Simple!copy_file_attributes
  <2>1. CASE Simple!Quit /\ tgt' # tgt
    <3>1. PICK g \in Files : g = file[0] /\ Stamp(g) /\ Written(g)
      BY <1>8, <2>1, <1>g, <1>h DEF Simple!copy_file_attributes, Simple!Stamp, Stamp,
         Written, Writing, WithFile
    <3>2. \A f \in Files : Written(f)' => Written(f)
      BY <2>1, <1>a, <1>h, <1>q, OthersWriting DEF Writing
    <3> QED
      BY <3>1, <3>2 DEF CopyStep
  <2>2. CASE ~(Simple!Quit /\ tgt' # tgt)
    BY <1>8, <2>2, <1>c, <1>d, <1>e, <1>g, <1>h, <1>q
    DEF Simple!copy_file_attributes, Simple!Stamp, Stamp, Writing, WithFile
  <2> QED
    BY <2>1, <2>2
<1>9. CASE Simple!Synced
    BY <1>9, <1>c, <1>e, <1>f, <1>h DEF Simple!Synced, Writing
<1> QED
    BY <1>1, <1>2, <1>3, <1>4, <1>5, <1>6, <1>7, <1>8, <1>9
    DEF Simple!Step, Simple!sync_file

\* The programs do not touch the source, and do not see who edited it.
LEMMA ProgramsOnlyRead == Step => UNCHANGED <<clock, src, blurred, edits, quiet>>
<1>1. Thread!Step => UNCHANGED <<clock, src, blurred, edits, quiet>>
    BY DEF Thread!Step, Thread!perform_sync, Thread!worker_thread, Thread!CheckDirectories,
       Thread!sync_directory_structure, Thread!traverse_directory, Thread!CreateThread,
       Thread!JoinThreads, Thread!ExitProcess, Thread!get_next_file, Thread!Compare,
       Thread!create_directory, Thread!OpenFiles, Thread!CopyLoop, Thread!StampFile,
       Thread!CountFile, Thread!LostPath, Thread!world
<1>2. Process!Step => UNCHANGED <<clock, src, blurred, edits, quiet>>
    BY DEF Process!Step, Process!perform_sync, Process!worker_process, Process!CheckDirectories,
       Process!sync_directory_structure, Process!traverse_directory, Process!ForkChild,
       Process!WaitChildren, Process!NextFile, Process!Compare, Process!create_directory,
       Process!OpenFiles, Process!CopyLoop, Process!ChildDies, Process!world
<1>3. Simple!Step => UNCHANGED <<clock, src, blurred, edits, quiet>>
    BY DEF Simple!Step, Simple!sync_file, Simple!Open, Simple!Entry, Simple!EndOfWalk,
       Simple!Compare, Simple!create_directory_recursive, Simple!OpenFiles,
       Simple!copy_file_data, Simple!copy_file_attributes, Simple!Synced, Simple!world
<1> QED
    BY <1>1, <1>2, <1>3 DEF Step

\* A copy that is being written holds the first blocks of its file, unless the
\* file was edited since the run began.
Prefix(s, t) == Len(s) <= Len(t) /\ \A i \in 1..Len(s) : s[i] = t[i]

Excused(f) == f \in blurred /\ ~quiet

Partial ==
    \A f \in Files : Written(f) =>
        Excused(f) \/ (f \in DOMAIN tgt /\ Prefix(tgt[f].data, src[f].data))

CopyInv == SyncTypes /\ Partial /\ StampMeansCopied

\* The empty sequence is a prefix, the next block makes a longer one, and a
\* prefix of the same length is the whole.
LEMMA PrefixFacts ==
    ASSUME NEW s \in Seq(Blocks), NEW t \in Seq(Blocks)
    PROVE  /\ Prefix(<<>>, t)
           /\ Prefix(s, t) /\ Len(s) < Len(t) => Prefix(Append(s, t[Len(s) + 1]), t)
           /\ Prefix(s, t) /\ Len(s) = Len(t) => s = t
<1>1. Prefix(<<>>, t)
    BY EmptySeq DEF Prefix
<1>2. ASSUME Prefix(s, t), Len(s) < Len(t) PROVE Prefix(Append(s, t[Len(s) + 1]), t)
  <2>1. t[Len(s) + 1] \in Blocks
    BY <1>2
  <2>2. /\ Len(Append(s, t[Len(s) + 1])) = Len(s) + 1
        /\ \A i \in 1..Len(s) : Append(s, t[Len(s) + 1])[i] = s[i]
        /\ Append(s, t[Len(s) + 1])[Len(s) + 1] = t[Len(s) + 1]
    BY <2>1
  <2> QED
    BY <1>2, <2>2 DEF Prefix
<1>3. ASSUME Prefix(s, t), Len(s) = Len(t) PROVE s = t
    BY <1>3, SeqEqual DEF Prefix
<1> QED
    BY <1>1, <1>2, <1>3

\* One file's share of the invariant, in terms of its two copies.
Agree(copy, original) ==
    Len(copy.data) = Len(original.data) /\ copy.mtime = original.mtime
      => copy.data = original.data

\* StampMeansCopied, by pairs of a copy and its original.
LEMMA StampMeansAgree ==
    TreeTypes => (StampMeansCopied <=> \A f \in DOMAIN tgt \ blurred : Agree(tgt[f], src[f]))
BY DEF TreeTypes, StampMeansCopied, Agree, SameSize, SameTime, SameData, Exists, Size

\* What the workers do to the copies keeps the stamps true.
LEMMA CopyStepKeeps ==
    ASSUME TreeTypes, TreeTypes', Opened, Partial, StampMeansCopied, CopyStep,
           UNCHANGED <<src, blurred, quiet>>
    PROVE  Partial' /\ StampMeansCopied'
<1>e. \A f : Excused(f)' <=> Excused(f)
    BY DEF Excused
<1>a. \A f \in DOMAIN tgt \ blurred : Agree(tgt[f], src[f])
    BY StampMeansAgree
<1>b. SUFFICES Partial' /\ \A f \in DOMAIN tgt' \ blurred : Agree(tgt'[f], src[f])
    BY DEF StampMeansCopied, Agree, SameSize, SameTime, SameData, Exists, Size, TreeTypes
<1>c. \A f \in Files : src[f] \in Copies /\ src[f].data \in Seq(Blocks)
    BY CopyTypes DEF TreeTypes
<1>d. \A f \in DOMAIN tgt : tgt[f] \in Copies /\ tgt[f].data \in Seq(Blocks) /\ f \in Files
    BY CopyTypes DEF TreeTypes
<1>1. CASE UNCHANGED tgt /\ \A f \in Files : Written(f)' => Written(f)
    BY <1>1, <1>a, <1>e DEF Partial
<1>2. ASSUME NEW g \in Files, \A f \in Files : f # g => (Written(f)' => Written(f)),
             DOMAIN tgt' = DOMAIN tgt \cup {g},
             \A f \in DOMAIN tgt : f # g => tgt'[f] = tgt[f],
             ~Excused(g) => Prefix(tgt'[g].data, src[g].data)
      PROVE  Partial' /\ \A f \in DOMAIN tgt' \ blurred : Agree(tgt'[f], src[f])
  <2>1. Partial'
    <3> SUFFICES ASSUME NEW f \in Files, Written(f)', ~Excused(f)
                 PROVE  f \in DOMAIN tgt' /\ Prefix(tgt'[f].data, src[f].data)
        BY <1>e DEF Partial
    <3>1. CASE f = g
      BY <1>2, <3>1
    <3>2. CASE f # g
      BY <1>2, <3>2 DEF Partial
    <3> QED
      BY <3>1, <3>2
  <2>2. tgt'[g] \in Copies
    BY <1>2 DEF TreeTypes
  <2>3. g \notin blurred => Agree(tgt'[g], src[g])
    BY <1>2, <1>c, <2>2, CopyTypes, PrefixFacts DEF Agree, Excused
  <2> QED
    BY <1>2, <1>a, <2>1, <2>3
<1>3. ASSUME NEW g \in Files, \A f \in Files : f # g => (Written(f)' => Written(f)),
             \/ Truncate(g)
             \/ Written(g) /\ MoreToCopy(g) /\ CopyBlock(g)
             \/ Written(g) /\ Stamp(g)
      PROVE  Partial' /\ \A f \in DOMAIN tgt' \ blurred : Agree(tgt'[f], src[f])
  <2>1. CASE Truncate(g)
    <3>1. /\ DOMAIN tgt' = DOMAIN tgt \cup {g} /\ tgt'[g].data = <<>>
          /\ \A f \in DOMAIN tgt : f # g => tgt'[f] = tgt[f]
      BY <2>1 DEF Truncate
    <3> QED
      BY <1>2, <1>3, <1>c, <3>1, PrefixFacts
  <2>2. CASE Written(g) /\ ~Truncate(g)
    <3>1. g \in DOMAIN tgt /\ (~Excused(g) => Prefix(tgt[g].data, src[g].data))
      BY <2>2 DEF Partial, Opened, Written, Writing
    <3>2. PICK copy : /\ tgt' = [tgt EXCEPT ![g] = copy]
                      /\ \/ copy.data = tgt[g].data
                         \/ /\ Len(tgt[g].data) < Len(src[g].data)
                            /\ copy.data = Append(tgt[g].data, src[g].data[Len(tgt[g].data) + 1])
      <4>1. CASE CopyBlock(g) /\ MoreToCopy(g)
        <5>1. PICK next : next = Append(tgt[g].data, src[g].data[Len(tgt[g].data) + 1])
          OBVIOUS
        <5>2. PICK copy : copy = [data |-> next, mtime |-> clock]
          OBVIOUS
        <5>3. tgt' = [tgt EXCEPT ![g] = copy] /\ copy.data = next
          BY <4>1, <5>1, <5>2 DEF CopyBlock
        <5>4. Len(tgt[g].data) < Len(src[g].data)
          BY <4>1 DEF MoreToCopy, Size
        <5> QED
          BY <5>1, <5>3, <5>4
      <4>2. CASE Stamp(g)
        <5>1. [tgt[g] EXCEPT !.mtime = src[g].mtime].data = tgt[g].data
          BY <1>d, <3>1 DEF Copies
        <5> QED
          BY <4>2, <5>1 DEF Stamp
      <4> QED
        BY <1>3, <2>2, <4>1, <4>2
    <3>3. ~Excused(g) => Prefix(copy.data, src[g].data)
      <4>1. PICK s \in Seq(Blocks), t \in Seq(Blocks) : s = tgt[g].data /\ t = src[g].data
        BY <1>c, <1>d, <3>1
      <4>2. \/ copy.data = s
            \/ Len(s) < Len(t) /\ copy.data = Append(s, t[Len(s) + 1])
        BY <3>2, <4>1
      <4>3. SUFFICES ASSUME Prefix(s, t) PROVE Prefix(copy.data, t)
        BY <3>1, <4>1
      <4>4. Len(s) < Len(t) => Prefix(Append(s, t[Len(s) + 1]), t)
        BY <4>1, <4>3, PrefixFacts
      <4>5. CASE copy.data = s
        BY <4>3, <4>5
      <4> QED
        BY <4>2, <4>4, <4>5
    <3>4. tgt'[g] = copy /\ DOMAIN tgt' = DOMAIN tgt \cup {g}
          /\ \A f \in DOMAIN tgt : f # g => tgt'[f] = tgt[f]
      BY <3>1, <3>2
    <3> QED
      BY <1>2, <1>3, <3>3, <3>4
  <2> QED
    BY <1>3, <2>1, <2>2
<1> QED
    BY <1>1, <1>3 DEF CopyStep

\* There are no copies before the first run.
LEMMA CopyInvInit == Init => CopyInv
<1> SUFFICES ASSUME Init PROVE CopyInv
    OBVIOUS
<1>1. SyncTypes
    BY SyncTypesInit
<1>2. DOMAIN tgt = {}
    BY DEF Init, FilesInit
<1>3. Partial /\ StampMeansCopied
    BY <1>2 DEF Partial, StampMeansCopied, Written, Writing, Init
<1> QED
    BY <1>1, <1>3 DEF CopyInv

\* Programs keep the stamps true by the way they write; an edit that is not
\* blurred gives its file a modification time that no copy of it has, and no
\* worker has the file open.
LEMMA CopyInvStep == CopyInv /\ [Next]_vars => CopyInv'
<1> SUFFICES ASSUME CopyInv, [Next]_vars PROVE CopyInv'
    OBVIOUS
<1>1. SyncTypes /\ SyncTypes' /\ Partial /\ StampMeansCopied
    BY SyncTypesStep DEF CopyInv
<1>2. TreeTypes /\ TreeTypes' /\ Opened
    BY <1>1 DEF SyncTypes
<1>3. CASE Step
  <2>1. CopyStep
    BY <1>1, <1>3, ThreadCopies, ProcessCopies, SimpleCopies DEF Step
  <2>2. UNCHANGED <<src, blurred, quiet>>
    BY <1>3, ProgramsOnlyRead
  <2> QED
    BY <1>1, <1>2, <2>1, <2>2, CopyStepKeeps DEF CopyInv
<1>4. CASE NoWorkers /\ UNCHANGED <<tgt, src, blurred>>
  <2>1. \A f \in Files : ~Written(f)'
    BY <1>4 DEF NoWorkers, Written, Writing
  <2> QED
    BY <1>1, <1>4, <2>1
    DEF CopyInv, Partial, StampMeansCopied, SameSize, SameTime, SameData, Exists, Size
<1>5. CASE UNCHANGED <<tgt, src, blurred, quiet, wpc, file>>
    BY <1>1, <1>5 DEF CopyInv, Partial, Excused, Written, Writing, StampMeansCopied, SameSize, SameTime,
                      SameData, Exists, Size
<1>6. ASSUME NEW f \in Files, Edit(f) PROVE CopyInv'
  <2>1. PICK c \in Contents : src' = [src EXCEPT ![f] = [data |-> c, mtime |-> clock]]
    BY <1>6 DEF Edit
  <2>2. UNCHANGED <<tgt, wpc, file>> /\ DOMAIN src = Files
    BY <1>2, <1>6 DEF Edit, disk, workers, TreeTypes
  <2>3. src'[f].mtime = clock /\ \A g \in Files : g # f => src'[g] = src[g]
    BY <2>1, <2>2
  <2>4. ~quiet' /\ \A g \in Files : g # f => (g \in blurred' <=> g \in blurred)
    BY <1>6 DEF Edit
  <2>5. f \notin blurred' => ~Written(f) /\ (f \in DOMAIN tgt => tgt[f].mtime # clock)
    BY <1>6 DEF Edit, Written, Writing, Exists
  <2>6. \A g \in Files : Written(g)' <=> Written(g)
    BY <2>2 DEF Written, Writing
  <2>7. Partial'
    BY <1>1, <2>2, <2>3, <2>4, <2>5, <2>6 DEF Partial, Excused
  <2>8. \A g \in DOMAIN tgt : g \in Files
    BY <1>2 DEF TreeTypes
  <2>9. ASSUME NEW g \in DOMAIN tgt \ blurred', SameSize(g)', SameTime(g)' PROVE SameData(g)'
    <3>1. tgt[g].mtime = src'[g].mtime
      BY <2>2, <2>9 DEF SameTime
    <3>2. g # f /\ g \in Files
      BY <2>3, <2>5, <2>8, <2>9, <3>1
    <3>3. src'[g] = src[g] /\ g \notin blurred
      BY <2>3, <2>4, <2>9, <3>2
    <3> QED
      BY <1>1, <2>2, <2>9, <3>3
      DEF StampMeansCopied, SameSize, SameTime, SameData, Exists, Size
  <2> QED
    BY <1>1, <2>2, <2>7, <2>9 DEF CopyInv, StampMeansCopied
<1>7. CASE StartThread \/ StartProcess \/ StartSimple \/ Interrupt
    BY <1>4, <1>7 DEF StartThread, StartProcess, StartSimple, Start, Interrupt, disk, world
<1>8. CASE Tick \/ UNCHANGED vars
    BY <1>5, <1>8 DEF Tick, vars, disk, world, workers
<1> QED
    BY <1>3, <1>6, <1>7, <1>8 DEF Next

\* The stamps are inductive together with the types and the copies in progress.
THEOREM CopyInvariance == Spec => []CopyInv
BY CopyInvInit, CopyInvStep, PTL DEF Spec

\* StampMeansCopied for every set of files, contents, workers and faults:
\* compare_files and files_are_identical skip a file by size and time, and that
\* is sound whatever earlier runs, killed or failing, left in the target.
THEOREM StampsAreTrue == Spec => []StampMeansCopied
<1>1. CopyInv => StampMeansCopied
    BY DEF CopyInv
<1> QED
    BY <1>1, CopyInvariance, PTL

-----------------------------------------------------------------------------
\* A run in trouble: it failed, or it will, or one of its files did.
Trouble ==
    \/ result = "failed" \/ mpc = "exiting"
    \/ failed # {} \/ errors > 0 \/ \E w \in Workers : wpc[w] = "error"

\* A call has failed that a program does not make up for.
Cause == faults \ {"structure", "utimes", "read"} # {}

TroubleHasACause == Trouble => Cause

BlameInv == SyncTypes /\ TroubleHasACause

\* Failures are never forgotten within a run, and those that count are causes.
SomeFault(kind) == Fails(kind) \/ Thread!Fails(kind) \/ Process!Fails(kind) \/ Simple!Fails(kind)
NoFault == Works \/ Thread!Works \/ Process!Works \/ Simple!Works

\* A call that fails is a cause for a failure that is reported.
LEMMA FaultFacts ==
    /\ NoFault => (Cause' <=> Cause)
    /\ \A kind : SomeFault(kind) => (Cause => Cause')
    /\ \A kind \in {"source", "mkdir", "opendir", "create", "open", "write", "fork", "child",
                    "stat", "copy", "attributes", "killed"} : SomeFault(kind) => Cause'
BY DEF NoFault, SomeFault, Cause, Works, Fails, fault, Thread!Works, Thread!Fails, Thread!fault,
       Process!Works, Process!Fails, Process!fault, Simple!Works, Simple!Fails, Simple!fault

\* A worker that goes on brings trouble only by going to "error".
LEMMA NewTrouble ==
    ASSUME WorkerTypes, NEW w \in Workers, NEW label, wpc' = [wpc EXCEPT ![w] = label]
    PROVE  (\E v \in Workers : wpc'[v] = "error")
             => label = "error" \/ \E v \in Workers : wpc[v] = "error"
BY DEF WorkerTypes

\* The thread version: worker_thread counts an error for a call of its own that
\* failed, or because main is exiting after a failed pthread_create.
LEMMA ThreadBlame ==
    BlameInv /\ prog = "thread" /\ Thread!Step => TroubleHasACause'
<1> SUFFICES ASSUME BlameInv, prog = "thread", Thread!Step, Trouble' PROVE Cause'
    BY DEF TroubleHasACause
<1> USE DEF NoFault, SomeFault, Thread!main, Thread!workers, Thread!history
<1>0. WorkerTypes /\ (Trouble => Cause) /\ started \in 0..count /\ count \in Counts["thread"]
    BY DEF BlameInv, SyncTypes, MainTypes, TroubleHasACause
<1>1. CASE Thread!CheckDirectories
    BY <1>0, <1>1, FaultFacts
    DEF Thread!CheckDirectories, Thread!Return, Trouble
<1>2. CASE Thread!sync_directory_structure
    BY <1>0, <1>2, FaultFacts DEF Thread!sync_directory_structure, Trouble
<1>3. CASE Thread!traverse_directory
    BY <1>0, <1>3, FaultFacts
    DEF Thread!traverse_directory, Thread!Return, Trouble
<1>4. CASE Thread!CreateThread
  <2>1. CASE Thread!Works /\ Thread!Goto(started, "get")
    <3>1. started \in Workers
      BY <1>0, <1>4, ParameterFacts DEF Thread!CreateThread
    <3>2. (\E v \in Workers : wpc'[v] = "error") => \E v \in Workers : wpc[v] = "error"
      BY <1>0, <2>1, <3>1, NewTrouble DEF Thread!Goto
    <3>3. UNCHANGED <<failed, errors>> /\ (result' = "failed" => result = "failed" \/ Cause')
          /\ (mpc' = "exiting" => mpc = "exiting" \/ Cause')
      BY <1>4, FaultFacts DEF Thread!CreateThread
    <3> QED
      BY <1>0, <2>1, <3>2, <3>3, FaultFacts DEF Trouble
  <2> QED
    BY <1>4, <2>1, FaultFacts DEF Thread!CreateThread
<1>5. CASE Thread!JoinThreads
    BY <1>0, <1>5, FaultFacts
    DEF Thread!JoinThreads, Thread!Return, Trouble, Thread!Works, Thread!fault
<1>6. CASE Thread!ExitProcess
    BY <1>0, <1>6, FaultFacts DEF Thread!ExitProcess, Trouble, Thread!Works, Thread!fault
<1>7. ASSUME NEW w \in Workers, Thread!worker_thread(w) PROVE Cause'
  <2>1. Cause => Cause'
    BY <1>7, FaultFacts
    DEF Thread!worker_thread, Thread!get_next_file, Thread!Compare, Thread!create_directory,
        Thread!OpenFiles, Thread!CopyLoop, Thread!StampFile, Thread!CountFile,
        Thread!LostPath, Thread!Works, Thread!fault
  <2>2. SUFFICES ASSUME ~Trouble PROVE Cause'
    BY <1>0, <2>1
  <2>3. UNCHANGED <<result, mpc, failed, errors>>
    BY <1>7, <2>2
    DEF Thread!worker_thread, Thread!get_next_file, Thread!Compare, Thread!create_directory,
        Thread!OpenFiles, Thread!CopyLoop, Thread!StampFile, Thread!CountFile,
        Thread!LostPath, Trouble
  <2>4. wpc'[w] = "error" \/ \A v \in Workers : wpc'[v] # "error"
    <3>1. PICK label : wpc' = [wpc EXCEPT ![w] = label]
      <4>1. UNCHANGED wpc \/ \E label : Thread!Goto(w, label)
        BY <1>7
        DEF Thread!worker_thread, Thread!get_next_file, Thread!Compare, Thread!create_directory,
            Thread!OpenFiles, Thread!CopyLoop, Thread!StampFile, Thread!CountFile,
            Thread!LostPath
      <4>2. UNCHANGED wpc => wpc' = [wpc EXCEPT ![w] = wpc[w]]
        BY <1>0 DEF WorkerTypes
      <4> QED
        BY <4>1, <4>2 DEF Thread!Goto
    <3> QED
      BY <1>0, <2>2, <3>1, NewTrouble DEF Trouble, WorkerTypes
  <2>5. wpc'[w] = "error"
    BY <2>2, <2>3, <2>4 DEF Trouble
  <2>6. wpc[w] # "error" /\ mpc # "exiting"
    BY <2>2 DEF Trouble
  <2>7. w \in DOMAIN wpc
    BY <1>0 DEF WorkerTypes
  <2> QED
    BY <1>7, <2>5, <2>6, <2>7, FaultFacts
    DEF Thread!worker_thread, Thread!get_next_file, Thread!Compare, Thread!create_directory,
        Thread!OpenFiles, Thread!CopyLoop, Thread!StampFile, Thread!CountFile,
        Thread!LostPath, Thread!Goto
<1> QED
    BY <1>1, <1>2, <1>3, <1>4, <1>5, <1>6, <1>7 DEF Thread!Step, Thread!perform_sync, Thread!Workers, Workers

\* The process version: a child fails at a call of its own.
LEMMA ProcessBlame ==
    BlameInv /\ prog = "process" /\ Process!Step => TroubleHasACause'
<1> SUFFICES ASSUME BlameInv, prog = "process", Process!Step, Trouble' PROVE Cause'
    BY DEF TroubleHasACause
<1> USE DEF NoFault, SomeFault, Process!main, Process!workers, Process!history
<1>0. WorkerTypes /\ (Trouble => Cause) /\ started \in 0..count /\ count \in Counts["process"]
    BY DEF BlameInv, SyncTypes, MainTypes, TroubleHasACause
<1>1. CASE Process!CheckDirectories
    BY <1>0, <1>1, FaultFacts DEF Process!CheckDirectories, Process!Return, Trouble
<1>2. CASE Process!sync_directory_structure
    BY <1>0, <1>2, FaultFacts DEF Process!sync_directory_structure, Trouble
<1>3. CASE Process!traverse_directory
    BY <1>0, <1>3, FaultFacts DEF Process!traverse_directory, Process!Return, Trouble
<1>4. CASE Process!ForkChild
  <2>1. CASE Process!Works /\ Process!Goto(started, "next")
    <3>1. started \in Workers
      BY <1>0, <1>4, ParameterFacts DEF Process!ForkChild
    <3>2. (\E v \in Workers : wpc'[v] = "error") => \E v \in Workers : wpc[v] = "error"
      BY <1>0, <2>1, <3>1, NewTrouble DEF Process!Goto
    <3>3. UNCHANGED <<failed, errors>> /\ (result' = "failed" => result = "failed" \/ Cause')
          /\ (mpc' = "exiting" => mpc = "exiting" \/ Cause')
      BY <1>4, FaultFacts DEF Process!ForkChild, Process!Return
    <3> QED
      BY <1>0, <2>1, <3>2, <3>3, FaultFacts DEF Trouble
  <2> QED
    BY <1>4, <2>1, FaultFacts DEF Process!ForkChild
<1>5. CASE Process!WaitChildren
    BY <1>0, <1>5, FaultFacts
    DEF Process!WaitChildren, Process!Return, Process!ExitStatus, Trouble, Process!Works,
        Process!fault
<1>6. ASSUME NEW w \in Workers, Process!ChildDies(w) PROVE Cause'
    BY <1>6, FaultFacts DEF Process!ChildDies
<1>7. ASSUME NEW w \in Workers, Process!worker_process(w) PROVE Cause'
  <2>1. Cause => Cause'
    BY <1>7, FaultFacts
    DEF Process!worker_process, Process!NextFile, Process!Compare, Process!create_directory,
        Process!OpenFiles, Process!CopyLoop, Process!Works, Process!fault
  <2>2. SUFFICES ASSUME ~Trouble PROVE Cause'
    BY <1>0, <2>1
  <2>3. UNCHANGED <<result, mpc, failed, errors>>
    BY <1>7, <2>2
    DEF Process!worker_process, Process!NextFile, Process!Compare, Process!create_directory,
        Process!OpenFiles, Process!CopyLoop, Trouble
  <2>4. wpc'[w] = "error" \/ \A v \in Workers : wpc'[v] # "error"
    <3>1. PICK label : wpc' = [wpc EXCEPT ![w] = label]
      <4>1. UNCHANGED wpc \/ \E label : Process!Goto(w, label)
        BY <1>7
        DEF Process!worker_process, Process!NextFile, Process!Compare,
            Process!create_directory, Process!OpenFiles, Process!CopyLoop
      <4>2. UNCHANGED wpc => wpc' = [wpc EXCEPT ![w] = wpc[w]]
        BY <1>0 DEF WorkerTypes
      <4> QED
        BY <4>1, <4>2 DEF Process!Goto
    <3> QED
      BY <1>0, <2>2, <3>1, NewTrouble DEF Trouble, WorkerTypes
  <2>5. wpc'[w] = "error"
    BY <2>2, <2>3, <2>4 DEF Trouble
  <2>6. wpc[w] # "error" /\ w \in DOMAIN wpc
    BY <1>0, <2>2 DEF Trouble, WorkerTypes
  <2> QED
    BY <1>7, <2>5, <2>6, FaultFacts
    DEF Process!worker_process, Process!NextFile, Process!Compare, Process!create_directory,
        Process!OpenFiles, Process!CopyLoop, Process!Goto
<1> QED
    BY <1>1, <1>2, <1>3, <1>4, <1>5, <1>6, <1>7
    DEF Process!Step, Process!perform_sync, Process!Workers, Workers

\* The simple version: its only worker quits at the call that failed.
LEMMA SimpleBlame ==
    BlameInv /\ prog = "simple" /\ Simple!Step => TroubleHasACause'
<1> SUFFICES ASSUME BlameInv, prog = "simple", Simple!Step, Trouble' PROVE Cause'
    BY DEF TroubleHasACause
<1> USE DEF NoFault, SomeFault, Simple!main, Simple!workers, Simple!history
<1>0. WorkerTypes /\ (Trouble => Cause) /\ 0 \in Workers
    BY ParameterFacts DEF BlameInv, SyncTypes, TroubleHasACause
<1>1. Cause => Cause'
    BY FaultFacts
    DEF Simple!Step, Simple!sync_file, Simple!Open, Simple!Entry, Simple!EndOfWalk,
        Simple!Compare, Simple!create_directory_recursive, Simple!OpenFiles,
        Simple!copy_file_data, Simple!copy_file_attributes, Simple!Synced, Simple!Works,
        Simple!fault
<1>2. SUFFICES ASSUME ~Trouble PROVE Cause'
    BY <1>0, <1>1
<1>3. \/ Cause'
      \/ /\ UNCHANGED <<failed, errors>> /\ result' \in {result, "ok"} /\ mpc' \in {mpc, "walk", "ended"}
         /\ \/ UNCHANGED wpc
            \/ \E label \in Labels \ {"error"} : wpc' = [wpc EXCEPT ![0] = label]
    BY FaultFacts
    DEF Simple!Step, Simple!sync_file, Simple!Open, Simple!Entry, Simple!EndOfWalk,
        Simple!Compare, Simple!create_directory_recursive, Simple!OpenFiles,
        Simple!copy_file_data, Simple!copy_file_attributes, Simple!Synced, Simple!Going,
        Simple!Goto, Simple!Me, Labels
<1>4. CASE \E label \in Labels \ {"error"} : wpc' = [wpc EXCEPT ![0] = label]
  <2>1. PICK label \in Labels \ {"error"} : wpc' = [wpc EXCEPT ![0] = label]
    BY <1>4
  <2>2. \A v \in Workers : wpc'[v] # "error"
    BY <1>0, <1>2, <2>1, NewTrouble DEF Trouble
  <2> QED
    BY <1>2, <1>3, <2>2 DEF Trouble
<1> QED
    BY <1>2, <1>3, <1>4 DEF Trouble

\* A run notes trouble, and reports failure, only after a call has failed.
LEMMA BlameInvStep == BlameInv /\ [Next]_vars => BlameInv'
<1> SUFFICES ASSUME BlameInv, [Next]_vars PROVE BlameInv'
    OBVIOUS
<1>1. SyncTypes'
    BY SyncTypesStep DEF BlameInv
<1>2. SUFFICES TroubleHasACause'
    BY <1>1 DEF BlameInv
<1>3. CASE Step
    BY <1>3, ThreadBlame, ProcessBlame, SimpleBlame DEF Step
<1>4. CASE StartThread \/ StartProcess \/ StartSimple
  <2>1. result' = "none" /\ mpc' = "target" /\ failed' = {} /\ errors' = 0 /\ NoWorkers
    BY <1>4 DEF StartThread, StartProcess, StartSimple, Start
  <2>2. \A w \in Workers : wpc'[w] # "error"
    BY <2>1 DEF NoWorkers
  <2> QED
    BY <2>1, <2>2 DEF TroubleHasACause, Trouble
<1>5. CASE Interrupt
    BY <1>5, FaultFacts DEF Interrupt, TroubleHasACause, SomeFault
<1>6. CASE Tick \/ UNCHANGED vars \/ \E f \in Files : Edit(f)
    BY <1>6 DEF Tick, Edit, vars, main, workers, history, fault, BlameInv, TroubleHasACause,
                Trouble, Cause
<1> QED
    BY <1>3, <1>4, <1>5, <1>6 DEF Next

\* FailuresAreReal for every instance: workers that race for files and
\* directories do not fail each other, and a failed run had a call that failed.
THEOREM FailuresHaveCauses == Spec => []FailuresAreReal
<1>1. Init => BlameInv
    BY SyncTypesInit DEF Init, BlameInv, TroubleHasACause, Trouble
<1>2. BlameInv => FailuresAreReal
    BY DEF BlameInv, TroubleHasACause, Trouble, Cause, FailuresAreReal
<1> QED
    BY <1>1, <1>2, BlameInvStep, PTL DEF Spec
=============================================================================
