---------------------------- MODULE PrintdProofs ----------------------------
(***************************************************************************)
(* Proofs about Printd for any set of clients and any bounds: the type     *)
(* invariant, that accepted jobs survive crashes (Durable) and that a job  *)
(* is sent with its own data (HeadersMatchData); then, on top of these, of *)
(* the queue: a job is on the list once (NoDuplicates), none is forgotten  *)
(* by a restart (NothingForgotten), an idle spool is empty                 *)
(* (IdleSpoolIsEmpty), and a daemon that does not die is a spooler         *)
(* (ImplementsSpooler).                                                    *)
(***************************************************************************)
EXTENDS Printd, FiniteSetTheorems, SequenceTheorems, TLAPS

Unnumbered == {"none", "header", "number"}
Numbered == {"creat", "receive", "control", "request", "respond", "add",
             "signal", "done"}

\* A client gets its number once, and is told of its acceptance after that.
Numbering ==
    \A c \in Clients :
        /\ cpc[c] \in Unnumbered => jobid[c] = NoNumber
        /\ cpc[c] \in Numbered => jobid[c] # NoNumber
        /\ c \in acked => /\ cpc[c] \in {"add", "signal", "done", "dead"}
                          /\ jobid[c] # NoNumber

\* A spool file is named by the number of the client whose bytes it holds.
OwnName(file, j) == file \in FileData /\ jobid[file.by] = j

NamedFile(j) == /\ data[j] # NoFile => OwnName(data[j], j)
                /\ reqs[j] # NoFile => OwnName(reqs[j], j)

NamedFiles == \A j \in JobIds : NamedFile(j)

\* No client thread runs before the accept loop, and nothing in a dead daemon.
Phases ==
    /\ mpc # "accept" =>
          \A c \in Clients : cpc[c] \in {"none", "done", "refused", "dead"}
    /\ mpc = "down" => queue = <<>> /\ ppc = "off"

\* A job in memory is one its client handed over, under its client's number,
\* and one that build_qonstart is not going to read again.
HandedOver == {"signal", "done", "dead", "refused"}

GoodJob(job) ==
    /\ jobid[job.req] = job.jobid
    /\ cpc[job.req] \in HandedOver
    /\ mpc # "accept" => job.jobid \notin scan

JobsInMemory ==
    /\ \A i \in 1..Len(queue) : GoodJob(queue[i])
    /\ jp # <<>> => GoodJob(jp[1])

\* The file the printer thread has open, and what it sent, carry its number.
PrinterFiles ==
    /\ ppc \in {"connect", "send"} =>
          IF fd = NoFile THEN data[jp[1].jobid] # NoFile
                         ELSE OwnName(fd, jp[1].jobid)
    /\ ppc \in {"status", "unlinkData", "unlinkReq"} =>
          OwnName(sent, jp[1].jobid)
    /\ ppc \in {"unlinkData", "unlinkReq"} =>
          [job |-> jp[1], data |-> sent] \in printed

PrintedFiles ==
    \A p \in printed : /\ OwnName(p.data, p.job.jobid)
                       /\ jobid[p.job.req] = p.job.jobid

\* What the files of a client are at each step of client_thread, as long as no
\* other client has its number.
MyData(c) == data[jobid[c]] \in {Part(c), Whole(c)}

ClientFiles(c) ==
    /\ cpc[c] \in {"receive", "control", "request"} => MyData(c)
    /\ cpc[c] = "request" => reqs[jobid[c]] = Part(c)
    /\ cpc[c] = "respond" => Spooled(c)
    /\ c \in acked => c \in unread \/ Confirmed(c) \/ Spooled(c)

OwnFiles == \A c \in Clients : Reused(jobid[c]) \/ ClientFiles(c)

\* Only a fault keeps build_qonstart from reading a request.
UnreadByFault == faults = 0 => unread = {}

IndInv == /\ TypeOK /\ Numbering /\ NamedFiles /\ Phases /\ JobsInMemory
          /\ PrinterFiles /\ PrintedFiles /\ OwnFiles /\ UnreadByFault

-----------------------------------------------------------------------------
USE MaxJobAssumption, BaseAssumption, MaxCrashesAssumption, MaxFaultsAssumption,
    NoFileAssumption

\* The two states of a client's file are files, and they differ.
LEMMA FileFacts ==
    /\ NoFile \in Files
    /\ \A c \in Clients : /\ Part(c) \in Files /\ Part(c) # NoFile
                          /\ Part(c).by = c /\ ~Part(c).whole
                          /\ Whole(c) \in Files /\ Whole(c) # NoFile
                          /\ Whole(c).by = c /\ Whole(c).whole
    /\ \A f \in Files : f # NoFile => /\ f \in FileData /\ f.by \in Clients
                                      /\ f \in {Part(f.by), Whole(f.by)}
<1>1. ASSUME NEW f \in FileData PROVE f \in {Part(f.by), Whole(f.by)}
  <2>1. f = [by |-> f.by, whole |-> f.whole] /\ f.whole \in BOOLEAN
    BY DEF FileData
  <2> QED
    BY <2>1 DEF Part, Whole
<1>2. ASSUME NEW c \in Clients
      PROVE  /\ Part(c) \in FileData /\ Part(c).by = c /\ ~Part(c).whole
             /\ Whole(c) \in FileData /\ Whole(c).by = c /\ Whole(c).whole
    BY DEF FileData, Part, Whole
<1>3. ASSUME NEW f \in FileData PROVE f.by \in Clients
    BY DEF FileData
<1> QED
    BY <1>1, <1>2, <1>3 DEF Files

\* An int32_t holds a value of its range after any conversion, and NoNumber is
\* none of them.
LEMMA NumberFacts ==
    /\ MinJob \in Int /\ NoNumber \in Int /\ NoNumber \notin JobIds
    /\ 1 \in JobIds /\ 0 \in JobIds /\ JobIds \subseteq Int
    /\ \A n \in Int : Int32(n) \in JobIds
<1>1. MinJob \in Int /\ NoNumber \in Int /\ NoNumber \notin JobIds
      /\ 1 \in JobIds /\ 0 \in JobIds /\ JobIds \subseteq Int
    BY DEF MinJob, NoNumber, JobIds
<1>2. ASSUME NEW n \in Int PROVE Int32(n) \in JobIds
  <2> DEFINE size == 2 * (MaxJob + 1)
             d == n - MinJob
  <2>1. size \in Nat \ {0} /\ d \in Int
    BY <1>1
  <2>2. d % size \in 0..(size - 1)
    <3> HIDE DEF size, d
    <3> QED
      BY <2>1
  <2>3. (d % size) + MinJob \in JobIds
    <3> DEFINE r == d % size
    <3> HIDE DEF r
    <3>1. r \in 0..(size - 1)
      BY <2>2 DEF r
    <3> QED
      BY <3>1 DEF MinJob, JobIds, r
  <2> QED
    BY <2>3 DEF Int32
<1> QED
    BY <1>1, <1>2

\* The width of a number is a natural number.
LEMMA WidthType == \A n \in JobIds : Width(n) \in Nat
<1> SUFFICES ASSUME NEW n \in JobIds PROVE Width(n) \in Nat
    OBVIOUS
<1> DEFINE K == {k \in 1..MaxJob : Base^k <= Abs(n)}
<1>1. IsFiniteSet(1..MaxJob) /\ K \subseteq 1..MaxJob
    BY FS_Interval
<1>2. Cardinality(K) \in Nat
    BY <1>1, FS_Subset, FS_CardinalityType
<1> QED
    BY <1>2 DEF Width

\* update_jobno and the initial states leave a file with some number in it.
LEMMA OverwrittenType ==
    \A f \in JobFiles, n \in JobIds : Overwritten(f, n) \subseteq JobFiles
<1> SUFFICES ASSUME NEW f \in JobFiles, NEW n \in JobIds, NEW g \in Overwritten(f, n)
             PROVE  g \in JobFiles
    OBVIOUS
<1> DEFINE k == f.width - Width(n)
           p == Base^k
<1>a. f.width \in Nat /\ Width(n) \in Nat /\ n \in Int /\ k \in Int
    BY WidthType, NumberFacts DEF JobFiles
<1>1. CASE k <= 0
  <2>1. g = [num |-> n, width |-> Width(n)]
    BY <1>1 DEF Overwritten
  <2> QED
    BY <2>1, <1>a DEF JobFiles
<1>2. CASE ~(k <= 0)
  <2>1. k \in Nat /\ p \in Int
    BY <1>2, <1>a
  <2>2. PICK r \in 0..(p - 1) :
           g = [num |-> IF n < 0 THEN n * p - r ELSE n * p + r, width |-> f.width]
    BY <1>2 DEF Overwritten
  <2> HIDE DEF p
  <2>3. n * p \in Int /\ r \in Int
    BY <2>1, <2>2, <1>a
  <2>4. (IF n < 0 THEN n * p - r ELSE n * p + r) \in Int
    BY <2>3, <1>a
  <2> QED
    BY <2>2, <2>4, <1>a DEF JobFiles
<1> QED
    BY <1>1, <1>2, <1>a

\* Every file an earlier run can have left is one.
LEMMA EarlierFilesType == EarlierFiles \subseteq JobFiles
<1>1. EmptyFile \in JobFiles
    BY DEF EmptyFile, JobFiles
<1>2. ASSUME NEW m \in 1..MaxJob, NEW n \in 1..MaxJob
      PROVE  Overwritten([num |-> m, width |-> Width(m)], n) \subseteq JobFiles
  <2>1. m \in JobIds /\ n \in JobIds
    BY DEF JobIds, MinJob
  <2>2. [num |-> m, width |-> Width(m)] \in JobFiles
    BY <2>1, WidthType, NumberFacts DEF JobFiles
  <2> QED
    BY <2>1, <2>2, OverwrittenType
<1>3. ASSUME NEW f \in EarlierFiles, f # EmptyFile
      PROVE  \E m \in 1..MaxJob, n \in 1..MaxJob :
                f \in Overwritten([num |-> m, width |-> Width(m)], n)
    BY <1>3 DEF EarlierFiles
<1> QED
    BY <1>1, <1>2, <1>3

\* add_job puts a number and a request together to a job.
LEMMA JobFacts ==
    \A c \in Clients, j \in JobIds : [jobid |-> j, req |-> c] \in Jobs
BY DEF Jobs

\* The queue with a job added at its end is a queue.
LEMMA JobAppend ==
    ASSUME NEW q \in Seq(Jobs), NEW job \in Jobs
    PROVE  Append(q, job) \in Seq(Jobs)
OBVIOUS

\* The daemon starts with variables of their types.
LEMMA TypeInit == Init => TypeOK
BY NumberFacts, EarlierFilesType
DEF Init, TypeOK, MainPcs, ClientPcs, PrinterPcs, Files

\* No step of any thread, and no crash, spoils a type.
LEMMA TypeStep == TypeOK /\ Numbering /\ Phases /\ [Next]_vars => TypeOK'
<1> SUFFICES ASSUME TypeOK, Numbering, Phases, [Next]_vars PROVE TypeOK'
    OBVIOUS
<1> USE FileFacts, JobFacts
    DEF TypeOK, MainPcs, ClientPcs, PrinterPcs, Go, mainVars, spoolVars,
        clientVars, printerVars, historyVars, boundVars
<1>1. CASE Start
  <2>1. nextjob' \in JobIds
    BY <1>1, NumberFacts DEF Start, JobFiles
  <2> QED
    BY <1>1, <2>1 DEF Start, Phases
<1>2. ASSUME NEW j \in JobIds, ReadEntry(j) PROVE TypeOK'
  <2>1. reqs[j] # NoFile => [jobid |-> j, req |-> reqs[j].by] \in Jobs
    OBVIOUS
  <2> DEFINE job == [jobid |-> j, req |-> reqs[j].by]
  <2>2. queue' = queue \/ (reqs[j] # NoFile /\ queue' = Append(queue, job))
    BY <1>2 DEF ReadEntry, add_job
  <2> HIDE DEF job
  <2>3. queue' \in Seq(Jobs)
    BY <2>1, <2>2, JobAppend, SMTT(30) DEF job
  <2>4. data' \in [JobIds -> Files] /\ reqs' \in [JobIds -> Files]
    BY <1>2 DEF ReadEntry
  <2> QED
    BY <1>2, <2>3, <2>4 DEF ReadEntry
<1>3. CASE SignalEntry
    BY <1>3 DEF SignalEntry, signal_jobwait
<1>4. CASE EndScan
    BY <1>4 DEF EndScan
<1>5. CASE ScanFails
    BY <1>5 DEF ScanFails
<1>6. CASE Crash
    BY <1>6 DEF Crash
<1>7. ASSUME NEW c \in Clients, Accept(c) PROVE TypeOK'
    BY <1>7 DEF Accept
<1>8. ASSUME NEW c \in Clients, ReadHeader(c) PROVE TypeOK'
    BY <1>8 DEF ReadHeader
<1>9. ASSUME NEW c \in Clients, get_newjobno(c) PROVE TypeOK'
  <2>1. nextjob \in Int /\ (nextjob + 1 \in 1..MaxJob => nextjob + 1 \in JobIds)
    BY NumberFacts DEF JobIds, MinJob
  <2>2. nextjob' \in JobIds
    BY <1>9, <2>1, NumberFacts DEF get_newjobno
  <2> QED
    BY <1>9, <2>2 DEF get_newjobno
<1>10. ASSUME NEW c \in Clients, CreateData(c) PROVE TypeOK'
  <2>1. data' \in [JobIds -> Files]
    BY <1>10 DEF CreateData
  <2> QED
    BY <1>10, <2>1 DEF CreateData
<1>11. ASSUME NEW c \in Clients, ReceiveData(c) PROVE TypeOK'
  <2>1. jobid[c] \in JobIds
    BY <1>11 DEF ReceiveData, Numbering, Numbered
  <2>2. unlink_data(jobid[c]) => data' \in [JobIds -> Files] /\ fd' \in Files
    BY <2>1 DEF unlink_data
  <2>3. data' \in [JobIds -> Files] /\ reqs' \in [JobIds -> Files] /\ fd' \in Files
    BY <1>11, <2>1, <2>2 DEF ReceiveData
  <2> QED
    BY <1>11, <2>3 DEF ReceiveData
<1>12. ASSUME NEW c \in Clients, CreateRequest(c) PROVE TypeOK'
  <2>1. jobid[c] \in JobIds
    BY <1>12 DEF CreateRequest, Numbering, Numbered
  <2>2. unlink_data(jobid[c]) => data' \in [JobIds -> Files] /\ fd' \in Files
    BY <2>1 DEF unlink_data
  <2>3. data' \in [JobIds -> Files] /\ reqs' \in [JobIds -> Files] /\ fd' \in Files
    BY <1>12, <2>1, <2>2 DEF CreateRequest
  <2> QED
    BY <1>12, <2>3 DEF CreateRequest
<1>13. ASSUME NEW c \in Clients, WriteRequest(c) PROVE TypeOK'
  <2>1. jobid[c] \in JobIds
    BY <1>13 DEF WriteRequest, Numbering, Numbered
  <2>2. unlink_data(jobid[c]) => data' \in [JobIds -> Files] /\ fd' \in Files
    BY <2>1 DEF unlink_data
  <2>3. reqs' \in [JobIds -> Files]
    <3>1. PICK f \in Files : reqs' = [reqs EXCEPT ![jobid[c]] = f]
      BY <1>13 DEF WriteRequest
    <3> QED
      BY <3>1
  <2>4. data' \in [JobIds -> Files] /\ fd' \in Files
    BY <1>13, <2>2 DEF WriteRequest
  <2>5. /\ cpc' \in [Clients -> ClientPcs]
        /\ UNCHANGED <<mpc, scan, nextjob, jobno, queue, jobid, ppc, jp, sent,
                       acked, printed, canceled, unread, crashes, faults>>
    BY <1>13 DEF WriteRequest
  <2> QED
    BY <2>3, <2>4, <2>5
<1>14. ASSUME NEW c \in Clients, Respond(c) PROVE TypeOK'
    BY <1>14 DEF Respond
<1>15. ASSUME NEW c \in Clients, AddJob(c) PROVE TypeOK'
    BY <1>15 DEF AddJob, add_job, Numbering, Numbered
<1>16. ASSUME NEW c \in Clients, SignalJob(c) PROVE TypeOK'
    BY <1>16 DEF SignalJob, signal_jobwait
<1>17. CASE GetJob
  <2>1. CASE queue = <<>>
    BY <1>17, <2>1 DEF GetJob
  <2>2. CASE queue # <<>>
    <3>1. Head(queue) \in Jobs /\ Tail(queue) \in Seq(Jobs)
      BY <2>2
    <3> QED
      BY <1>17, <2>2, <3>1 DEF GetJob, remove_job
  <2> QED
    BY <2>1, <2>2
<1>18. CASE SpuriousWakeup
    BY <1>18 DEF SpuriousWakeup
<1>19. CASE update_jobno
  <2>1. jobno' \in JobFiles
    BY <1>19, OverwrittenType DEF update_jobno
  <2> QED
    BY <1>19, <2>1 DEF update_jobno
<1>20. CASE OpenData
    BY <1>20 DEF OpenData
<1>21. CASE Connect
    BY <1>21 DEF Connect
<1>22. CASE Send
    BY <1>22 DEF Send, Jobs
<1>23. CASE Confirm
    BY <1>23 DEF Confirm, Jobs
<1>24. CASE UnlinkData
    BY <1>24 DEF UnlinkData
<1>25. CASE UnlinkReq
    BY <1>25 DEF UnlinkReq
<1>26. CASE Defer
    BY <1>26 DEF Defer, replace_job
<1>27. CASE Slept
    BY <1>27 DEF Slept
<1>28. CASE UNCHANGED vars
    BY <1>28 DEF vars
<1> QED
    BY <1>1, <1>2, <1>3, <1>4, <1>5, <1>6, <1>7, <1>8, <1>9, <1>10, <1>11,
       <1>12, <1>13, <1>14, <1>15, <1>16, <1>17, <1>18, <1>19, <1>20, <1>21,
       <1>22, <1>23, <1>24, <1>25, <1>26, <1>27, <1>28
    DEF Next, build_qonstart, client_thread, printer_thread

\* The moves of a client thread, by what they do to cpc, jobid and acked.
Moves == {<<"none", "header">>, <<"header", "number">>, <<"number", "creat">>,
          <<"creat", "receive">>, <<"receive", "control">>,
          <<"control", "request">>, <<"request", "respond">>,
          <<"respond", "add">>, <<"add", "signal">>, <<"signal", "done">>,
          <<"header", "refused">>, <<"creat", "refused">>,
          <<"receive", "refused">>, <<"control", "refused">>,
          <<"request", "refused">>}

Move(c, from, to) ==
    /\ <<from, to>> \in Moves /\ Go(c, from, to)
    /\ IF from = "number"
       THEN \E j \in JobIds : jobid' = [jobid EXCEPT ![c] = j]
       ELSE jobid' = jobid
    /\ acked' = IF from = "respond" THEN acked \cup {c} ELSE acked

\* A step leaves a client's thread alone, or moves it as client_thread does.
LEMMA ClientMoves ==
    ASSUME TypeOK, [Next]_vars
    PROVE  \/ UNCHANGED <<cpc, jobid, acked>>
           \/ Crash
           \/ \E c \in Clients, from, to \in ClientPcs : Move(c, from, to)
<1> DEFINE Goal == \/ UNCHANGED <<cpc, jobid, acked>>
                   \/ Crash
                   \/ \E c \in Clients, from, to \in ClientPcs : Move(c, from, to)
<1> USE DEF mainVars, spoolVars, clientVars, printerVars, historyVars, boundVars
<1>1. ASSUME NEW c \in Clients, Accept(c) \/ client_thread(c)
      PROVE  \E from, to \in ClientPcs : Move(c, from, to)
  <2> USE DEF Move, Moves, ClientPcs, Go
  <2>1. CASE Accept(c)
    BY <2>1 DEF Accept
  <2>2. CASE ReadHeader(c)
    BY <2>2 DEF ReadHeader
  <2>3. CASE get_newjobno(c)
    <3>1. nextjob \in JobIds
      BY <2>3 DEF get_newjobno, TypeOK, JobIds
    <3>2. Move(c, "number", "creat")
      BY <2>3, <3>1 DEF get_newjobno
    <3> QED
      BY <3>2
  <2>4. CASE CreateData(c)
    BY <2>4 DEF CreateData
  <2>5. CASE ReceiveData(c)
    BY <2>5 DEF ReceiveData
  <2>6. CASE CreateRequest(c)
    BY <2>6 DEF CreateRequest
  <2>7. CASE WriteRequest(c)
    BY <2>7 DEF WriteRequest
  <2>8. CASE Respond(c)
    BY <2>8 DEF Respond
  <2>9. CASE AddJob(c)
    BY <2>9 DEF AddJob
  <2>10. CASE SignalJob(c)
    BY <2>10 DEF SignalJob
  <2> HIDE DEF Move, Moves, ClientPcs, Go
  <2> QED
    BY <1>1, <2>1, <2>2, <2>3, <2>4, <2>5, <2>6, <2>7, <2>8, <2>9, <2>10 DEF
       client_thread
<1>2. ASSUME \/ Start \/ build_qonstart \/ ScanFails \/ printer_thread
             \/ SpuriousWakeup \/ UNCHANGED vars
      PROVE  UNCHANGED <<cpc, jobid, acked>>
    BY <1>2
    DEF vars, build_qonstart, printer_thread, Start, ReadEntry, SignalEntry,
        EndScan, ScanFails, GetJob, SpuriousWakeup, update_jobno, OpenData,
        Connect, Send, Confirm, UnlinkData, UnlinkReq, Defer, Slept
<1> QED
    BY <1>1, <1>2 DEF Next

\* Numbering is inductive: get_newjobno gives a client its number once.
LEMMA NumberingStep == TypeOK /\ Numbering /\ [Next]_vars => Numbering'
<1> SUFFICES ASSUME TypeOK, Numbering, [Next]_vars PROVE Numbering'
    OBVIOUS
<1> USE DEF TypeOK, Numbering, Numbered, Unnumbered
<1>1. CASE UNCHANGED <<cpc, jobid, acked>>
    BY <1>1
<1>2. CASE Crash
    BY <1>2 DEF Crash, historyVars
<1>3. ASSUME NEW c \in Clients, NEW from \in ClientPcs, NEW to \in ClientPcs,
             Move(c, from, to)
      PROVE  Numbering'
    BY <1>3, NumberFacts DEF Move, Moves, Go
<1> QED
    BY <1>1, <1>2, <1>3, ClientMoves

\* A number stays with its client, and a number two clients had stays shared.
LEMMA NumbersStay ==
    ASSUME TypeOK, Numbering, [Next]_vars, NEW b \in Clients, jobid[b] # NoNumber
    PROVE  jobid'[b] = jobid[b]
<1>1. CASE Crash
    BY <1>1 DEF Crash
<1>2. ASSUME NEW c \in Clients, NEW from \in ClientPcs, NEW to \in ClientPcs,
             Move(c, from, to)
      PROVE  jobid'[b] = jobid[b]
    BY <1>2 DEF Move, Go, TypeOK, Numbering, Unnumbered
<1> QED
    BY <1>1, <1>2, ClientMoves

\* A client thread that handed its job over, or ended, does nothing more to it.
LEMMA HandedOverStays ==
    ASSUME TypeOK, [Next]_vars, NEW b \in Clients, cpc[b] \in HandedOver
    PROVE  cpc'[b] \in HandedOver
<1> USE DEF TypeOK, HandedOver
<1>1. CASE Crash
    BY <1>1 DEF Crash
<1>2. ASSUME NEW c \in Clients, NEW from \in ClientPcs, NEW to \in ClientPcs,
             Move(c, from, to)
      PROVE  cpc'[b] \in HandedOver
    BY <1>2 DEF Move, Moves, Go
<1> QED
    BY <1>1, <1>2, ClientMoves

\* A client without a number does not reach its files in one step.
LEMMA NewcomerStep ==
    ASSUME TypeOK, [Next]_vars, NEW k \in Clients, cpc[k] \notin Numbered,
           k \notin acked
    PROVE  /\ cpc'[k] \notin {"receive", "control", "request", "respond"}
           /\ k \notin acked'
<1> USE DEF TypeOK, Numbered
<1>1. CASE Crash
    BY <1>1 DEF Crash, historyVars
<1>2. ASSUME NEW c \in Clients, NEW from \in ClientPcs, NEW to \in ClientPcs,
             Move(c, from, to)
      PROVE  /\ cpc'[k] \notin {"receive", "control", "request", "respond"}
             /\ k \notin acked'
    BY <1>2 DEF Move, Moves, Go
<1> QED
    BY <1>1, <1>2, ClientMoves

\* Phases is inductive: main accepts only after build_qonstart.
LEMMA PhasesStep ==
    TypeOK /\ Phases /\ [Next]_vars => Phases'
<1> SUFFICES ASSUME TypeOK, Phases, [Next]_vars PROVE Phases'
    OBVIOUS
<1> USE DEF TypeOK, Go, mainVars, spoolVars, clientVars, printerVars,
            historyVars, boundVars, Unnumbered, Numbered, Phases
<1>1. CASE Start
    BY <1>1 DEF Start
<1>2. ASSUME NEW j \in JobIds, ReadEntry(j) PROVE Phases'
    BY <1>2 DEF ReadEntry, add_job
<1>3. CASE SignalEntry
    BY <1>3 DEF SignalEntry, signal_jobwait
<1>4. CASE EndScan
    BY <1>4 DEF EndScan
<1>5. CASE Crash
    BY <1>5 DEF Crash
<1>6. ASSUME NEW c \in Clients, Accept(c) PROVE Phases'
    BY <1>6 DEF Accept
<1>7. ASSUME NEW c \in Clients, ReadHeader(c) PROVE Phases'
    BY <1>7 DEF ReadHeader
<1>8. ASSUME NEW c \in Clients, get_newjobno(c) PROVE Phases'
    BY <1>8 DEF get_newjobno
<1>9. ASSUME NEW c \in Clients, CreateData(c) PROVE Phases'
    BY <1>9 DEF CreateData
<1>10. ASSUME NEW c \in Clients, ReceiveData(c) PROVE Phases'
    BY <1>10 DEF ReceiveData, unlink_data
<1>11. ASSUME NEW c \in Clients, CreateRequest(c) PROVE Phases'
    BY <1>11 DEF CreateRequest, unlink_data
<1>12. ASSUME NEW c \in Clients, WriteRequest(c) PROVE Phases'
    BY <1>12 DEF WriteRequest, unlink_data
<1>13. ASSUME NEW c \in Clients, Respond(c) PROVE Phases'
    BY <1>13 DEF Respond
<1>14. ASSUME NEW c \in Clients, AddJob(c) PROVE Phases'
    BY <1>14 DEF AddJob, add_job
<1>15. ASSUME NEW c \in Clients, SignalJob(c) PROVE Phases'
    BY <1>15 DEF SignalJob, signal_jobwait
<1>16. CASE GetJob
    BY <1>16 DEF GetJob, remove_job
<1>17. CASE SpuriousWakeup
    BY <1>17 DEF SpuriousWakeup
<1>18. CASE \/ ScanFails \/ update_jobno \/ OpenData \/ Connect \/ Send
            \/ Confirm \/ UnlinkData \/ UnlinkReq \/ Defer \/ Slept
            \/ UNCHANGED vars
    BY <1>18 DEF vars, ScanFails, update_jobno, OpenData, Connect, Send,
        Confirm, UnlinkData, UnlinkReq, Defer, replace_job, Slept
<1> QED
    BY <1>1, <1>2, <1>3, <1>4, <1>5, <1>6, <1>7, <1>8, <1>9, <1>10, <1>11,
       <1>12, <1>13, <1>14, <1>15, <1>16, <1>17, <1>18
    DEF Next, build_qonstart, client_thread, printer_thread

\* A file that has its owner's number keeps it.
LEMMA OwnNameStays ==
    ASSUME TypeOK, Numbering, [Next]_vars, NEW f, NEW j \in JobIds, OwnName(f, j)
    PROVE  f \in FileData /\ jobid'[f.by] = j
BY NumbersStay, NumberFacts DEF OwnName, FileData

\* Every write to the spool is under the number of the client that writes.
LEMMA NamedFilesStep ==
    TypeOK /\ Numbering /\ NamedFiles /\ [Next]_vars => NamedFiles'
<1> SUFFICES ASSUME TypeOK, Numbering, NamedFiles, [Next]_vars
             PROVE  NamedFiles'
    OBVIOUS
<1> SUFFICES ASSUME NEW k \in JobIds PROVE NamedFile(k)'
    BY DEF NamedFiles
<1>a. \A f : OwnName(f, k) => f \in FileData /\ jobid'[f.by] = k
    BY OwnNameStays
<1>b. NamedFile(k)
    BY DEF NamedFiles
<1> USE <1>a, <1>b, FileFacts
    DEF NamedFile, OwnName, TypeOK, Go, mainVars, spoolVars, clientVars, printerVars,
        historyVars, boundVars
<1>1. ASSUME NEW j \in JobIds, ReadEntry(j) PROVE NamedFile(k)'
    BY <1>1 DEF ReadEntry, add_job
<1>2. ASSUME NEW c \in Clients, CreateData(c) PROVE NamedFile(k)'
  <2>1. jobid[c] \in JobIds
    BY <1>2 DEF CreateData, Numbering, Numbered
  <2> QED
    BY <1>2, <2>1 DEF CreateData
<1>3. ASSUME NEW c \in Clients, ReceiveData(c) PROVE NamedFile(k)'
  <2>1. jobid[c] \in JobIds
    BY <1>3 DEF ReceiveData, Numbering, Numbered
  <2> QED
    BY <1>3, <2>1 DEF ReceiveData, unlink_data
<1>4. ASSUME NEW c \in Clients, CreateRequest(c) PROVE NamedFile(k)'
  <2>1. jobid[c] \in JobIds
    BY <1>4 DEF CreateRequest, Numbering, Numbered
  <2> QED
    BY <1>4, <2>1 DEF CreateRequest, unlink_data
<1>5. ASSUME NEW c \in Clients, WriteRequest(c) PROVE NamedFile(k)'
  <2>1. jobid[c] \in JobIds
    BY <1>5 DEF WriteRequest, Numbering, Numbered
  <2> QED
    BY <1>5, <2>1 DEF WriteRequest, unlink_data
<1>6. CASE UnlinkData
    BY <1>6 DEF UnlinkData
<1>7. CASE UnlinkReq
    BY <1>7 DEF UnlinkReq
<1>8. CASE \/ Start \/ SignalEntry \/ EndScan \/ ScanFails \/ Crash
           \/ GetJob \/ SpuriousWakeup \/ update_jobno \/ OpenData \/ Connect
           \/ Send \/ Confirm \/ Defer \/ Slept
           \/ \E c \in Clients : Accept(c) \/ ReadHeader(c) \/ get_newjobno(c)
           \/ \E c \in Clients : Respond(c) \/ AddJob(c) \/ SignalJob(c)
           \/ UNCHANGED vars
    BY <1>8 DEF vars, Start, SignalEntry, signal_jobwait, EndScan, ScanFails,
        Crash, Accept, ReadHeader, get_newjobno, Respond, AddJob, add_job,
        SignalJob, GetJob, remove_job, SpuriousWakeup, update_jobno,
        OpenData, Connect, Send, Confirm, Defer, replace_job, Slept
<1> QED
    BY <1>1, <1>2, <1>3, <1>4, <1>5, <1>6, <1>7, <1>8
    DEF Next, build_qonstart, client_thread, printer_thread

\* The files build_qonstart has yet to read only become fewer.
LEMMA ScanShrinks ==
    ASSUME TypeOK, mpc # "down", [Next]_vars, mpc' # "accept"
    PROVE  scan' = {} \/ (mpc # "accept" /\ scan' \subseteq scan)
<1> DEFINE Goal == scan' = {} \/ (mpc # "accept" /\ scan' \subseteq scan)
<1> USE DEF TypeOK, Go, mainVars, spoolVars, clientVars, printerVars,
        historyVars, boundVars
<1>1. ASSUME NEW j \in JobIds, ReadEntry(j) PROVE Goal
    BY <1>1 DEF ReadEntry, add_job
<1>2. CASE ScanFails
    BY <1>2 DEF ScanFails
<1>3. CASE Crash
    BY <1>3 DEF Crash
<1>4. CASE \/ Start \/ SignalEntry \/ EndScan \/ GetJob \/ SpuriousWakeup
           \/ update_jobno \/ OpenData \/ Connect \/ Send \/ Confirm
           \/ UnlinkData \/ UnlinkReq \/ Defer \/ Slept
           \/ \E c \in Clients : Accept(c) \/ ReadHeader(c) \/ get_newjobno(c)
           \/ \E c \in Clients : CreateData(c) \/ ReceiveData(c)
           \/ \E c \in Clients : CreateRequest(c)
           \/ \E c \in Clients : WriteRequest(c) \/ Respond(c) \/ AddJob(c)
           \/ \E c \in Clients : SignalJob(c)
           \/ UNCHANGED vars
    BY <1>4 DEF vars, Start, SignalEntry, signal_jobwait, EndScan, Accept,
        ReadHeader, get_newjobno, CreateData, ReceiveData, unlink_data,
        CreateRequest, WriteRequest, Respond, AddJob, add_job, SignalJob,
        GetJob, remove_job, SpuriousWakeup, update_jobno, OpenData, Connect,
        Send, Confirm, UnlinkData, UnlinkReq, Defer, replace_job, Slept
<1> QED
    BY <1>1, <1>2, <1>3, <1>4
    DEF Next, build_qonstart, client_thread, printer_thread

\* A job in the memory of a running daemon stays a good one.
LEMMA GoodJobStays ==
    ASSUME TypeOK, Numbering, mpc # "down", [Next]_vars, NEW job \in Jobs,
           GoodJob(job)
    PROVE  GoodJob(job)'
<1>1. job.jobid \in JobIds /\ job.req \in Clients
    BY DEF Jobs
<1>2. jobid'[job.req] = job.jobid
    BY <1>1, NumbersStay, NumberFacts DEF GoodJob
<1>3. cpc'[job.req] \in HandedOver
    BY <1>1, HandedOverStays DEF GoodJob
<1> QED
    BY <1>2, <1>3, ScanShrinks DEF GoodJob

\* Every way a job gets into memory leaves it a good one.
LEMMA JobsInMemoryStep ==
    TypeOK /\ Numbering /\ NamedFiles /\ Phases /\ JobsInMemory /\ [Next]_vars
        => JobsInMemory'
<1> SUFFICES ASSUME TypeOK, Numbering, NamedFiles, Phases, JobsInMemory,
                    [Next]_vars
             PROVE  JobsInMemory'
    OBVIOUS
<1>a. \A job \in Jobs : mpc # "down" /\ GoodJob(job) => GoodJob(job)'
    BY GoodJobStays
<1>b. TypeOK'
    BY TypeStep
<1> DEFINE QOk == \A i \in 1..Len(queue) : GoodJob(queue[i])
           JOk == jp # <<>> => GoodJob(jp[1])
<1>c. QOk /\ JOk
    BY DEF JobsInMemory
<1>d. mpc # "down" /\ queue' = queue => QOk'
    BY <1>a, <1>c DEF TypeOK
<1>e. mpc # "down" /\ jp' = jp => JOk'
  <2>1. jp # <<>> => jp[1] \in Jobs
    BY DEF TypeOK
  <2> QED
    BY <2>1, <1>a, <1>c
<1>f. QOk' /\ JOk' => JobsInMemory'
    BY DEF JobsInMemory
<1>g. ASSUME NEW job \in Jobs, mpc # "down", queue' = Append(queue, job),
             GoodJob(job)'
      PROVE  QOk'
  <2>1. \A i \in 1..Len(queue') :
           \/ i \in 1..Len(queue) /\ queue'[i] = queue[i] /\ queue[i] \in Jobs
           \/ queue'[i] = job
    BY <1>g DEF TypeOK
  <2> QED
    BY <1>a, <1>c, <1>g, <2>1
<1> HIDE DEF QOk, JOk
<1> USE DEF mainVars, spoolVars, clientVars, printerVars, historyVars,
            boundVars
<1>1. CASE Start
  <2>1. queue' = <<>> /\ jp' = <<>>
    BY <1>1 DEF Start, Phases, TypeOK
  <2> QED
    BY <2>1, <1>f DEF QOk, JOk
<1>2. ASSUME NEW j \in JobIds, ReadEntry(j) PROVE JobsInMemory'
  <2>1. mpc # "down" /\ jp' = jp
    BY <1>2 DEF ReadEntry
  <2>2. CASE queue' = queue
    BY <2>1, <2>2, <1>d, <1>e, <1>f
  <2>3. CASE queue' # queue
    <3>1. /\ reqs[j] # NoFile /\ scan' = scan \ {j} /\ mpc = "scan"
          /\ cpc' = cpc /\ jobid' = jobid
          /\ queue' = Append(queue, [jobid |-> j, req |-> reqs[j].by])
      BY <1>2, <2>3 DEF ReadEntry, add_job
    <3>2. reqs[j].by \in Clients /\ jobid[reqs[j].by] = j
      BY <3>1, FileFacts DEF NamedFiles, NamedFile, OwnName, TypeOK
    <3>3. cpc[reqs[j].by] \in HandedOver
      BY <3>1, <3>2, NumberFacts DEF Phases, Numbering, Unnumbered, HandedOver
    <3>4. PICK job \in Jobs : job = [jobid |-> j, req |-> reqs[j].by]
      BY <3>2 DEF Jobs
    <3>5. GoodJob(job)'
      BY <3>1, <3>2, <3>3, <3>4 DEF GoodJob
    <3>6. QOk'
      BY <2>1, <3>1, <3>4, <3>5, <1>g, <1>c DEF TypeOK
    <3> QED
      BY <3>6, <2>1, <1>e, <1>f
  <2> QED
    BY <2>2, <2>3
<1>3. CASE Crash
  <2>1. queue' = <<>> /\ jp' = <<>>
    BY <1>3 DEF Crash
  <2> QED
    BY <2>1, <1>f DEF QOk, JOk
<1>4. ASSUME NEW c \in Clients, AddJob(c) PROVE JobsInMemory'
  <2>1. mpc # "down" /\ jp' = jp
    BY <1>4 DEF AddJob, Phases, Go
  <2>2. PICK job \in Jobs : job = [jobid |-> jobid[c], req |-> c]
    BY <1>4 DEF Jobs, AddJob, Go, Numbering, Numbered, TypeOK
  <2>3. /\ queue' = Append(queue, job) /\ jobid' = jobid /\ mpc' = "accept"
        /\ cpc'[c] = "signal"
    BY <1>4, <2>2 DEF AddJob, add_job, Go, Phases, TypeOK
  <2>4. GoodJob(job)'
    BY <2>2, <2>3 DEF GoodJob, HandedOver
  <2>5. QOk'
    BY <2>1, <2>3, <2>4, <1>g, <1>c DEF TypeOK
  <2> QED
    BY <2>5, <2>1, <1>e, <1>f
<1>5. CASE GetJob
  <2>1. mpc # "down"
    BY <1>5 DEF GetJob, Phases
  <2>2. CASE queue = <<>>
    BY <1>5, <2>1, <2>2, <1>d, <1>e, <1>f DEF GetJob
  <2>3. CASE queue # <<>>
    <3>1. queue' = Tail(queue) /\ jp' = <<Head(queue)>> /\ Head(queue) \in Jobs
      BY <1>5, <2>3 DEF GetJob, remove_job, TypeOK
    <3>2. QOk'
      BY <2>1, <2>3, <3>1, <1>a, <1>c DEF QOk, TypeOK
    <3>3. GoodJob(Head(queue))
      BY <2>3, <1>c DEF QOk, TypeOK
    <3>4. JOk'
      BY <2>1, <3>1, <3>3, <1>a DEF JOk
    <3> QED
      BY <3>2, <3>4, <1>f
  <2> QED
    BY <2>2, <2>3
<1>6. CASE OpenData
  <2>1. mpc # "down" /\ queue' = queue /\ (jp' = jp \/ jp' = <<>>)
    BY <1>6 DEF OpenData, Phases
  <2> QED
    BY <2>1, <1>d, <1>e, <1>f DEF JOk
<1>7. CASE UnlinkReq
  <2>1. mpc # "down" /\ queue' = queue /\ jp' = <<>>
    BY <1>7 DEF UnlinkReq, Phases
  <2> QED
    BY <2>1, <1>d, <1>f DEF JOk
<1>8. CASE Defer
  <2>1. mpc # "down" /\ jp # <<>> /\ jp[1] \in Jobs
    BY <1>8 DEF Defer, Phases, TypeOK
  <2>2. queue' = <<jp[1]>> \o queue /\ jp' = <<>>
    BY <1>8 DEF Defer, replace_job
  <2>3. QOk'
    BY <2>1, <2>2, <1>a, <1>c DEF QOk, JOk, TypeOK
  <2> QED
    BY <2>2, <2>3, <1>f DEF JOk
<1>9. CASE \/ SignalEntry \/ EndScan \/ ScanFails \/ SpuriousWakeup \/ update_jobno
           \/ Connect \/ Send \/ Confirm \/ UnlinkData \/ Slept
           \/ \E c \in Clients : Accept(c) \/ ReadHeader(c) \/ get_newjobno(c)
           \/ \E c \in Clients : CreateData(c) \/ ReceiveData(c)
           \/ \E c \in Clients : CreateRequest(c)
           \/ \E c \in Clients : WriteRequest(c) \/ Respond(c) \/ SignalJob(c)
           \/ UNCHANGED vars
  <2>1. CASE UNCHANGED vars
    BY <2>1 DEF vars, JobsInMemory, GoodJob
  <2>2. CASE mpc # "down" /\ queue' = queue /\ jp' = jp
    BY <2>2, <1>d, <1>e, <1>f
  <2> QED
    BY <1>9, <2>1, <2>2
    DEF SignalEntry, EndScan, ScanFails, SpuriousWakeup, update_jobno, Connect,
        Send, Confirm, UnlinkData, Slept, Accept, ReadHeader, get_newjobno,
        CreateData, ReceiveData, CreateRequest, WriteRequest, Respond,
        SignalJob, Go, Phases
<1> QED
    BY <1>1, <1>2, <1>3, <1>4, <1>5, <1>6, <1>7, <1>8, <1>9
    DEF Next, build_qonstart, client_thread, printer_thread

\* The printer thread opens and sends files of its job's number.
LEMMA PrinterFilesStep ==
    TypeOK /\ Numbering /\ NamedFiles /\ JobsInMemory /\ PrinterFiles /\ [Next]_vars
        => PrinterFiles'
<1> SUFFICES ASSUME TypeOK, Numbering, NamedFiles, JobsInMemory, PrinterFiles,
                    [Next]_vars
             PROVE  PrinterFiles'
    OBVIOUS
<1> DEFINE n == jp[1].jobid
<1>a. ppc \notin {"off", "top", "wait", "sleep"} => n \in JobIds
    BY DEF TypeOK, Jobs
<1>b. \A f : n \in JobIds /\ OwnName(f, n) => f \in FileData /\ jobid'[f.by] = n
    BY OwnNameStays
<1>c. data \in [JobIds -> Files] /\ fd \in Files /\ NoFile \notin FileData
    BY DEF TypeOK
<1>d. jp' = jp => n' = n
    OBVIOUS
<1>e. n \in JobIds /\ data[n] # NoFile => OwnName(data[n], n)
    BY DEF NamedFiles, NamedFile
<1> HIDE DEF n
<1> USE <1>a, <1>b, <1>c, <1>d, FileFacts
    DEF PrinterFiles, OwnName, Go, mainVars, spoolVars, clientVars,
        printerVars, historyVars, boundVars
<1>1. CASE Start
    BY <1>1 DEF Start
<1>2. ASSUME NEW j \in JobIds, ReadEntry(j) PROVE PrinterFiles'
  <2>1. ppc \in {"connect", "send"} => n # j
    BY <1>2 DEF ReadEntry, JobsInMemory, GoodJob, TypeOK, n
  <2> QED
    BY <1>2, <2>1 DEF ReadEntry, n
<1>3. CASE Crash
    BY <1>3 DEF Crash
<1>4. ASSUME NEW c \in Clients, CreateData(c) PROVE PrinterFiles'
  <2>1. jobid[c] \in JobIds
    BY <1>4 DEF CreateData, Numbering, Numbered, TypeOK, Go
  <2> QED
    BY <1>4, <1>e, <2>1 DEF CreateData, unlink_data, n
<1>5. ASSUME NEW c \in Clients, ReceiveData(c) PROVE PrinterFiles'
  <2>1. jobid[c] \in JobIds
    BY <1>5 DEF ReceiveData, Numbering, Numbered, TypeOK, Go
  <2> QED
    BY <1>5, <1>e, <2>1 DEF ReceiveData, unlink_data, n
<1>6. ASSUME NEW c \in Clients, CreateRequest(c) PROVE PrinterFiles'
  <2>1. jobid[c] \in JobIds
    BY <1>6 DEF CreateRequest, Numbering, Numbered, TypeOK, Go
  <2> QED
    BY <1>6, <1>e, <2>1 DEF CreateRequest, unlink_data, n
<1>7. ASSUME NEW c \in Clients, WriteRequest(c) PROVE PrinterFiles'
  <2>1. jobid[c] \in JobIds
    BY <1>7 DEF WriteRequest, Numbering, Numbered, TypeOK, Go
  <2> QED
    BY <1>7, <1>e, <2>1 DEF WriteRequest, unlink_data, n
<1>8. CASE GetJob
    BY <1>8 DEF GetJob, remove_job
<1>9. CASE OpenData
    BY <1>9 DEF OpenData, n
<1>10. CASE Send
    BY <1>10, <1>e DEF Send, n
<1>11. CASE Confirm
    BY <1>11 DEF Confirm, n
<1>12. CASE UnlinkData
    BY <1>12 DEF UnlinkData, n
<1>13. CASE UnlinkReq
    BY <1>13 DEF UnlinkReq
<1>14. CASE Defer
    BY <1>14 DEF Defer, replace_job
<1>15. CASE \/ SignalEntry \/ EndScan \/ ScanFails \/ SpuriousWakeup \/ update_jobno
            \/ Connect \/ Slept
            \/ \E c \in Clients : Accept(c) \/ ReadHeader(c) \/ get_newjobno(c)
            \/ \E c \in Clients : Respond(c) \/ AddJob(c) \/ SignalJob(c)
            \/ UNCHANGED vars
    BY <1>15 DEF n, vars, SignalEntry, signal_jobwait, EndScan, ScanFails,
        SpuriousWakeup, update_jobno, Connect, Slept, Accept, ReadHeader,
        get_newjobno, Respond, AddJob, SignalJob
<1> QED
    BY <1>1, <1>2, <1>3, <1>4, <1>5, <1>6, <1>7, <1>8, <1>9, <1>10, <1>11,
       <1>12, <1>13, <1>14, <1>15
    DEF Next, build_qonstart, client_thread, printer_thread

\* What the printer confirms goes by the number it was sent under.
LEMMA PrintedFilesStep ==
    TypeOK /\ Numbering /\ JobsInMemory /\ PrinterFiles /\ PrintedFiles /\ [Next]_vars
        => PrintedFiles'
<1> SUFFICES ASSUME TypeOK, Numbering, JobsInMemory, PrinterFiles,
                    PrintedFiles, [Next]_vars
             PROVE  PrintedFiles'
    OBVIOUS
<1>a. ASSUME NEW job \in Jobs, NEW f, OwnName(f, job.jobid),
             jobid[job.req] = job.jobid
      PROVE  OwnName(f, job.jobid)' /\ jobid'[job.req] = job.jobid
  <2>1. job.jobid \in JobIds /\ job.req \in Clients
    BY DEF Jobs
  <2> QED
    BY <1>a, <2>1, OwnNameStays, NumbersStay, NumberFacts DEF OwnName
<1>b. ASSUME NEW p \in printed PROVE p.job \in Jobs
    BY DEF TypeOK
<1>c. printed' = printed => PrintedFiles'
    BY <1>a, <1>b DEF PrintedFiles
<1>1. CASE Confirm
  <2>1. PICK job \in Jobs : jp = <<job>>
    BY <1>1 DEF Confirm, TypeOK
  <2>2. OwnName(sent, job.jobid) /\ jobid[job.req] = job.jobid
    BY <1>1, <2>1 DEF Confirm, PrinterFiles, JobsInMemory, GoodJob
  <2>3. PICK f : f = sent
    OBVIOUS
  <2>4. printed' = printed \cup {[job |-> job, data |-> f]}
    BY <1>1, <2>1, <2>3 DEF Confirm
  <2>5. OwnName(f, job.jobid)' /\ jobid'[job.req] = job.jobid
    BY <1>a, <2>2, <2>3
  <2>6. ASSUME NEW p \in printed
        PROVE  OwnName(p.data, p.job.jobid)' /\ jobid'[p.job.req] = p.job.jobid
    BY <1>a, <1>b, <2>6 DEF PrintedFiles
  <2> QED
    BY <2>4, <2>5, <2>6 DEF PrintedFiles
<1>2. CASE \/ Start \/ SignalEntry \/ EndScan \/ ScanFails \/ Crash
           \/ GetJob \/ SpuriousWakeup \/ update_jobno \/ OpenData \/ Connect
           \/ Send \/ UnlinkData \/ UnlinkReq \/ Defer \/ Slept
           \/ \E j \in JobIds : ReadEntry(j)
           \/ \E c \in Clients : Accept(c) \/ ReadHeader(c) \/ get_newjobno(c)
           \/ \E c \in Clients : CreateData(c) \/ ReceiveData(c)
           \/ \E c \in Clients : CreateRequest(c)
           \/ \E c \in Clients : WriteRequest(c) \/ Respond(c) \/ AddJob(c)
           \/ \E c \in Clients : SignalJob(c)
           \/ UNCHANGED vars
    BY <1>2, <1>c
    DEF vars, mainVars, spoolVars, clientVars, printerVars, historyVars,
        boundVars, Start, ReadEntry, SignalEntry, EndScan, ScanFails, Crash,
        GetJob, SpuriousWakeup, update_jobno, OpenData, Connect, Send,
        UnlinkData, UnlinkReq, Defer, Slept, Accept, ReadHeader, get_newjobno,
        CreateData, ReceiveData, CreateRequest, WriteRequest, Respond, AddJob,
        SignalJob
<1> QED
    BY <1>1, <1>2
    DEF Next, build_qonstart, client_thread, printer_thread

\* Numbers are never taken back, so a number two clients had stays shared.
LEMMA ReusedStays ==
    ASSUME TypeOK, Numbering, [Next]_vars, NEW j \in JobIds, Reused(j)
    PROVE  Reused(j)'
BY NumbersStay, NumberFacts DEF Reused

\* The files of a client that has its number to itself are touched by its own
\* thread, and by the printer thread once the printer confirmed them.
LEMMA ClientFilesStep ==
    ASSUME IndInv, [Next]_vars, NEW k \in Clients, jobid[k] # NoNumber,
           ~Reused(jobid[k])
    PROVE  ClientFiles(k)'
<1> DEFINE n == jobid[k]
<1>a. TypeOK /\ Numbering /\ NamedFiles /\ Phases /\ JobsInMemory /\ PrinterFiles
    BY DEF IndInv
<1>b. /\ n \in JobIds /\ data \in [JobIds -> Files] /\ reqs \in [JobIds -> Files]
      /\ cpc \in [Clients -> ClientPcs] /\ jobid \in [Clients -> JobIds \cup {NoNumber}]
      /\ acked \subseteq Clients
    BY <1>a DEF TypeOK
<1>c. \A d \in Clients : jobid[d] = n => d = k
    BY DEF Reused
<1>d. ClientFiles(k)
    BY DEF IndInv, OwnFiles
<1>e. n' = n
    BY <1>a, <1>b, NumbersStay, NumberFacts
<1> HIDE DEF n
\* What ClientFiles says, in terms of n.
<1> DEFINE Mine == data[n] \in {Part(k), Whole(k)}
           Kept == reqs[n] = Whole(k)
           Files1 == cpc[k] \in {"receive", "control", "request"} => Mine
           Files2 == cpc[k] = "request" => reqs[n] = Part(k)
           Files3 == cpc[k] = "respond" => Mine /\ Kept
           Files4 == k \in acked => k \in unread \/ Confirmed(k) \/ (Mine /\ Kept)
<1>f. Files1 /\ Files2 /\ Files3 /\ Files4
    BY <1>d DEF ClientFiles, MyData, Spooled, n
<1>g. SUFFICES Files1' /\ Files2' /\ Files3' /\ Files4'
    BY <1>e DEF ClientFiles, MyData, Spooled, n
<1>h. printed \subseteq printed' => (Confirmed(k) => Confirmed(k)')
    BY DEF Confirmed
<1>i. k \in acked => cpc[k] \in {"add", "signal", "done", "dead"}
    BY <1>a DEF Numbering
<1> USE <1>b, <1>e, <1>f, <1>h, <1>i, FileFacts
    DEF ClientPcs, Go, mainVars, spoolVars, clientVars, printerVars,
        historyVars, boundVars
\* A printer thread about to unlink the files of number n had them confirmed.
<1>j. ppc \in {"unlinkData", "unlinkReq"} /\ jp[1].jobid = n
         => cpc[k] \in HandedOver /\ Confirmed(k)
  <2> SUFFICES ASSUME ppc \in {"unlinkData", "unlinkReq"}, jp[1].jobid = n
               PROVE  cpc[k] \in HandedOver /\ Confirmed(k)
    OBVIOUS
  <2>1. PICK job \in Jobs : jp = <<job>>
    BY <1>a DEF TypeOK
  <2>2. job.req \in Clients /\ jobid[job.req] = n /\ cpc[job.req] \in HandedOver
    BY <1>a, <2>1 DEF JobsInMemory, GoodJob, Jobs
  <2>3. /\ sent \in FileData /\ jobid[sent.by] = n
        /\ [job |-> job, data |-> sent] \in printed
    BY <1>a, <2>1 DEF PrinterFiles, OwnName
  <2>4. sent \in {Part(k), Whole(k)}
    BY <2>3, <1>c DEF Files
  <2>5. Confirmed(k)
    BY <2>3, <2>4 DEF Confirmed
  <2> QED
    BY <2>2, <2>5, <1>c
<1>1. ASSUME NEW j \in JobIds, ReadEntry(j)
      PROVE  Files1' /\ Files2' /\ Files3' /\ Files4'
  <2>1. cpc[k] \in {"none", "done", "refused", "dead"} /\ UNCHANGED <<cpc, acked, printed>>
    BY <1>1, <1>a DEF ReadEntry, Phases
  <2>2. ASSUME reqs[n] = Whole(k)
        PROVE  k \in unread' \/ (data'[n] = data[n] /\ reqs'[n] = reqs[n])
    <3>1. CASE j # n
      BY <1>1, <3>1 DEF ReadEntry
    <3>2. CASE j = n /\ UNCHANGED spoolVars
      BY <3>2
    <3>3. CASE j = n /\ ~UNCHANGED spoolVars
      BY <1>1, <2>2, <3>3 DEF ReadEntry
    <3> QED
      BY <3>1, <3>2, <3>3
  <2>3. unread \subseteq unread'
    BY <1>1 DEF ReadEntry
  <2> QED
    BY <2>1, <2>2, <2>3
<1>2. CASE Crash
    BY <1>2 DEF Crash
<1>3. ASSUME NEW c \in Clients, Accept(c)
      PROVE  Files1' /\ Files2' /\ Files3' /\ Files4'
    BY <1>3 DEF Accept
<1>4. ASSUME NEW c \in Clients, ReadHeader(c)
      PROVE  Files1' /\ Files2' /\ Files3' /\ Files4'
    BY <1>4 DEF ReadHeader
<1>5. ASSUME NEW c \in Clients, get_newjobno(c)
      PROVE  Files1' /\ Files2' /\ Files3' /\ Files4'
    BY <1>5 DEF get_newjobno
<1>6. ASSUME NEW c \in Clients, CreateData(c)
      PROVE  Files1' /\ Files2' /\ Files3' /\ Files4'
  <2>1. CASE c = k
    BY <1>6, <2>1 DEF CreateData, n
  <2>2. CASE c # k
    <3>1. jobid[c] # n
      BY <2>2, <1>c
    <3>2. cpc'[k] = cpc[k] /\ data'[n] = data[n] /\ reqs'[n] = reqs[n]
      BY <1>6, <2>2, <3>1 DEF CreateData
    <3> QED
      BY <1>6, <3>2 DEF CreateData
  <2> QED
    BY <2>1, <2>2
<1>7. ASSUME NEW c \in Clients, ReceiveData(c)
      PROVE  Files1' /\ Files2' /\ Files3' /\ Files4'
  <2>1. CASE c = k
    BY <1>7, <2>1 DEF ReceiveData, unlink_data, n
  <2>2. CASE c # k
    <3>1. jobid[c] # n
      BY <2>2, <1>c
    <3>2. cpc'[k] = cpc[k] /\ data'[n] = data[n] /\ reqs'[n] = reqs[n]
      BY <1>7, <2>2, <3>1 DEF ReceiveData, unlink_data
    <3> QED
      BY <1>7, <3>2 DEF ReceiveData
  <2> QED
    BY <2>1, <2>2
<1>8. ASSUME NEW c \in Clients, CreateRequest(c)
      PROVE  Files1' /\ Files2' /\ Files3' /\ Files4'
  <2>1. CASE c = k
    BY <1>8, <2>1 DEF CreateRequest, unlink_data, n
  <2>2. CASE c # k
    <3>1. jobid[c] # n
      BY <2>2, <1>c
    <3>2. cpc'[k] = cpc[k] /\ data'[n] = data[n] /\ reqs'[n] = reqs[n]
      BY <1>8, <2>2, <3>1 DEF CreateRequest, unlink_data
    <3> QED
      BY <1>8, <3>2 DEF CreateRequest
  <2> QED
    BY <2>1, <2>2
<1>9. ASSUME NEW c \in Clients, WriteRequest(c)
      PROVE  Files1' /\ Files2' /\ Files3' /\ Files4'
  <2>1. CASE c = k
    BY <1>9, <2>1 DEF WriteRequest, unlink_data, n
  <2>2. CASE c # k
    <3>1. jobid[c] # n
      BY <2>2, <1>c
    <3>2. cpc'[k] = cpc[k] /\ data'[n] = data[n] /\ reqs'[n] = reqs[n]
      BY <1>9, <2>2, <3>1 DEF WriteRequest, unlink_data
    <3> QED
      BY <1>9, <3>2 DEF WriteRequest
  <2> QED
    BY <2>1, <2>2
<1>10. ASSUME NEW c \in Clients, Respond(c)
       PROVE  Files1' /\ Files2' /\ Files3' /\ Files4'
    BY <1>10 DEF Respond
<1>11. ASSUME NEW c \in Clients, AddJob(c)
       PROVE  Files1' /\ Files2' /\ Files3' /\ Files4'
    BY <1>11 DEF AddJob, add_job
<1>12. ASSUME NEW c \in Clients, SignalJob(c)
       PROVE  Files1' /\ Files2' /\ Files3' /\ Files4'
    BY <1>12 DEF SignalJob, signal_jobwait
<1>13. CASE Confirm
    BY <1>13 DEF Confirm
<1>14. CASE UnlinkData
  <2>1. jp[1].jobid = n => cpc[k] \in HandedOver /\ Confirmed(k)
    BY <1>14, <1>j DEF UnlinkData
  <2>2. jp[1].jobid # n => data'[n] = data[n]
    BY <1>14 DEF UnlinkData
  <2> QED
    BY <1>14, <2>1, <2>2 DEF UnlinkData, HandedOver
<1>15. CASE UnlinkReq
  <2>1. jp[1].jobid = n => cpc[k] \in HandedOver /\ Confirmed(k)
    BY <1>15, <1>j DEF UnlinkReq
  <2>2. jp[1].jobid # n => reqs'[n] = reqs[n]
    BY <1>15 DEF UnlinkReq
  <2> QED
    BY <1>15, <2>1, <2>2 DEF UnlinkReq, HandedOver
<1>16. CASE \/ Start \/ SignalEntry \/ EndScan \/ ScanFails \/ GetJob
            \/ SpuriousWakeup \/ update_jobno \/ OpenData \/ Connect \/ Send
            \/ Defer \/ Slept
            \/ UNCHANGED vars
    BY <1>16 DEF vars, Start, SignalEntry, signal_jobwait, EndScan,
        ScanFails, GetJob, remove_job, SpuriousWakeup, update_jobno,
        OpenData, Connect, Send, Defer, replace_job, Slept
<1> QED
    BY <1>1, <1>2, <1>3, <1>4, <1>5, <1>6, <1>7, <1>8, <1>9, <1>10, <1>11,
       <1>12, <1>13, <1>14, <1>15, <1>16
    DEF Next, build_qonstart, client_thread, printer_thread

\* A client's files are in order as long as its number is its own.
LEMMA OwnFilesStep == IndInv /\ [Next]_vars => OwnFiles'
<1> SUFFICES ASSUME IndInv, [Next]_vars, NEW k \in Clients, ~Reused(jobid[k])'
             PROVE  ClientFiles(k)'
    BY DEF OwnFiles
<1>a. TypeOK /\ Numbering
    BY DEF IndInv
<1>b. Numbering'
    BY <1>a, NumberingStep
<1>1. CASE jobid[k] # NoNumber
  <2>1. jobid[k] \in JobIds /\ jobid'[k] = jobid[k]
    BY <1>a, <1>1, NumbersStay DEF TypeOK
  <2>2. ~Reused(jobid[k])
    BY <1>a, <2>1, ReusedStays
  <2> QED
    BY <1>1, <2>2, ClientFilesStep
<1>2. CASE jobid[k] = NoNumber
  <2>1. cpc[k] \notin Numbered /\ k \notin acked
    BY <1>a, <1>2 DEF Numbering
  <2>2. cpc'[k] \notin {"receive", "control", "request", "respond"}
           /\ k \notin acked'
    BY <1>a, <2>1, NewcomerStep DEF Numbered
  <2> QED
    BY <2>2 DEF ClientFiles
<1> QED
    BY <1>1, <1>2

-----------------------------------------------------------------------------
\* UnreadByFault is inductive: a read that fails is counted.
LEMMA UnreadStep == TypeOK /\ UnreadByFault /\ [Next]_vars => UnreadByFault'
<1> SUFFICES ASSUME TypeOK, UnreadByFault, [Next]_vars PROVE UnreadByFault'
    OBVIOUS
<1>a. faults \in Nat
    BY DEF TypeOK
<1> USE DEF UnreadByFault, mainVars, spoolVars, clientVars, printerVars,
            historyVars, boundVars
<1>1. ASSUME NEW j \in JobIds, ReadEntry(j) PROVE UnreadByFault'
    BY <1>1, <1>a DEF ReadEntry
<1>2. CASE ScanFails \/ OpenData
    BY <1>2, <1>a DEF ScanFails, OpenData
<1>3. CASE \/ Start \/ SignalEntry \/ EndScan \/ SpuriousWakeup \/ Crash
           \/ (printer_thread /\ ~OpenData) \/ UNCHANGED vars
    BY <1>3
    DEF vars, Start, SignalEntry, EndScan, SpuriousWakeup, Crash, printer_thread,
        GetJob, update_jobno, Connect, Send, Confirm, UnlinkData, UnlinkReq,
        Defer, Slept
<1>4. ASSUME NEW c \in Clients, Accept(c) \/ client_thread(c) PROVE UnreadByFault'
    BY <1>4
    DEF client_thread, Accept, ReadHeader, get_newjobno, CreateData, ReceiveData,
        CreateRequest, WriteRequest, Respond, AddJob, SignalJob
<1> QED
    BY <1>1, <1>2, <1>3, <1>4 DEF Next, build_qonstart

\* The inductive invariant holds when the daemon is first started.
LEMMA IndInvInit == Init => IndInv
BY TypeInit
DEF Init, IndInv, Numbering, Unnumbered, Numbered, NamedFiles, NamedFile, Phases,
    JobsInMemory, PrinterFiles, PrintedFiles, OwnFiles, ClientFiles, UnreadByFault

\* The inductive invariant is kept by every step.
LEMMA IndInvStep == IndInv /\ [Next]_vars => IndInv'
BY TypeStep, NumberingStep, NamedFilesStep, PhasesStep, JobsInMemoryStep,
   PrinterFilesStep, PrintedFilesStep, OwnFilesStep, UnreadStep DEF IndInv

\* The invariant that Printd's safety theorems rest on.
THEOREM Invariance == Spec => []IndInv
BY IndInvInit, IndInvStep, PTL DEF Spec

\* The variables of the daemon keep their types: TypeOK of Printd.
THEOREM TypeCorrect == Spec => []TypeOK
<1>1. IndInv => TypeOK
    BY DEF IndInv
<1> QED
    BY <1>1, Invariance, PTL

\* A job that client_thread told its client was accepted is in the spool until
\* the printer confirmed it, whenever the daemon crashes and however often,
\* unless the number of the job was handed out twice or build_qonstart failed to
\* read the job's request.
THEOREM AcceptedJobsAreDurable == Spec => []Durable
<1>1. IndInv => Durable
    BY DEF IndInv, TypeOK, OwnFiles, ClientFiles, Durable
<1> QED
    BY <1>1, Invariance, PTL

\* printer_thread sends a job's data under the headers of the client it came
\* from, unless the number of the job was handed out twice.
THEOREM JobsAreSentWhole == Spec => []HeadersMatchData
<1>1. ASSUME IndInv, NEW p \in printed
      PROVE  p.data \in FileData /\ (p.data.by = p.job.req \/ Reused(p.job.jobid))
  <2>1. /\ p.data \in FileData /\ jobid[p.data.by] = p.job.jobid
        /\ jobid[p.job.req] = p.job.jobid
    BY <1>1 DEF IndInv, PrintedFiles, OwnName
  <2>2. p.data.by \in Clients /\ p.job.req \in Clients
    BY <1>1, <2>1 DEF IndInv, TypeOK, Jobs, FileData
  <2> QED
    BY <2>1, <2>2 DEF Reused
<1>2. IndInv => HeadersMatchData
    BY <1>1 DEF HeadersMatchData
<1> QED
    BY <1>2, Invariance, PTL

-----------------------------------------------------------------------------
(* The job queue. *)

IsPending(job) == \E i \in 1..Len(Pending) : Pending[i] = job

\* An accepted job that is not printed is on the list, or will be: its client
\* is about to add it, or build_qonstart has its request file still to read.
Remembered ==
    mpc # "down" /\ faults = 0 =>
        \A c \in acked : \/ cpc[c] = "add" \/ Reused(jobid[c]) \/ Confirmed(c)
                         \/ mpc # "accept" /\ jobid[c] \in scan
                         \/ IsPending(JobOf(c))

\* The first start of the daemon finds no request to queue.
FirstStart ==
    crashes = 0 =>
        /\ \A c \in Clients : cpc[c] # "dead"
        /\ mpc # "accept" => /\ \A c \in Clients : cpc[c] = "none"
                             /\ \A j \in JobIds : reqs[j] = NoFile
                             /\ scan = {}

\* Before the first crash the jobs that are pending, printed or dropped are of
\* clients whose threads went through add_job, and told their clients before.
Added == {"signal", "done"}

AddedJobs ==
    /\ \A c \in Clients : cpc[c] \in Added \cup {"add"} => c \in acked
    /\ crashes = 0 =>
          /\ unread = {}
          /\ \A i \in 1..Len(Pending) : cpc[Pending[i].req] \in Added
          /\ \A p \in printed : cpc[p.job.req] \in Added
          /\ \A job \in canceled : cpc[job.req] \in Added /\ jobid[job.req] = job.jobid

\* Before the first crash a pending job has its data file, until printer_thread
\* unlinks it.
PendingHasData ==
    crashes = 0 =>
        \A i \in 1..Len(Pending) :
            LET j == Pending[i].jobid
            IN  \/ Reused(j)
                \/ IF ppc = "unlinkReq" /\ i = 1 THEN data[j] = NoFile
                                                ELSE data[j] # NoFile

\* Before the first crash and fault a file in the spool has somebody who will
\* remove it: the thread that makes it, or a pending job.
Accountable(j, pcs) ==
    \/ \E c \in Clients : jobid[c] = j /\ cpc[c] \in pcs
    \/ \E i \in 1..Len(Pending) : Pending[i].jobid = j

AccountedFiles ==
    crashes = 0 /\ faults = 0 =>
        \A j \in JobIds :
            \/ Reused(j)
            \/ /\ data[j] # NoFile =>
                     Accountable(j, {"receive", "control", "request", "respond", "add"})
               /\ reqs[j] # NoFile => Accountable(j, {"request", "respond", "add"})

\* Before the first crash a job that is settled has left the line.
Unsettled ==
    crashes = 0 =>
        \A i \in DOMAIN InLine :
            \/ Reused(InLine[i].jobid)
            \/ ~Confirmed(InLine[i].req) /\ InLine[i] \notin canceled

QueueInv == /\ IndInv /\ NoDuplicates /\ Remembered /\ FirstStart /\ AddedJobs
            /\ PendingHasData /\ AccountedFiles /\ Unsettled

-----------------------------------------------------------------------------
USE MaxJobAssumption, BaseAssumption, MaxCrashesAssumption, MaxFaultsAssumption,
    NoFileAssumption

\* How a job joins the line: build_qonstart reads its request file, or its
\* client's thread calls add_job.
Joins(job) ==
    \/ ReadEntry(job.jobid) /\ reqs[job.jobid] = Whole(job.req)
    \/ AddJob(job.req) /\ jobid[job.req] = job.jobid

\* The list and the job in hand are a sequence of jobs, the one in hand first.
LEMMA PendingType ==
    ASSUME TypeOK
    PROVE  /\ Pending \in Seq(Jobs)
           /\ jp = <<>> => Pending = queue
           /\ jp # <<>> => /\ jp[1] \in Jobs /\ Pending # <<>>
                           /\ Head(Pending) = jp[1] /\ Pending[1] = jp[1]
                           /\ Tail(Pending) = queue
<1>1. CASE jp = <<>>
  <2>1. queue \in Seq(Jobs)
    BY DEF TypeOK
  <2>2. Pending = queue
    BY <1>1, <2>1, ConcatEmptySeq DEF Pending
  <2> QED
    BY <1>1, <2>1, <2>2
<1>2. CASE jp # <<>>
  <2>1. PICK job \in Jobs : jp = <<job>>
    BY <1>2 DEF TypeOK
  <2>2. queue \in Seq(Jobs) /\ Pending = <<job>> \o queue
    BY <2>1 DEF TypeOK, Pending
  <2>3. Pending # <<>> /\ Pending[1] = job /\ Head(Pending) = job /\ Pending \in Seq(Jobs)
    BY <2>2
  <2>4. Tail(Pending) = queue
    BY <2>2
  <2> QED
    BY <1>2, <2>1, <2>3, <2>4
<1> QED
    BY <1>1, <1>2

\* A job added to the list is added to the end of the line.
LEMMA PendingGrows ==
    ASSUME TypeOK, NEW job \in Jobs, queue' = Append(queue, job), jp' = jp
    PROVE  Pending' = Append(Pending, job)
<1>1. queue \in Seq(Jobs) /\ Append(queue, job) \in Seq(Jobs)
    BY JobAppend DEF TypeOK
<1>2. CASE jp = <<>>
  <2>1. Pending = queue
    BY <1>2, PendingType
  <2> QED
    BY <1>1, <1>2, <2>1, ConcatEmptySeq DEF Pending
<1>3. CASE jp # <<>>
  <2>1. PICK first \in Jobs : jp = <<first>>
    BY <1>3 DEF TypeOK
  <2>2. Pending = <<first>> \o queue /\ Pending' = <<first>> \o Append(queue, job)
    BY <2>1 DEF Pending
  <2> QED
    BY <1>1, <2>2
<1> QED
    BY <1>2, <1>3

\* GetJob, remove_job and replace_job leave the line as it is; only add_job,
\* the end of a job, and a crash change it.
LEMMA PendingStep ==
    ASSUME TypeOK, Numbering, Phases, [Next]_vars
    PROVE  \/ Pending' = Pending
           \/ \E job \in Jobs : Pending' = Append(Pending, job) /\ jp' = jp /\ Joins(job)
           \/ Pending' = <<>> /\ Crash
           \/ /\ Pending # <<>> /\ jp # <<>> /\ jp' = <<>>
              /\ Pending' = Tail(Pending) /\ (OpenData \/ UnlinkReq)
<1> DEFINE Goal == \/ Pending' = Pending
                   \/ \E job \in Jobs : Pending' = Append(Pending, job) /\ jp' = jp /\ Joins(job)
                   \/ Pending' = <<>> /\ Crash
                   \/ /\ Pending # <<>> /\ jp # <<>> /\ jp' = <<>>
                      /\ Pending' = Tail(Pending) /\ (OpenData \/ UnlinkReq)
<1>a. TypeOK'
    BY TypeStep
<1>b. queue' = queue /\ jp' = jp => Pending' = Pending
    BY DEF Pending
<1> USE DEF mainVars, spoolVars, clientVars, printerVars, historyVars, boundVars
<1>1. ASSUME NEW j \in JobIds, ReadEntry(j) PROVE Goal
  <2>1. jp' = jp
    BY <1>1 DEF ReadEntry
  <2>2. CASE queue' # queue
    <3> USE <2>2
    <3>a. reqs[j] # NoFile /\ reqs[j].whole
      BY <1>1 DEF ReadEntry
    <3>1. reqs[j] \in Files
      BY DEF TypeOK
    <3>2. reqs[j].by \in Clients /\ reqs[j] = Whole(reqs[j].by)
      BY <3>a, <3>1, FileFacts
    <3>3. PICK job \in Jobs : job = [jobid |-> j, req |-> reqs[j].by]
      BY <3>2, JobFacts
    <3>4. queue' = Append(queue, job)
      BY <1>1, <2>2, <3>3 DEF ReadEntry, add_job
    <3>5. job.jobid = j /\ job.req = reqs[j].by
      BY <3>3
    <3>6. Joins(job)
      BY <1>1, <3>2, <3>5 DEF Joins
    <3> QED
      BY <2>1, <3>4, <3>6, PendingGrows
  <2>3. CASE queue' = queue
    BY <2>1, <2>3, <1>b
  <2> QED
    BY <2>2, <2>3
<1>2. ASSUME NEW c \in Clients, AddJob(c) PROVE Goal
  <2>1. jp' = jp
    BY <1>2 DEF AddJob
  <2>2. jobid[c] \in JobIds
    BY <1>2 DEF AddJob, Go, Numbering, Numbered, TypeOK
  <2>3. PICK job \in Jobs : job = [jobid |-> jobid[c], req |-> c]
    BY <2>2, JobFacts
  <2>4. queue' = Append(queue, job) /\ job.jobid = jobid[c] /\ job.req = c
    BY <1>2, <2>3 DEF AddJob, add_job
  <2>5. Joins(job)
    BY <1>2, <2>4 DEF Joins
  <2> QED
    BY <2>1, <2>4, <2>5, PendingGrows
<1>3. CASE Crash
  <2>1. Pending' = <<>>
    BY <1>3, <1>a, PendingType DEF Crash, Pending
  <2> QED
    BY <2>1, <1>3
<1>4. CASE GetJob
  <2>1. CASE queue = <<>>
    BY <1>4, <2>1, <1>b DEF GetJob
  <2>2. CASE queue # <<>>
    <3>1. queue' = Tail(queue) /\ jp' = <<Head(queue)>> /\ jp = <<>>
      BY <1>4, <2>2 DEF GetJob, remove_job, TypeOK
    <3>2. PICK q \in Seq(Jobs) : q = queue
      BY DEF TypeOK
    <3>3. q = <<Head(q)>> \o Tail(q)
      BY <2>2, <3>2
    <3>4. Pending' = <<Head(q)>> \o Tail(q)
      BY <3>1, <3>2 DEF Pending
    <3>5. Pending = q
      BY <3>1, <3>2, PendingType
    <3> QED
      BY <3>3, <3>4, <3>5
  <2> QED
    BY <2>1, <2>2
<1>5. CASE Defer
  <2>1. jp # <<>>
    BY <1>5 DEF Defer, TypeOK
  <2>2. PICK job \in Jobs : jp = <<job>>
    BY <2>1 DEF TypeOK
  <2>3. queue' = <<job>> \o queue /\ jp' = <<>>
    BY <1>5, <2>2 DEF Defer, replace_job
  <2>4. Pending' = queue'
    BY <1>a, <2>3, PendingType DEF Pending, TypeOK
  <2>5. Pending = <<job>> \o queue
    BY <2>2 DEF Pending
  <2> QED
    BY <2>3, <2>4, <2>5
<1>6. CASE OpenData \/ UnlinkReq
  <2>1. queue' = queue /\ (jp' = jp \/ jp' = <<>>) /\ jp # <<>>
    BY <1>6 DEF OpenData, UnlinkReq, TypeOK
  <2>2. CASE jp' = jp
    BY <2>1, <2>2, <1>b
  <2>3. CASE jp' = <<>>
    <3>1. Pending' = queue'
      BY <1>a, <2>3, PendingType DEF Pending, TypeOK
    <3> QED
      BY <1>6, <2>1, <2>3, <3>1, PendingType
  <2> QED
    BY <2>1, <2>2, <2>3
<1>7. CASE \/ Start \/ SignalEntry \/ EndScan \/ ScanFails \/ SpuriousWakeup
           \/ update_jobno \/ Connect \/ Send \/ Confirm \/ UnlinkData \/ Slept
           \/ \E c \in Clients : Accept(c) \/ ReadHeader(c) \/ get_newjobno(c)
           \/ \E c \in Clients : CreateData(c) \/ ReceiveData(c)
           \/ \E c \in Clients : CreateRequest(c)
           \/ \E c \in Clients : WriteRequest(c) \/ Respond(c) \/ SignalJob(c)
           \/ UNCHANGED vars
  <2>1. queue' = queue /\ jp' = jp
    BY <1>7
    DEF vars, Start, SignalEntry, EndScan, ScanFails, SpuriousWakeup,
        update_jobno, Connect, Send, Confirm, UnlinkData, Slept, Accept,
        ReadHeader, get_newjobno, CreateData, ReceiveData, CreateRequest,
        WriteRequest, Respond, SignalJob
  <2> QED
    BY <2>1, <1>b
<1> QED
    BY <1>1, <1>2, <1>3, <1>4, <1>5, <1>6, <1>7
    DEF Next, build_qonstart, client_thread, printer_thread

\* What is known of the jobs in memory holds for the whole line.
LEMMA GoodPending ==
    ASSUME TypeOK, JobsInMemory, NEW i \in 1..Len(Pending)
    PROVE  /\ Pending[i] \in Jobs /\ GoodJob(Pending[i])
           /\ Pending[i].jobid \in JobIds /\ Pending[i].req \in Clients
<1>1. Pending[i] \in Jobs
    BY PendingType
<1>2. CASE jp = <<>>
  <2>1. Pending = queue
    BY <1>2, PendingType
  <2> QED
    BY <1>1, <2>1 DEF JobsInMemory, Jobs
<1>3. CASE jp # <<>>
  <2>1. CASE i = 1
    <3>1. Pending[i] = jp[1]
      BY <1>3, <2>1, PendingType
    <3> QED
      BY <1>1, <1>3, <3>1 DEF JobsInMemory, Jobs
  <2>2. CASE i # 1
    <3>1. PICK p \in Seq(Jobs) : p = Pending
      BY PendingType
    <3>2. p # <<>> /\ Tail(p) = queue
      BY <1>3, <3>1, PendingType
    <3>3. i \in 1..Len(p) /\ i # 1
      BY <2>2, <3>1
    <3>4. i - 1 \in 1..Len(queue) /\ queue[i - 1] = p[i]
      BY <3>2, <3>3
    <3> QED
      BY <3>4, <3>1, <1>1 DEF JobsInMemory, Jobs
  <2> QED
    BY <2>1, <2>2, <1>1 DEF Jobs
<1> QED
    BY <1>1, <1>2, <1>3 DEF Jobs

\* A job that joins the line is not in it already, unless its number was given
\* to two clients: build_qonstart reads every file once, and before any thread
\* adds jobs.
LEMMA JoinsOnce ==
    ASSUME TypeOK, JobsInMemory, NEW job \in Jobs, Joins(job),
           NEW i \in 1..Len(Pending), Pending[i].jobid = job.jobid
    PROVE  Reused(job.jobid)
<1>1. GoodJob(Pending[i]) /\ Pending[i].req \in Clients
    BY GoodPending
<1>2. CASE ReadEntry(job.jobid)
    BY <1>1, <1>2 DEF ReadEntry, GoodJob
<1>3. CASE AddJob(job.req) /\ jobid[job.req] = job.jobid
  <2>1. cpc[job.req] = "add" /\ job.req \in Clients
    BY <1>3 DEF AddJob, Go, Jobs
  <2>2. Pending[i].req # job.req
    BY <1>1, <2>1 DEF GoodJob, HandedOver
  <2> QED
    BY <1>1, <1>3, <2>1, <2>2 DEF GoodJob, Reused
<1> QED
    BY <1>2, <1>3 DEF Joins

\* The elements of a line that grew or shrank by one job.
LEMMA LineElements ==
    ASSUME NEW q \in Seq(Jobs), NEW job \in Jobs
    PROVE  /\ Len(Append(q, job)) = Len(q) + 1
           /\ \A i \in 1..Len(q) : Append(q, job)[i] = q[i]
           /\ Append(q, job)[Len(q) + 1] = job
           /\ q # <<>> => /\ Len(Tail(q)) + 1 = Len(q)
                          /\ \A i \in 1..Len(Tail(q)) : /\ i + 1 \in 1..Len(q)
                                                        /\ Tail(q)[i] = q[i + 1]
OBVIOUS

\* No step puts a job on the list twice.
LEMMA NoDuplicatesStep == IndInv /\ NoDuplicates /\ [Next]_vars => NoDuplicates'
<1> SUFFICES ASSUME IndInv, NoDuplicates, [Next]_vars PROVE NoDuplicates'
    OBVIOUS
<1>a. TypeOK /\ Numbering /\ Phases /\ JobsInMemory
    BY DEF IndInv
<1>b. \A j \in JobIds : Reused(j) => Reused(j)'
    BY <1>a, ReusedStays
<1>c. \A m \in 1..Len(Pending) : Pending[m] \in Jobs /\ Pending[m].jobid \in JobIds
    BY <1>a, GoodPending
<1>d. \A m, n \in 1..Len(Pending), j \in JobIds :
          m # n /\ Pending[m].jobid = j /\ Pending[n].jobid = j => Reused(j)'
    BY <1>b DEF NoDuplicates
<1>e. Pending \in Seq(Jobs)
    BY <1>a, PendingType
<1>f. Pending' \in Seq(Jobs)
  <2>1. \A job \in Jobs : Append(Pending, job) \in Seq(Jobs)
    BY <1>e, JobAppend
  <2>2. <<>> \in Seq(Jobs) /\ (Pending # <<>> => Tail(Pending) \in Seq(Jobs))
    BY <1>e
  <2> QED
    BY <1>a, <1>e, <2>1, <2>2, PendingStep
<1>g. SUFFICES ASSUME NEW i \in 1..Len(Pending'), NEW k \in 1..Len(Pending'),
                      i # k, NEW j \in JobIds,
                      Pending'[i].jobid = j, Pending'[k].jobid = j
               PROVE  Reused(j)'
  <2>1. PICK q \in Seq(Jobs) : q = Pending'
    BY <1>f
  <2>2. \A m \in 1..Len(q) : q[m] \in Jobs
    OBVIOUS
  <2>3. \A m \in 1..Len(Pending') : Pending'[m].jobid \in JobIds
    BY <2>1, <2>2 DEF Jobs
  <2> QED
    BY <2>3 DEF NoDuplicates
<1>1. CASE Pending' = Pending
    BY <1>1, <1>d, <1>g
<1>2. ASSUME NEW job \in Jobs, Pending' = Append(Pending, job), Joins(job)
      PROVE  Reused(j)'
  <2>1. \A m \in 1..Len(Pending) :
            Pending[m].jobid = j /\ job.jobid = j => Reused(j)'
    BY <1>a, <1>b, <1>2, JoinsOnce DEF Jobs
  <2>2. \A m \in 1..Len(Pending') :
            \/ m \in 1..Len(Pending) /\ Pending'[m] = Pending[m]
            \/ m = Len(Pending) + 1 /\ Pending'[m] = job
    BY <1>2, <1>e, LineElements
  <2> QED
    BY <2>1, <2>2, <1>d, <1>g
<1>3. CASE Pending' = <<>>
    BY <1>3, <1>g
<1>4. CASE Pending # <<>> /\ Pending' = Tail(Pending)
  <2>1. \A m \in 1..Len(Pending') :
            m + 1 \in 1..Len(Pending) /\ Pending'[m] = Pending[m + 1]
    BY <1>4, <1>e
  <2>2. i + 1 # k + 1
    BY <1>g
  <2> QED
    BY <2>1, <2>2, <1>d, <1>g
<1> QED
    BY <1>1, <1>2, <1>3, <1>4, <1>a, PendingStep

\* The daemon comes up by Start and goes down by a crash; the counters of
\* crashes and faults only grow, and what was printed stays printed.
LEMMA CountersGrow ==
    ASSUME TypeOK, [Next]_vars
    PROVE  /\ faults' = 0 => faults = 0
           /\ crashes' = 0 => crashes = 0 /\ ~Crash
           /\ printed \subseteq printed' /\ canceled \subseteq canceled'
           /\ mpc = "down" => mpc' = "down" \/ Start
           /\ printed' # printed => Confirm
           /\ canceled' # canceled => OpenData
<1> DEFINE Goal == /\ faults' = 0 => faults = 0
                   /\ crashes' = 0 => crashes = 0 /\ ~Crash
                   /\ printed \subseteq printed' /\ canceled \subseteq canceled'
                   /\ mpc = "down" => mpc' = "down" \/ Start
                   /\ printed' # printed => Confirm
                   /\ canceled' # canceled => OpenData
<1>a. crashes \in Nat /\ faults \in Nat
    BY DEF TypeOK
<1> USE DEF mainVars, spoolVars, clientVars, printerVars, historyVars, boundVars
<1>1. CASE Crash
    BY <1>1, <1>a DEF Crash
<1>2. CASE ScanFails
    BY <1>2, <1>a DEF ScanFails, Crash
<1>6. ASSUME NEW j \in JobIds, ReadEntry(j) PROVE Goal
  <2>1. /\ faults' \in {faults, faults + 1} /\ crashes' = crashes
        /\ printed' = printed /\ canceled' = canceled /\ mpc = "scan"
    BY <1>6 DEF ReadEntry
  <2>2. ~Crash
    BY <2>1, <1>a DEF Crash
  <2> QED
    BY <2>1, <2>2, <1>a
<1>3. CASE OpenData
    BY <1>3, <1>a DEF OpenData, Crash
<1>4. CASE Confirm
    BY <1>4, <1>a DEF Confirm, Crash
<1>5. CASE \/ Start \/ SignalEntry \/ EndScan \/ SpuriousWakeup \/ GetJob
           \/ update_jobno \/ Connect \/ Send \/ UnlinkData \/ UnlinkReq
           \/ Defer \/ Slept
           \/ \E c \in Clients : Accept(c) \/ ReadHeader(c) \/ get_newjobno(c)
           \/ \E c \in Clients : CreateData(c) \/ ReceiveData(c)
           \/ \E c \in Clients : CreateRequest(c)
           \/ \E c \in Clients : WriteRequest(c) \/ Respond(c) \/ SignalJob(c)
           \/ \E c \in Clients : AddJob(c)
           \/ UNCHANGED vars
  <2>1. UNCHANGED <<crashes, faults, printed, canceled>> /\ (mpc = "down" => mpc' = mpc \/ Start)
    BY <1>5
    DEF vars, Start, SignalEntry, EndScan, SpuriousWakeup, GetJob, update_jobno,
        Connect, Send, UnlinkData, UnlinkReq, Defer, Slept, Accept,
        ReadHeader, get_newjobno, CreateData, ReceiveData, CreateRequest,
        WriteRequest, Respond, SignalJob, AddJob
  <2>2. ~Crash
    BY <2>1, <1>a DEF Crash
  <2> QED
    BY <2>1, <2>2
<1> QED
    BY <1>1, <1>2, <1>3, <1>4, <1>5, <1>6
    DEF Next, build_qonstart, client_thread, printer_thread

\* A job whose files printer_thread is about to unlink was confirmed.
LEMMA UnlinkedIsConfirmed ==
    ASSUME TypeOK, PrinterFiles, ppc \in {"unlinkData", "unlinkReq"},
           NEW k \in Clients, jobid[k] = jp[1].jobid, ~Reused(jobid[k])
    PROVE  Confirmed(k)
<1>1. PICK job \in Jobs : jp = <<job>>
    BY DEF TypeOK
<1>2. /\ sent \in FileData /\ jobid[sent.by] = jobid[k]
      /\ [job |-> job, data |-> sent] \in printed
    BY <1>1 DEF PrinterFiles, OwnName
<1>3. sent.by = k
    BY <1>2, FileFacts DEF Reused, Files
<1>4. sent \in {Part(k), Whole(k)}
    BY <1>2, <1>3, FileFacts DEF Files
<1> QED
    BY <1>2, <1>4 DEF Confirmed

\* A job leaves the line unprinted only when its data file is not there or, by
\* a fault, cannot be opened.
LEMMA LeavesForAReason ==
    ASSUME IndInv, NEW k \in Clients, ~Reused(jobid[k]), jobid[k] = jp[1].jobid,
           Spooled(k), OpenData \/ UnlinkReq, jp' # jp, faults' = 0
    PROVE  Confirmed(k)
<1>a. TypeOK /\ PrinterFiles
    BY DEF IndInv
<1>1. CASE OpenData
  <2>1. faults \in Nat /\ data[jp[1].jobid] # NoFile
    BY <1>a, FileFacts DEF Spooled, TypeOK
  <2> QED
    BY <1>1, <2>1 DEF OpenData
<1>2. CASE UnlinkReq
    BY <1>2, <1>a, UnlinkedIsConfirmed DEF UnlinkReq
<1> QED
    BY <1>1, <1>2

\* A client thread that is about to call add_job does nothing else.
LEMMA AddStep ==
    ASSUME TypeOK, [Next]_vars, NEW c \in Clients, cpc[c] = "add",
           cpc'[c] # "add", ~Crash
    PROVE  AddJob(c)
<1> USE DEF TypeOK, mainVars, spoolVars, clientVars, printerVars, historyVars,
            boundVars
<1>1. ASSUME NEW d \in Clients, Accept(d) \/ client_thread(d) PROVE AddJob(c)
    BY <1>1 DEF client_thread, Accept, ReadHeader, get_newjobno, CreateData,
        ReceiveData, CreateRequest, WriteRequest, Respond, AddJob, SignalJob, Go
<1>2. ASSUME \/ Start \/ build_qonstart \/ ScanFails \/ printer_thread
             \/ SpuriousWakeup \/ UNCHANGED vars
      PROVE  cpc' = cpc
    BY <1>2
    DEF vars, build_qonstart, printer_thread, Start, ReadEntry, SignalEntry,
        EndScan, ScanFails, GetJob, SpuriousWakeup, update_jobno, OpenData,
        Connect, Send, Confirm, UnlinkData, UnlinkReq, Defer, Slept
<1> QED
    BY <1>1, <1>2 DEF Next

\* An entry build_qonstart has to read stays until ReadEntry reads it, if no
\* file fails to open.
LEMMA ScanStep ==
    ASSUME TypeOK, Phases, [Next]_vars, mpc \notin {"down", "accept"}, NEW j \in scan,
           faults' = 0, ~Crash
    PROVE  (mpc' # "accept" /\ j \in scan') \/ ReadEntry(j)
<1> DEFINE Goal == (mpc' # "accept" /\ j \in scan') \/ ReadEntry(j)
<1>a. faults \in Nat
    BY DEF TypeOK
<1> USE DEF mainVars, spoolVars, clientVars, printerVars, historyVars,
            boundVars
<1>1. ASSUME NEW k \in JobIds, ReadEntry(k) PROVE Goal
    BY <1>1 DEF ReadEntry
<1>2. CASE ScanFails
    BY <1>2, <1>a DEF ScanFails
<1>3. CASE SignalEntry \/ EndScan \/ Start
    BY <1>3 DEF SignalEntry, EndScan, Start
<1>4. ASSUME NEW c \in Clients, Accept(c) \/ client_thread(c) PROVE Goal
    BY <1>4 DEF client_thread, Accept, ReadHeader, get_newjobno, CreateData,
        ReceiveData, CreateRequest, WriteRequest, Respond, AddJob, SignalJob,
        Go, Phases
<1>5. ASSUME printer_thread \/ SpuriousWakeup \/ UNCHANGED vars PROVE Goal
    BY <1>5
    DEF vars, printer_thread, GetJob, SpuriousWakeup, update_jobno, OpenData,
        Connect, Send, Confirm, UnlinkData, UnlinkReq, Defer, Slept
<1> QED
    BY <1>1, <1>2, <1>3, <1>4, <1>5 DEF Next, build_qonstart

\* No step forgets an accepted job.
LEMMA RememberedStep == IndInv /\ Remembered /\ [Next]_vars => Remembered'
<1> SUFFICES ASSUME IndInv, Remembered, [Next]_vars, mpc' # "down", faults' = 0,
                    NEW c \in acked', cpc'[c] # "add",
                    ~Reused(jobid[c])', ~Confirmed(c)'
             PROVE  \/ mpc' # "accept" /\ jobid'[c] \in scan'
                    \/ IsPending(JobOf(c))'
    BY DEF Remembered
<1>a. TypeOK /\ Numbering /\ Phases /\ JobsInMemory /\ PrinterFiles
    BY DEF IndInv
<1>b. TypeOK'
    BY <1>a, TypeStep
<1>c. c \in Clients /\ c \in acked
  <2>1. c \in Clients
    BY <1>b DEF TypeOK
  <2>2. ASSUME NEW d \in Clients, NEW from \in ClientPcs, NEW to \in ClientPcs,
               Move(d, from, to)
        PROVE  c \in acked
    BY <2>1, <2>2, <1>a DEF Move, Moves, Go, TypeOK
  <2> QED
    BY <2>1, <2>2, <1>a, ClientMoves DEF Crash, historyVars
<1>d. jobid[c] \in JobIds /\ jobid'[c] = jobid[c]
    BY <1>a, <1>c, NumbersStay DEF Numbering, TypeOK
<1>e. ~Reused(jobid[c])
    BY <1>a, <1>d, ReusedStays DEF Reused
<1>f. ~Confirmed(c)
    BY <1>a, CountersGrow DEF Confirmed
<1>h. faults = 0 /\ ~Crash
  <2>1. ~Crash
    BY DEF Crash
  <2> QED
    BY <1>a, <2>1, CountersGrow
<1>g. Spooled(c)
    BY <1>c, <1>e, <1>f, <1>h DEF IndInv, OwnFiles, ClientFiles, UnreadByFault
<1>i. PICK job \in Jobs : job = JobOf(c) /\ job.jobid = jobid[c] /\ job.req = c
    BY <1>c, <1>d, JobFacts DEF JobOf
<1>j. JobOf(c)' = job
    BY <1>i, <1>d DEF JobOf
<1>k. data[jobid[c]] # NoFile /\ reqs[jobid[c]] = Whole(c)
    BY <1>c, <1>g, FileFacts DEF Spooled
<1>l. Pending \in Seq(Jobs)
    BY <1>a, PendingType
<1>m. SUFFICES \/ mpc' # "accept" /\ jobid[c] \in scan'
               \/ \E i \in 1..Len(Pending') : Pending'[i] = job
    BY <1>d, <1>j DEF IsPending
<1>n. Pending' = Append(Pending, job) => \E i \in 1..Len(Pending') : Pending'[i] = job
    BY <1>l, LineElements
<1>1. CASE mpc = "down"
  <2>1. Start
    BY <1>a, <1>1, CountersGrow
  <2> QED
    BY <2>1, <1>c, <1>d, <1>k, FileFacts DEF Start
<1>2. CASE mpc # "down" /\ cpc[c] = "add"
  <2>1. AddJob(c)
    BY <1>2, <1>a, <1>c, <1>h, AddStep
  <2>2. queue' = Append(queue, job) /\ jp' = jp
    BY <2>1, <1>i DEF AddJob, add_job, JobOf, printerVars
  <2> QED
    BY <2>2, <1>a, <1>n, PendingGrows
<1>3. CASE mpc \notin {"down", "accept"} /\ jobid[c] \in scan
  <2>1. (mpc' # "accept" /\ jobid[c] \in scan') \/ ReadEntry(jobid[c])
    BY <1>3, <1>a, <1>h, ScanStep
  <2>2. CASE ReadEntry(jobid[c])
    <3>1. reqs[jobid[c]].whole /\ reqs[jobid[c]] # NoFile /\ reqs[jobid[c]].by = c
      BY <1>c, <1>k, FileFacts
    <3>2. faults \in Nat /\ faults' = faults
      BY <1>a, <1>h DEF TypeOK
    <3>3. queue' = Append(queue, job) /\ jp' = jp
      BY <2>2, <3>1, <3>2, <1>i DEF ReadEntry, add_job, JobOf, printerVars
    <3> QED
      BY <3>3, <1>a, <1>n, PendingGrows
  <2> QED
    BY <2>1, <2>2
<1>4. ASSUME NEW i \in 1..Len(Pending), Pending[i] = job
      PROVE  \E m \in 1..Len(Pending') : Pending'[m] = job
  <2>1. CASE Pending' = Pending
    BY <2>1, <1>4
  <2>2. ASSUME NEW other \in Jobs, Pending' = Append(Pending, other)
        PROVE  \E m \in 1..Len(Pending') : Pending'[m] = job
    BY <2>2, <1>4, <1>l, LineElements
  <2>3. CASE /\ Pending # <<>> /\ jp # <<>> /\ jp' = <<>>
             /\ Pending' = Tail(Pending) /\ (OpenData \/ UnlinkReq)
    <3>1. Pending[1] = jp[1]
      BY <2>3, <1>a, PendingType
    <3>2. CASE i = 1
      BY <2>3, <3>1, <3>2, <1>4, <1>c, <1>e, <1>f, <1>g, <1>i, LeavesForAReason
    <3>3. CASE i # 1
      <4>1. i - 1 \in 1..Len(Pending') /\ Pending'[i - 1] = job
        BY <2>3, <3>3, <1>4, <1>l
      <4> QED
        BY <4>1
    <3> QED
      BY <3>2, <3>3
  <2> QED
    BY <2>1, <2>2, <2>3, <1>a, <1>h, PendingStep
<1> QED
    BY <1>1, <1>2, <1>3, <1>4, <1>a, <1>c, <1>e, <1>f, <1>h, <1>i
    DEF Remembered, IsPending

\* Before the first crash a step moves a client's thread as client_thread does.
LEMMA ThreadMoves ==
    ASSUME TypeOK, [Next]_vars, crashes' = 0, NEW b \in Clients
    PROVE  /\ crashes = 0 /\ ~Crash
           /\ \/ cpc'[b] = cpc[b] /\ (b \in acked' <=> b \in acked)
              \/ /\ <<cpc[b], cpc'[b]>> \in Moves
                 /\ b \in acked' <=> b \in acked \/ cpc[b] = "respond"
<1>1. crashes = 0 /\ ~Crash
    BY CountersGrow
<1>2. ASSUME NEW c \in Clients, NEW from \in ClientPcs, NEW to \in ClientPcs,
             Move(c, from, to)
      PROVE  \/ cpc'[b] = cpc[b] /\ (b \in acked' <=> b \in acked)
             \/ /\ <<cpc[b], cpc'[b]>> \in Moves
                /\ b \in acked' <=> b \in acked \/ cpc[b] = "respond"
  <2>1. CASE c = b
    BY <1>2, <2>1 DEF Move, Go, TypeOK
  <2>2. CASE c # b
    BY <1>2, <2>2 DEF Move, Go, TypeOK
  <2> QED
    BY <2>1, <2>2
<1> QED
    BY <1>1, <1>2, ClientMoves

\* The spool files that a step makes are made by the thread of their client.
LEMMA FilesMade ==
    ASSUME TypeOK, Numbering, [Next]_vars, NEW j \in JobIds
    PROVE  /\ data'[j] # NoFile =>
                 data[j] # NoFile \/ \E c \in Clients : jobid[c] = j /\ CreateData(c)
           /\ reqs'[j] # NoFile =>
                 reqs[j] # NoFile \/ \E c \in Clients : jobid[c] = j /\ CreateRequest(c)
<1> DEFINE D == data'[j] # NoFile =>
                  data[j] # NoFile \/ \E c \in Clients : jobid[c] = j /\ CreateData(c)
           R == reqs'[j] # NoFile =>
                  reqs[j] # NoFile \/ \E c \in Clients : jobid[c] = j /\ CreateRequest(c)
<1>a. data \in [JobIds -> Files] /\ reqs \in [JobIds -> Files]
    BY DEF TypeOK
<1> USE DEF mainVars, spoolVars, clientVars, printerVars, historyVars, boundVars
<1>1. ASSUME NEW k \in JobIds, ReadEntry(k) PROVE D /\ R
    BY <1>1, <1>a DEF ReadEntry
<1>2. ASSUME NEW c \in Clients, CreateData(c) PROVE D /\ R
  <2>1. reqs' = reqs /\ (data' = data \/ data' = [data EXCEPT ![jobid[c]] = Part(c)])
    BY <1>2 DEF CreateData
  <2>2. j # jobid[c] => data'[j] = data[j]
    BY <2>1, <1>a
  <2> QED
    BY <1>2, <2>1, <2>2
<1>3. ASSUME NEW c \in Clients, ReceiveData(c) PROVE D /\ R
  <2>1. reqs' = reqs /\ (data' = data \/ \E f : data' = [data EXCEPT ![jobid[c]] = f])
    BY <1>3 DEF ReceiveData, unlink_data
  <2>2. j = jobid[c] => data'[j] = data[j] \/ data'[j] = NoFile \/ data[j] = Part(c)
    BY <1>3, <1>a DEF ReceiveData, unlink_data
  <2>3. j # jobid[c] => data'[j] = data[j]
    BY <2>1, <1>a
  <2>4. data'[j] # NoFile => data[j] # NoFile
    BY <2>2, <2>3, FileFacts
  <2> QED
    BY <2>1, <2>4
<1>4. ASSUME NEW c \in Clients, CreateRequest(c) PROVE D /\ R
  <2>1. /\ reqs' = reqs \/ reqs' = [reqs EXCEPT ![jobid[c]] = Part(c)]
        /\ data' = data \/ data' = [data EXCEPT ![jobid[c]] = NoFile]
    BY <1>4 DEF CreateRequest, unlink_data
  <2>2. j # jobid[c] => reqs'[j] = reqs[j]
    BY <2>1, <1>a
  <2>3. D
    BY <2>1, <1>a
  <2> QED
    BY <1>4, <2>2, <2>3
<1>5. ASSUME NEW c \in Clients, WriteRequest(c) PROVE D /\ R
    BY <1>5, <1>a DEF WriteRequest, unlink_data
<1>6. CASE UnlinkData \/ UnlinkReq
    BY <1>6, <1>a DEF UnlinkData, UnlinkReq
<1>7. CASE \/ Start \/ SignalEntry \/ EndScan \/ ScanFails \/ Crash
           \/ GetJob \/ SpuriousWakeup \/ update_jobno \/ OpenData \/ Connect
           \/ Send \/ Confirm \/ Defer \/ Slept
           \/ \E c \in Clients : Accept(c) \/ ReadHeader(c) \/ get_newjobno(c)
           \/ \E c \in Clients : Respond(c) \/ AddJob(c) \/ SignalJob(c)
           \/ UNCHANGED vars
    BY <1>7 DEF vars, Start, SignalEntry, EndScan, ScanFails,
        Crash, Accept, ReadHeader, get_newjobno, Respond, AddJob,
        SignalJob, GetJob, SpuriousWakeup, update_jobno,
        OpenData, Connect, Send, Confirm, Defer, Slept
<1> QED
    BY <1>1, <1>2, <1>3, <1>4, <1>5, <1>6, <1>7
    DEF Next, build_qonstart, client_thread, printer_thread

\* The first run of build_qonstart has nothing to do.
LEMMA FirstStartStep ==
    TypeOK /\ Numbering /\ FirstStart /\ [Next]_vars => FirstStart'
<1> SUFFICES ASSUME TypeOK, Numbering, FirstStart, [Next]_vars, crashes' = 0
             PROVE  /\ \A c \in Clients : cpc'[c] # "dead"
                    /\ mpc' # "accept" => /\ \A c \in Clients : cpc'[c] = "none"
                                          /\ \A j \in JobIds : reqs'[j] = NoFile
                                          /\ scan' = {}
    BY DEF FirstStart
<1>a. crashes = 0 /\ ~Crash
    BY CountersGrow
<1>b. ASSUME NEW c \in Clients PROVE cpc'[c] # "dead"
    BY <1>a, ThreadMoves DEF FirstStart, Moves
<1>c. SUFFICES ASSUME mpc' # "accept"
               PROVE  /\ \A c \in Clients : cpc'[c] = "none"
                      /\ \A j \in JobIds : reqs'[j] = NoFile
                      /\ scan' = {}
    BY <1>b
<1> USE DEF mainVars, spoolVars, clientVars, printerVars, historyVars, boundVars
<1>d. mpc # "accept"
  <2>1. ASSUME NEW c \in Clients, Accept(c) \/ client_thread(c) PROVE mpc' = mpc
    BY <2>1 DEF client_thread, Accept, ReadHeader, get_newjobno, CreateData,
        ReceiveData, CreateRequest, WriteRequest, Respond, AddJob, SignalJob
  <2>2. ASSUME \/ Start \/ build_qonstart \/ ScanFails \/ printer_thread
               \/ SpuriousWakeup \/ UNCHANGED vars
        PROVE  mpc' = mpc \/ mpc # "accept"
    BY <2>2
    DEF vars, build_qonstart, printer_thread, Start, ReadEntry, SignalEntry,
        EndScan, ScanFails, GetJob, SpuriousWakeup, update_jobno, OpenData,
        Connect, Send, Confirm, UnlinkData, UnlinkReq, Defer, Slept
  <2> QED
    BY <1>a, <1>c, <2>1, <2>2 DEF Next
<1>e. (\A c \in Clients : cpc[c] = "none") /\ (\A j \in JobIds : reqs[j] = NoFile) /\ scan = {}
    BY <1>a, <1>d DEF FirstStart
<1>f. \A c \in Clients : ~Accept(c) /\ ~client_thread(c)
    BY <1>d, <1>e DEF client_thread, Accept, ReadHeader, get_newjobno, CreateData,
        ReceiveData, CreateRequest, WriteRequest, Respond, AddJob, SignalJob, Go
<1>g. \A j \in JobIds : reqs'[j] = NoFile
  <2>1. \A c \in Clients : ~CreateRequest(c)
    BY <1>f DEF client_thread
  <2> QED
    BY <1>e, <2>1, FilesMade
<1>h. scan' = {} /\ cpc' = cpc
  <2>1. CASE Start
    BY <2>1, <1>e DEF Start
  <2>2. CASE \/ build_qonstart \/ ScanFails \/ printer_thread
             \/ SpuriousWakeup \/ UNCHANGED vars
    BY <2>2, <1>e
    DEF vars, build_qonstart, printer_thread, ReadEntry, SignalEntry,
        EndScan, ScanFails, GetJob, SpuriousWakeup, update_jobno, OpenData,
        Connect, Send, Confirm, UnlinkData, UnlinkReq, Defer, Slept
  <2> QED
    BY <1>a, <1>f, <2>1, <2>2 DEF Next
<1> QED
    BY <1>e, <1>g, <1>h

\* Every job that is on its way was added by its client's thread.
LEMMA AddedJobsStep == IndInv /\ FirstStart /\ AddedJobs /\ [Next]_vars => AddedJobs'
<1> SUFFICES ASSUME IndInv, FirstStart, AddedJobs, [Next]_vars PROVE AddedJobs'
    OBVIOUS
<1>a. TypeOK /\ Numbering /\ Phases /\ JobsInMemory
    BY DEF IndInv
<1>b. ASSUME NEW b \in Clients, cpc'[b] \in Added \cup {"add"} PROVE b \in acked'
  <2>1. CASE Crash
    BY <1>b, <2>1 DEF Crash, Added, historyVars, AddedJobs
  <2>2. ASSUME NEW c \in Clients, NEW from \in ClientPcs, NEW to \in ClientPcs,
               Move(c, from, to)
        PROVE  b \in acked'
    <3>1. CASE c = b
      BY <1>a, <1>b, <2>2, <3>1 DEF Move, Moves, Go, TypeOK, Added, AddedJobs
    <3>2. CASE c # b
      BY <1>a, <1>b, <2>2, <3>2 DEF Move, Go, TypeOK, AddedJobs
    <3> QED
      BY <3>1, <3>2
  <2> QED
    BY <1>a, <1>b, <2>1, <2>2, ClientMoves DEF AddedJobs
<1>c. SUFFICES ASSUME crashes' = 0
               PROVE  /\ unread' = {}
                      /\ \A i \in 1..Len(Pending') : cpc'[Pending'[i].req] \in Added
                      /\ \A p \in printed' : cpc'[p.job.req] \in Added
                      /\ \A job \in canceled' :
                            cpc'[job.req] \in Added /\ jobid'[job.req] = job.jobid
    BY <1>b DEF AddedJobs
<1>d. crashes = 0 /\ ~Crash
    BY <1>a, <1>c, CountersGrow
<1>e. ASSUME NEW b \in Clients, cpc[b] \in Added PROVE cpc'[b] \in Added
    BY <1>a, <1>c, <1>e, ThreadMoves DEF Added, Moves
<1>f. \A i \in 1..Len(Pending) : /\ cpc'[Pending[i].req] \in Added
                                 /\ jobid'[Pending[i].req] = Pending[i].jobid
                                 /\ Pending[i] \in Jobs
  <2> SUFFICES ASSUME NEW i \in 1..Len(Pending)
               PROVE  /\ cpc'[Pending[i].req] \in Added
                      /\ jobid'[Pending[i].req] = Pending[i].jobid
                      /\ Pending[i] \in Jobs
    OBVIOUS
  <2>1. /\ Pending[i] \in Jobs /\ Pending[i].req \in Clients /\ Pending[i].jobid \in JobIds
        /\ jobid[Pending[i].req] = Pending[i].jobid
    BY <1>a, GoodPending DEF GoodJob
  <2>2. cpc[Pending[i].req] \in Added
    BY <1>d DEF AddedJobs
  <2> QED
    BY <1>a, <1>e, <2>1, <2>2, NumbersStay, NumberFacts
<1>g. Pending \in Seq(Jobs) /\ (jp # <<>> => Len(Pending) >= 1 /\ Pending[1] = jp[1])
    BY <1>a, PendingType
<1>1. \A i \in 1..Len(Pending') : cpc'[Pending'[i].req] \in Added
  <2>1. CASE Pending' = Pending
    BY <1>f, <2>1
  <2>2. ASSUME NEW job \in Jobs, Pending' = Append(Pending, job), Joins(job),
               NEW i \in 1..Len(Pending')
        PROVE  cpc'[Pending'[i].req] \in Added
    <3>1. ~ReadEntry(job.jobid)
      BY <1>d DEF FirstStart, ReadEntry
    <3>2. cpc'[job.req] = "signal"
      BY <1>a, <2>2, <3>1 DEF Joins, AddJob, Go, TypeOK, Jobs
    <3>3. \/ i \in 1..Len(Pending) /\ Pending'[i] = Pending[i]
          \/ Pending'[i] = job
      BY <1>g, <2>2, LineElements
    <3> QED
      BY <1>f, <3>2, <3>3 DEF Added
  <2>3. CASE Pending # <<>> /\ Pending' = Tail(Pending)
    BY <1>f, <1>g, <2>3, LineElements
  <2> QED
    BY <1>a, <1>d, <2>1, <2>2, <2>3, PendingStep
<1>2. \A p \in printed' : cpc'[p.job.req] \in Added
  <2>1. \A p \in printed : cpc'[p.job.req] \in Added
    <3>1. \A p \in printed : p.job.req \in Clients
      BY <1>a DEF TypeOK, Jobs
    <3> QED
      BY <1>d, <1>e, <3>1 DEF AddedJobs
  <2>2. CASE Confirm
    <3>1. jp # <<>> /\ printed' = printed \cup {[job |-> jp[1], data |-> sent]}
      BY <1>a, <2>2 DEF Confirm, TypeOK
    <3>2. cpc'[jp[1].req] \in Added
      BY <1>f, <1>g, <3>1
    <3> QED
      BY <2>1, <3>1, <3>2
  <2> QED
    BY <1>a, <2>1, <2>2, CountersGrow
<1>3. \A job \in canceled' : cpc'[job.req] \in Added /\ jobid'[job.req] = job.jobid
  <2>1. ASSUME NEW job \in canceled
        PROVE  cpc'[job.req] \in Added /\ jobid'[job.req] = job.jobid
    <3>1. job.req \in Clients /\ job.jobid \in JobIds
      BY <1>a DEF TypeOK, Jobs
    <3>2. cpc[job.req] \in Added /\ jobid[job.req] = job.jobid
      BY <1>d DEF AddedJobs
    <3> QED
      BY <1>a, <1>e, <3>1, <3>2, NumbersStay, NumberFacts
  <2>2. CASE OpenData
    <3>1. jp # <<>> /\ canceled' \subseteq canceled \cup {jp[1]}
      BY <1>a, <2>2 DEF OpenData, TypeOK
    <3>2. cpc'[jp[1].req] \in Added /\ jobid'[jp[1].req] = jp[1].jobid
      BY <1>f, <1>g, <3>1
    <3> QED
      BY <2>1, <3>1, <3>2
  <2> QED
    BY <1>a, <2>1, <2>2, CountersGrow
<1>4. unread' = {}
  <2>1. \A j \in JobIds : ~ReadEntry(j)
    BY <1>d DEF FirstStart, ReadEntry
  <2>2. unread' = unread
    <3> USE DEF mainVars, spoolVars, clientVars, printerVars, historyVars, boundVars
    <3>1. ASSUME NEW c \in Clients, Accept(c) \/ client_thread(c) PROVE unread' = unread
      BY <3>1 DEF client_thread, Accept, ReadHeader, get_newjobno, CreateData,
        ReceiveData, CreateRequest, WriteRequest, Respond, AddJob, SignalJob
    <3>2. ASSUME \/ Start \/ SignalEntry \/ EndScan \/ ScanFails \/ printer_thread
                 \/ SpuriousWakeup \/ UNCHANGED vars
          PROVE  unread' = unread
      BY <3>2
      DEF vars, printer_thread, Start, SignalEntry, EndScan, ScanFails, GetJob,
        SpuriousWakeup, update_jobno, OpenData, Connect, Send, Confirm,
        UnlinkData, UnlinkReq, Defer, Slept
    <3> QED
      BY <1>d, <2>1, <3>1, <3>2 DEF Next, build_qonstart
  <2> QED
    BY <1>d, <2>2 DEF AddedJobs
<1> QED
    BY <1>1, <1>2, <1>3, <1>4

\* What the printer confirmed was added, before the first crash.
LEMMA ConfirmedIsAdded ==
    ASSUME TypeOK, PrintedFiles, AddedJobs, crashes = 0,
           NEW c \in Clients, ~Reused(jobid[c]), Confirmed(c)
    PROVE  cpc[c] \in Added
<1>1. PICK p \in printed : p.data \in {Part(c), Whole(c)}
    BY DEF Confirmed
<1>2. p.data.by = c
    BY <1>1, FileFacts
<1>3. jobid[c] = p.job.jobid /\ jobid[p.job.req] = p.job.jobid /\ p.job.req \in Clients
    BY <1>1, <1>2 DEF PrintedFiles, OwnName, TypeOK, Jobs
<1>4. p.job.req = c
    BY <1>3 DEF Reused
<1> QED
    BY <1>4 DEF AddedJobs

\* The data file of a client that handed its job over, and has its number to
\* itself, is touched only by printer_thread, before the first crash.
LEMMA DataOfAdded ==
    ASSUME TypeOK, Numbering, FirstStart, crashes' = 0, [Next]_vars,
           NEW b \in Clients, cpc[b] \in Added, NEW j \in JobIds, jobid[b] = j,
           ~Reused(j)
    PROVE  data'[j] = data[j] \/ (UnlinkData /\ jp[1].jobid = j /\ data'[j] = NoFile)
<1> DEFINE Goal == data'[j] = data[j]
                   \/ (UnlinkData /\ jp[1].jobid = j /\ data'[j] = NoFile)
<1>a. data \in [JobIds -> Files]
    BY DEF TypeOK
<1>b. crashes = 0 /\ ~Crash
    BY CountersGrow
<1>c. \A c \in Clients : cpc[c] \notin Added => jobid[c] # j
    BY DEF Reused
<1> USE DEF mainVars, spoolVars, clientVars, printerVars, historyVars, boundVars
<1>1. ASSUME NEW k \in JobIds, ReadEntry(k) PROVE Goal
    BY <1>1, <1>b DEF ReadEntry, FirstStart
<1>2. ASSUME NEW c \in Clients,
             CreateData(c) \/ ReceiveData(c) \/ CreateRequest(c) \/ WriteRequest(c)
      PROVE  Goal
  <2>1. jobid[c] # j
    BY <1>2, <1>c DEF CreateData, ReceiveData, CreateRequest, WriteRequest, Go, Added
  <2>2. data' = data \/ \E f : data' = [data EXCEPT ![jobid[c]] = f]
    BY <1>2 DEF CreateData, ReceiveData, CreateRequest, WriteRequest, unlink_data
  <2> QED
    BY <1>a, <2>1, <2>2
<1>3. CASE UnlinkData
    BY <1>3, <1>a DEF UnlinkData
<1>4. CASE \/ Start \/ SignalEntry \/ EndScan \/ ScanFails
           \/ GetJob \/ SpuriousWakeup \/ update_jobno \/ OpenData \/ Connect
           \/ Send \/ Confirm \/ UnlinkReq \/ Defer \/ Slept
           \/ \E c \in Clients : Accept(c) \/ ReadHeader(c) \/ get_newjobno(c)
           \/ \E c \in Clients : Respond(c) \/ AddJob(c) \/ SignalJob(c)
           \/ UNCHANGED vars
    BY <1>4 DEF vars, Start, SignalEntry, EndScan, ScanFails,
        Accept, ReadHeader, get_newjobno, Respond, AddJob,
        SignalJob, GetJob, SpuriousWakeup, update_jobno,
        OpenData, Connect, Send, Confirm, UnlinkReq, Defer, Slept
<1> QED
    BY <1>b, <1>1, <1>2, <1>3, <1>4
    DEF Next, build_qonstart, client_thread, printer_thread

\* Where printer_thread is between the printer's confirmation and the next job.
Done == {"unlinkData", "unlinkReq"}

\* printer_thread gets there by Confirm and leaves by UnlinkReq.
LEMMA PrinterMoves ==
    ASSUME TypeOK, Phases, [Next]_vars, ~Crash
    PROVE  /\ ppc' = "unlinkReq" <=> UnlinkData \/ (ppc = "unlinkReq" /\ ~UnlinkReq)
           /\ ppc' \in Done <=> Confirm \/ (ppc \in Done /\ ~UnlinkReq)
           /\ ppc = "unlinkReq" => ~UnlinkData /\ ~OpenData /\ ~Confirm
           /\ ppc \notin Done => ~UnlinkReq
<1> DEFINE Goal == /\ ppc' = "unlinkReq" <=> UnlinkData \/ (ppc = "unlinkReq" /\ ~UnlinkReq)
                   /\ ppc' \in Done <=> Confirm \/ (ppc \in Done /\ ~UnlinkReq)
<1>0. /\ ppc = "unlinkReq" => ~UnlinkData /\ ~OpenData /\ ~Confirm
      /\ ppc \notin Done => ~UnlinkReq
    BY DEF UnlinkData, OpenData, Confirm, UnlinkReq, Done
<1> USE DEF mainVars, spoolVars, clientVars, printerVars, historyVars, boundVars, Done
<1>a. UnlinkReq => ppc = "unlinkReq" /\ ppc' = "top"
    BY DEF UnlinkReq
<1>b. UnlinkData => ppc = "unlinkData" /\ ppc' = "unlinkReq"
    BY DEF UnlinkData
<1>c. Confirm => ppc = "status" /\ ppc' = "unlinkData"
    BY DEF Confirm
<1>1. ASSUME UnlinkReq PROVE Goal
    BY <1>1, <1>a, <1>b, <1>c
<1>2. ASSUME UnlinkData PROVE Goal
    BY <1>2, <1>a, <1>b, <1>c
<1>3. ASSUME Confirm PROVE Goal
    BY <1>3, <1>a, <1>b, <1>c
<1>4. ASSUME SignalEntry \/ \E c \in Clients : SignalJob(c) PROVE Goal
    BY <1>4, <1>a, <1>b, <1>c DEF SignalEntry, SignalJob, signal_jobwait
<1>5. ASSUME Start PROVE Goal
  <2>1. ppc \notin Done
    BY <1>5 DEF Start, Phases
  <2> QED
    BY <1>5, <2>1, <1>a, <1>b, <1>c DEF Start
<1>6. ASSUME \/ GetJob \/ SpuriousWakeup \/ update_jobno \/ OpenData \/ Connect
             \/ Send \/ Defer \/ Slept
      PROVE  Goal
    BY <1>6, <1>a, <1>b, <1>c
    DEF GetJob, SpuriousWakeup, update_jobno, OpenData, Connect, Send, Defer, Slept
<1>7. ASSUME \/ EndScan \/ ScanFails
             \/ \E j \in JobIds : ReadEntry(j)
             \/ \E c \in Clients : Accept(c) \/ ReadHeader(c) \/ get_newjobno(c)
             \/ \E c \in Clients : CreateData(c) \/ ReceiveData(c)
             \/ \E c \in Clients : CreateRequest(c) \/ WriteRequest(c)
             \/ \E c \in Clients : Respond(c) \/ AddJob(c)
             \/ UNCHANGED vars
      PROVE  Goal
  <2>1. ppc' = ppc
    BY <1>7
    DEF vars, EndScan, ScanFails, ReadEntry, Accept, ReadHeader, get_newjobno,
        CreateData, ReceiveData, CreateRequest, WriteRequest, Respond, AddJob
  <2> QED
    BY <2>1, <1>a, <1>b, <1>c
<1> QED
    BY <1>0, <1>1, <1>2, <1>3, <1>4, <1>5, <1>6, <1>7
    DEF Next, build_qonstart, client_thread, printer_thread

\* Before the first crash no step takes a pending job's data away, other than
\* the unlink of printer_thread itself.
LEMMA PendingHasDataStep ==
    /\ IndInv /\ NoDuplicates /\ FirstStart /\ AddedJobs /\ PendingHasData
    /\ [Next]_vars
    => PendingHasData'
<1> SUFFICES ASSUME IndInv, NoDuplicates, FirstStart, AddedJobs, PendingHasData,
                    [Next]_vars, crashes' = 0, NEW i \in 1..Len(Pending'),
                    NEW j, Pending'[i].jobid = j, ~Reused(j)'
             PROVE  IF ppc' = "unlinkReq" /\ i = 1 THEN data'[j] = NoFile
                                                   ELSE data'[j] # NoFile
    BY DEF PendingHasData
<1>a. TypeOK /\ Numbering /\ Phases /\ JobsInMemory /\ PrintedFiles
    BY DEF IndInv
<1>b. crashes = 0 /\ ~Crash
    BY <1>a, CountersGrow
<1>c. Pending \in Seq(Jobs)
    BY <1>a, PendingType
<1>d. j \in JobIds => ~Reused(j)
    BY <1>a, ReusedStays
\* The job was in the line before, at place k.
<1>1. ASSUME NEW k \in 1..Len(Pending), Pending'[i] = Pending[k],
             UnlinkData => Pending' = Pending,
             k = 1 => i = 1 /\ ~UnlinkReq, k # 1 /\ ~UnlinkReq => i # 1 \/ OpenData
      PROVE  IF ppc' = "unlinkReq" /\ i = 1 THEN data'[j] = NoFile
                                            ELSE data'[j] # NoFile
  <2>1. Pending[k].req \in Clients /\ j \in JobIds /\ jobid[Pending[k].req] = j
    BY <1>a, <1>1, GoodPending DEF GoodJob
  <2>2. cpc[Pending[k].req] \in Added
    BY <1>b DEF AddedJobs
  <2>3. data'[j] = data[j] \/ (UnlinkData /\ jp[1].jobid = j /\ data'[j] = NoFile)
    BY <1>a, <1>d, <2>1, <2>2, DataOfAdded
  <2>4. IF ppc = "unlinkReq" /\ k = 1 THEN data[j] = NoFile ELSE data[j] # NoFile
    BY <1>b, <1>d, <1>1, <2>1 DEF PendingHasData
  <2>5. CASE UnlinkData
    <3>1. jp # <<>> /\ Pending[1] = jp[1] /\ ppc # "unlinkReq" /\ ppc' = "unlinkReq"
      BY <1>a, <2>5, PendingType DEF UnlinkData, TypeOK
    <3>2. CASE k = 1
      <4>1. jp[1].jobid = j /\ i = 1
        BY <1>1, <3>1, <3>2
      <4>2. data'[j] = NoFile
        BY <4>1, <2>1, <2>5, <1>a DEF UnlinkData, TypeOK
      <4> QED
        BY <3>1, <4>1, <4>2
    <3>3. CASE k # 1
      <4>1. 1 \in 1..Len(Pending) /\ jp[1].jobid # j
        BY <1>c, <1>d, <1>1, <2>1, <3>1, <3>3 DEF NoDuplicates
      <4>2. data'[j] # NoFile
        BY <2>3, <2>4, <3>3, <4>1
      <4>3. i # 1
        BY <2>5, <3>3, <1>1 DEF UnlinkData, UnlinkReq, OpenData
      <4> QED
        BY <4>2, <4>3
    <3> QED
      BY <3>2, <3>3
  <2>6. CASE ~UnlinkData
    <3>1. data'[j] = data[j]
      BY <2>3, <2>6
    <3>2. ppc' = "unlinkReq" <=> ppc = "unlinkReq" /\ ~UnlinkReq
      BY <1>a, <1>b, <2>6, PrinterMoves
    <3>3. ppc = "unlinkReq" => ~OpenData
      BY DEF OpenData
    <3> QED
      BY <1>1, <2>4, <3>1, <3>2, <3>3
  <2> QED
    BY <2>5, <2>6
<1>2. CASE Pending' = Pending
  <2>1. ~UnlinkReq
    <3>1. ASSUME UnlinkReq PROVE Pending' # Pending
      <4>1. jp # <<>> /\ jp' = <<>> /\ queue' = queue
        BY <1>a, <3>1 DEF UnlinkReq, TypeOK
      <4>2. Pending' = queue
        BY <4>1, <1>a, ConcatEmptySeq DEF Pending, TypeOK
      <4> QED
        BY <4>1, <4>2, <1>a, <1>c, PendingType
    <3> QED
      BY <1>2, <3>1
  <2> QED
    BY <1>1, <1>2, <2>1
<1>3. ASSUME NEW job \in Jobs, Pending' = Append(Pending, job), jp' = jp, Joins(job)
      PROVE  IF ppc' = "unlinkReq" /\ i = 1 THEN data'[j] = NoFile
                                            ELSE data'[j] # NoFile
  <2>1. AddJob(job.req) /\ jobid[job.req] = job.jobid
    BY <1>b, <1>3 DEF Joins, FirstStart, ReadEntry
  <2>2. ~UnlinkReq /\ ~UnlinkData /\ ppc' = ppc
    BY <1>a, <2>1 DEF AddJob, UnlinkReq, UnlinkData, printerVars, TypeOK
  <2>3. CASE i \in 1..Len(Pending)
    <3>1. Pending'[i] = Pending[i]
      BY <1>3, <1>c, <2>3, LineElements
    <3> QED
      BY <1>1, <2>2, <2>3, <3>1
  <2>4. CASE i \notin 1..Len(Pending)
    <3>1. i = Len(Pending) + 1 /\ Pending'[i] = job
      BY <1>3, <1>c, <2>4, LineElements
    <3>2. job.req \in Clients /\ job.jobid = j /\ j \in JobIds
      BY <3>1 DEF Jobs
    <3>3. cpc[job.req] = "add" /\ job.req \in acked
      BY <2>1, <3>2 DEF AddJob, Go, AddedJobs
    <3>4. ~Confirmed(job.req)
      BY <1>a, <1>b, <1>d, <2>1, <3>2, <3>3, ConfirmedIsAdded DEF Added
    <3>5. Spooled(job.req)
      BY <1>b, <1>d, <2>1, <3>2, <3>3, <3>4 DEF IndInv, OwnFiles, ClientFiles, AddedJobs
    <3>6. data[j] # NoFile /\ data' = data
      BY <2>1, <3>2, <3>5, FileFacts DEF Spooled, AddJob, spoolVars
    <3>7. ppc' = "unlinkReq" => i # 1
      <4>1. ppc = "unlinkReq" => jp # <<>>
        <5>1. ppc = "unlinkReq" => \E first \in Jobs : jp = <<first>>
          BY <1>a DEF TypeOK
        <5> QED
          BY <5>1
      <4>2. ppc = "unlinkReq" => Pending # <<>>
        BY <1>a, <4>1, PendingType
      <4> QED
        BY <1>c, <2>2, <3>1, <4>2
    <3> QED
      BY <3>6, <3>7
  <2> QED
    BY <2>3, <2>4
<1>4. CASE /\ Pending # <<>> /\ jp # <<>> /\ jp' = <<>>
           /\ Pending' = Tail(Pending) /\ (OpenData \/ UnlinkReq)
  <2>1. i + 1 \in 1..Len(Pending) /\ Pending'[i] = Pending[i + 1] /\ i + 1 # 1
    BY <1>4, <1>c, LineElements
  <2>2. ~UnlinkData
    BY <1>4 DEF UnlinkData, OpenData, UnlinkReq
  <2> QED
    BY <1>1, <1>4, <2>1, <2>2
<1> QED
    BY <1>a, <1>b, <1>2, <1>3, <1>4, PendingStep

\* A client thread with files in the spool goes on, hands them over with its
\* job, or removes them.
DataPcs == {"receive", "control", "request", "respond", "add"}
ReqPcs == {"request", "respond", "add"}

\* A client_thread that has a data file keeps it, hands it over with its job,
\* or unlinks it with the request file before it gives up.
LEMMA FilesHandedOver ==
    ASSUME TypeOK, Numbering, [Next]_vars, ~Crash, NEW c \in Clients, cpc[c] \in DataPcs
    PROVE  \/ cpc'[c] \in DataPcs /\ (cpc[c] \in ReqPcs => cpc'[c] \in ReqPcs)
           \/ AddJob(c)
           \/ /\ data'[jobid[c]] = NoFile
              /\ cpc[c] \in ReqPcs => reqs'[jobid[c]] = NoFile
<1> DEFINE Goal == \/ cpc'[c] \in DataPcs /\ (cpc[c] \in ReqPcs => cpc'[c] \in ReqPcs)
                   \/ AddJob(c)
                   \/ /\ data'[jobid[c]] = NoFile
                      /\ cpc[c] \in ReqPcs => reqs'[jobid[c]] = NoFile
<1>a. /\ data \in [JobIds -> Files] /\ reqs \in [JobIds -> Files]
      /\ cpc \in [Clients -> ClientPcs] /\ jobid[c] \in JobIds
    BY DEF TypeOK, Numbering, Numbered, DataPcs
<1>b. cpc'[c] = cpc[c] => Goal
    OBVIOUS
<1> USE DEF DataPcs, ReqPcs
<1>1. ASSUME NEW d \in Clients, d # c, Accept(d) \/ client_thread(d) PROVE cpc'[c] = cpc[c]
    BY <1>1, <1>a DEF client_thread, Accept, ReadHeader, get_newjobno, CreateData,
        ReceiveData, CreateRequest, WriteRequest, Respond, AddJob, SignalJob, Go
<1>2. ASSUME Accept(c) \/ ReadHeader(c) \/ get_newjobno(c) \/ CreateData(c) \/ SignalJob(c)
      PROVE  Goal
    BY <1>2 DEF Accept, ReadHeader, get_newjobno, CreateData, SignalJob, Go
<1>3. ASSUME ReceiveData(c) PROVE Goal
    BY <1>3, <1>a DEF ReceiveData, unlink_data, Go
<1>4. ASSUME CreateRequest(c) PROVE Goal
    BY <1>4, <1>a DEF CreateRequest, unlink_data, Go
<1>5. ASSUME WriteRequest(c) PROVE Goal
    BY <1>5, <1>a DEF WriteRequest, unlink_data, Go
<1>6. ASSUME Respond(c) PROVE Goal
    BY <1>6, <1>a DEF Respond, Go
<1>7. ASSUME \/ Start \/ build_qonstart \/ ScanFails \/ printer_thread
             \/ SpuriousWakeup \/ UNCHANGED vars
      PROVE  cpc' = cpc
    BY <1>7
    DEF vars, build_qonstart, printer_thread, Start, ReadEntry, SignalEntry,
        EndScan, ScanFails, GetJob, SpuriousWakeup, update_jobno, OpenData,
        Connect, Send, Confirm, UnlinkData, UnlinkReq, Defer, Slept, clientVars
<1> HIDE DEF DataPcs, ReqPcs
<1> QED
    BY <1>b, <1>1, <1>2, <1>3, <1>4, <1>5, <1>6, <1>7 DEF Next, client_thread

\* Before the first crash and fault every file has somebody to remove it.
LEMMA AccountedFilesStep ==
    /\ IndInv /\ NoDuplicates /\ FirstStart /\ AddedJobs /\ PendingHasData
    /\ AccountedFiles /\ [Next]_vars
    => AccountedFiles'
<1> SUFFICES ASSUME IndInv, NoDuplicates, FirstStart, AddedJobs, PendingHasData,
                    AccountedFiles, [Next]_vars, crashes' = 0, faults' = 0,
                    NEW j \in JobIds, ~Reused(j)'
             PROVE  /\ data'[j] # NoFile => Accountable(j, DataPcs)'
                    /\ reqs'[j] # NoFile => Accountable(j, ReqPcs)'
    BY DEF AccountedFiles, DataPcs, ReqPcs
<1>a. TypeOK /\ Numbering /\ Phases /\ JobsInMemory
    BY DEF IndInv
<1>b. crashes = 0 /\ faults = 0 /\ ~Crash /\ ~Reused(j)
    BY <1>a, CountersGrow, ReusedStays
<1>c. Pending \in Seq(Jobs)
    BY <1>a, PendingType
<1>d. /\ data[j] # NoFile => Accountable(j, DataPcs)
      /\ reqs[j] # NoFile => Accountable(j, ReqPcs)
    BY <1>b DEF AccountedFiles, DataPcs, ReqPcs
\* The two kinds of file, kind by kind: before is whether the file was there.
<1>1. ASSUME NEW pcs \in {DataPcs, ReqPcs},
             pcs = DataPcs => data[j] # NoFile /\ data'[j] # NoFile,
             pcs = ReqPcs => reqs[j] # NoFile /\ reqs'[j] # NoFile
      PROVE  Accountable(j, pcs)'
  <2>1. ASSUME NEW c \in Clients, jobid[c] = j, cpc[c] \in pcs
        PROVE  Accountable(j, pcs)'
    <3>1. cpc[c] \in DataPcs /\ jobid'[c] = j
      BY <1>a, <2>1, NumbersStay, NumberFacts DEF DataPcs, ReqPcs
    <3>2. cpc'[c] \in pcs \/ AddJob(c)
      BY <1>a, <1>b, <1>1, <2>1, <3>1, FilesHandedOver
    <3>3. CASE AddJob(c)
      <4>1. PICK job \in Jobs : job = [jobid |-> j, req |-> c]
        BY JobFacts
      <4>2. queue' = Append(queue, job) /\ jp' = jp
        BY <2>1, <3>3, <4>1 DEF AddJob, add_job, printerVars
      <4>3. Pending' = Append(Pending, job)
        BY <1>a, <4>2, PendingGrows
      <4>4. Len(Pending) + 1 \in 1..Len(Pending') /\ Pending'[Len(Pending) + 1] = job
        BY <4>3, <1>c, LineElements
      <4> QED
        BY <4>1, <4>4 DEF Accountable
    <3> QED
      BY <3>1, <3>2, <3>3 DEF Accountable
  <2>2. ASSUME NEW i \in 1..Len(Pending), Pending[i].jobid = j
        PROVE  Accountable(j, pcs)'
    <3>1. SUFFICES \E k \in 1..Len(Pending') : Pending'[k].jobid = j
      BY DEF Accountable
    <3>2. CASE Pending' = Pending
      BY <2>2, <3>2
    <3>3. ASSUME NEW job \in Jobs, Pending' = Append(Pending, job)
          PROVE  \E k \in 1..Len(Pending') : Pending'[k].jobid = j
      BY <1>c, <2>2, <3>3, LineElements
    <3>4. CASE /\ Pending # <<>> /\ jp # <<>> /\ jp' = <<>>
               /\ Pending' = Tail(Pending) /\ (OpenData \/ UnlinkReq)
      <4>1. CASE i # 1
        <5>1. i - 1 \in 1..Len(Pending') /\ Pending'[i - 1] = Pending[i]
          BY <1>c, <3>4, <4>1
        <5> QED
          BY <2>2, <5>1
      <4>2. CASE i = 1
        <5>1. jp[1].jobid = j
          BY <1>a, <2>2, <3>4, <4>2, PendingType
        <5>2. IF ppc = "unlinkReq" THEN data[j] = NoFile ELSE data[j] # NoFile
          BY <1>b, <2>2, <4>2 DEF PendingHasData
        <5>3. CASE OpenData
          BY <1>a, <1>b, <3>4, <5>1, <5>2, <5>3 DEF OpenData, TypeOK
        <5>4. CASE UnlinkReq
          <6>1. data[j] = NoFile /\ reqs'[j] = NoFile
            BY <1>a, <5>1, <5>2, <5>4 DEF UnlinkReq, TypeOK
          <6> QED
            BY <1>1, <6>1
        <5> QED
          BY <3>4, <5>3, <5>4
      <4> QED
        BY <4>1, <4>2
    <3> QED
      BY <1>a, <1>b, <3>2, <3>3, <3>4, PendingStep
  <2>3. Accountable(j, pcs)
    BY <1>1, <1>d
  <2> QED
    BY <2>1, <2>2, <2>3 DEF Accountable
<1>2. ASSUME NEW c \in Clients, jobid[c] = j, CreateData(c), data'[j] # NoFile, data[j] = NoFile
      PROVE  Accountable(j, DataPcs)'
  <2>1. cpc'[c] = "receive" /\ jobid' = jobid
    BY <1>a, <1>2 DEF CreateData, Go, TypeOK
  <2> QED
    BY <1>2, <2>1 DEF Accountable, DataPcs
<1>3. ASSUME NEW c \in Clients, jobid[c] = j, CreateRequest(c), reqs'[j] # NoFile, reqs[j] = NoFile
      PROVE  Accountable(j, ReqPcs)'
  <2>1. cpc'[c] = "request" /\ jobid' = jobid
    BY <1>a, <1>3 DEF CreateRequest, Go, TypeOK
  <2> QED
    BY <1>3, <2>1 DEF Accountable, ReqPcs
<1>4. DataPcs # ReqPcs
    BY DEF DataPcs, ReqPcs
<1> QED
    BY <1>a, <1>1, <1>2, <1>3, <1>4, FilesMade

\* Who is in line, in terms of the jobs that are pending.
LEMMA InLineIsPending ==
    ASSUME TypeOK
    PROVE  /\ InLine = IF ppc \in Done THEN Tail(Pending) ELSE Pending
           /\ ppc \in Done => Pending # <<>>
           /\ InLine \in Seq(Jobs)
           /\ \A i \in 1..Len(InLine) : \E k \in 1..Len(Pending) : InLine[i] = Pending[k]
<1>1. ppc \in Done => \E job \in Jobs : jp = <<job>>
    BY DEF TypeOK, Done
<1>2. ppc \in Done => jp # <<>>
    BY <1>1
<1>3. /\ InLine = IF ppc \in Done THEN Tail(Pending) ELSE Pending
      /\ ppc \in Done => Pending # <<>>
      /\ Pending \in Seq(Jobs)
    BY <1>2, PendingType DEF InLine, Done
<1> QED
    BY <1>3

\* A job joins the line at its end, and leaves it at its head when the printer
\* confirms it or its data cannot be opened.
LEMMA InLineStep ==
    ASSUME TypeOK, Numbering, Phases, [Next]_vars, ~Crash
    PROVE  \/ InLine' = InLine /\ UNCHANGED <<printed, canceled>>
           \/ /\ \E job \in Jobs : InLine' = Append(InLine, job) /\ Joins(job)
              /\ UNCHANGED <<printed, canceled>>
           \/ /\ InLine # <<>> /\ jp # <<>> /\ InLine' = Tail(InLine)
              /\ InLine[1] = jp[1] /\ ppc \notin Done
              /\ Confirm \/ (OpenData /\ jp' # jp)
<1> DEFINE Goal == \/ InLine' = InLine /\ UNCHANGED <<printed, canceled>>
                   \/ /\ \E job \in Jobs : InLine' = Append(InLine, job) /\ Joins(job)
                      /\ UNCHANGED <<printed, canceled>>
                   \/ /\ InLine # <<>> /\ jp # <<>> /\ InLine' = Tail(InLine)
                      /\ InLine[1] = jp[1] /\ ppc \notin Done
                      /\ Confirm \/ (OpenData /\ jp' # jp)
<1>a. TypeOK'
    BY TypeStep
<1>b. InLine' = IF ppc' \in Done THEN Tail(Pending') ELSE Pending'
  <2>1. ppc' \in Done => \E job \in Jobs : jp' = <<job>>
    BY <1>a DEF TypeOK, Done
  <2>2. ASSUME NEW job \in Jobs, jp' = <<job>> PROVE queue' = Tail(Pending')
    BY <1>a, <2>2 DEF TypeOK, Pending
  <2> QED
    BY <2>1, <2>2 DEF InLine, Done
<1>c. /\ InLine = IF ppc \in Done THEN Tail(Pending) ELSE Pending
      /\ ppc \in Done => Pending # <<>>
      /\ Pending \in Seq(Jobs)
    BY InLineIsPending, PendingType
<1>1. CASE Pending' = Pending
  <2>1. CASE Confirm
    <3>1. ppc \notin Done /\ ppc' \in Done /\ \E job \in Jobs : jp = <<job>>
      BY <2>1 DEF Confirm, Done, TypeOK
    <3>2. jp # <<>>
      BY <3>1
    <3>3. Pending # <<>> /\ Pending[1] = jp[1]
      BY <3>2, PendingType
    <3> QED
      BY <1>1, <1>b, <1>c, <2>1, <3>1, <3>2, <3>3
  <2>2. CASE ~Confirm
    <3>2. ASSUME UnlinkReq \/ (OpenData /\ canceled' # canceled)
          PROVE  Pending # <<>> /\ Pending' = Tail(Pending)
      <4>1. (\E job \in Jobs : jp = <<job>>) /\ jp' = <<>> /\ queue' = queue
        BY <3>2 DEF UnlinkReq, OpenData, TypeOK
      <4>2. Pending' = queue
        BY <4>1, ConcatEmptySeq DEF Pending, TypeOK
      <4> QED
        BY <4>1, <4>2, PendingType
    <3>3. ~UnlinkReq /\ UNCHANGED <<printed, canceled>>
      <4>1. Pending # <<>> => Tail(Pending) # Pending
        BY <1>c
      <4> QED
        BY <1>1, <2>2, <3>2, <4>1, CountersGrow
    <3>4. ppc' \in Done <=> ppc \in Done
      BY <2>2, <3>3, PrinterMoves
    <3> QED
      BY <1>1, <1>b, <1>c, <3>3, <3>4
  <2> QED
    BY <2>1, <2>2
<1>2. ASSUME NEW job \in Jobs, Pending' = Append(Pending, job), Joins(job)
      PROVE  Goal
  <2>1. ppc' = ppc /\ UNCHANGED <<printed, canceled>>
    BY <1>2 DEF Joins, ReadEntry, AddJob, printerVars, historyVars
  <2>2. Pending # <<>> => Tail(Append(Pending, job)) = Append(Tail(Pending), job)
    BY <1>c
  <2> QED
    BY <1>2, <1>b, <1>c, <2>1, <2>2
<1>3. CASE /\ Pending # <<>> /\ jp # <<>> /\ jp' = <<>>
           /\ Pending' = Tail(Pending) /\ (OpenData \/ UnlinkReq)
  <2>1. CASE OpenData
    <3>1. ppc \notin Done /\ ppc' \notin Done
      BY <2>1 DEF OpenData, Done
    <3> QED
      BY <1>3, <1>b, <1>c, <2>1, <3>1, PendingType
  <2>2. CASE UnlinkReq
    <3>1. ppc \in Done /\ ppc' \notin Done /\ UNCHANGED <<printed, canceled>>
      BY <2>2 DEF UnlinkReq, Done, historyVars
    <3> QED
      BY <1>3, <1>b, <1>c, <3>1
  <2> QED
    BY <1>3, <2>1, <2>2
<1> QED
    BY <1>1, <1>2, <1>3, PendingStep

\* A settled job does not come back into the line.
LEMMA UnsettledStep ==
    /\ IndInv /\ NoDuplicates /\ FirstStart /\ AddedJobs /\ Unsettled /\ [Next]_vars
    => Unsettled'
<1> SUFFICES ASSUME IndInv, NoDuplicates, FirstStart, AddedJobs, Unsettled,
                    [Next]_vars, crashes' = 0, NEW i \in DOMAIN InLine',
                    NEW job, job = InLine'[i], ~Reused(job.jobid)'
             PROVE  ~Confirmed(job.req)' /\ job \notin canceled'
    BY DEF Unsettled
<1>a. TypeOK /\ Numbering /\ Phases /\ JobsInMemory /\ PrintedFiles /\ PrinterFiles
    BY DEF IndInv
<1>b. crashes = 0 /\ ~Crash
    BY <1>a, CountersGrow
<1>c. InLine \in Seq(Jobs)
    BY <1>a, InLineIsPending
<1>d. job \in Jobs => ~Reused(job.jobid)
    BY <1>a, ReusedStays DEF Jobs
<1>1. CASE InLine' = InLine /\ UNCHANGED <<printed, canceled>>
  <2>1. job \in Jobs
    BY <1>1, <1>c
  <2> QED
    BY <1>1, <1>b, <1>d, <2>1 DEF Unsettled, Confirmed
<1>2. ASSUME NEW new \in Jobs, InLine' = Append(InLine, new), Joins(new),
             UNCHANGED <<printed, canceled>>
      PROVE  ~Confirmed(job.req)' /\ job \notin canceled'
  <2>1. \/ i \in DOMAIN InLine /\ InLine'[i] = InLine[i]
        \/ InLine'[i] = new
    BY <1>2, <1>c
  <2>2. CASE i \in DOMAIN InLine /\ InLine'[i] = InLine[i]
    <3>1. job \in Jobs
      BY <1>c, <2>2
    <3> QED
      BY <1>2, <1>b, <1>d, <2>2, <3>1 DEF Unsettled, Confirmed
  <2>3. CASE InLine'[i] = new
    <3>1. /\ AddJob(new.req) /\ jobid[new.req] = new.jobid /\ new.req \in Clients
          /\ ~Reused(new.jobid) /\ new = job
      BY <1>b, <1>d, <1>2, <2>3 DEF Joins, FirstStart, ReadEntry, Jobs
    <3>2. cpc[new.req] \notin Added
      BY <3>1 DEF AddJob, Go, Added
    <3>3. ~Confirmed(new.req)
      BY <1>a, <1>b, <3>1, <3>2, ConfirmedIsAdded
    <3>4. new \notin canceled
      BY <1>b, <3>2 DEF AddedJobs
    <3> QED
      BY <1>2, <3>1, <3>3, <3>4 DEF Confirmed
  <2> QED
    BY <2>1, <2>2, <2>3
<1>3. CASE /\ InLine # <<>> /\ jp # <<>> /\ InLine' = Tail(InLine)
           /\ InLine[1] = jp[1] /\ ppc \notin Done
           /\ Confirm \/ (OpenData /\ jp' # jp)
  <2>1. i + 1 \in 1..Len(InLine) /\ InLine[i + 1] = job /\ job \in Jobs /\ i + 1 # 1
    BY <1>3, <1>c, LineElements
  <2>2. InLine = Pending /\ 1 \in 1..Len(Pending) /\ i + 1 \in 1..Len(Pending)
    BY <1>3, <1>a, <1>c, <2>1, InLineIsPending
  <2>3. /\ jp[1].jobid # job.jobid
        /\ jobid[job.req] = job.jobid /\ job.req \in Clients
    BY <1>3, <1>a, <1>d, <2>1, <2>2, GoodPending DEF NoDuplicates, GoodJob
  <2>4. ~Confirmed(job.req) /\ job \notin canceled
    BY <1>b, <1>d, <2>1, <1>c DEF Unsettled
  <2>5. CASE Confirm
    <3>1. /\ printed' = printed \cup {[job |-> jp[1], data |-> sent]}
          /\ canceled' = canceled
      BY <2>5 DEF Confirm
    <3>2. jobid[sent.by] = jp[1].jobid
      BY <1>a, <2>5 DEF Confirm, PrinterFiles, OwnName
    <3>3. sent \notin {Part(job.req), Whole(job.req)}
      BY <2>3, <3>2, FileFacts
    <3>4. ~Confirmed(job.req)'
      <4>1. \A p \in printed' : p \in printed \/ p.data = sent
        BY <3>1
      <4> QED
        BY <2>4, <3>3, <4>1 DEF Confirmed
    <3> QED
      BY <2>4, <3>1, <3>4
  <2>6. CASE OpenData
    <3>1. printed' = printed /\ canceled' \subseteq canceled \cup {jp[1]}
      BY <2>6 DEF OpenData
    <3> QED
      BY <2>3, <2>4, <3>1 DEF Confirmed
  <2> QED
    BY <1>3, <2>5, <2>6
<1> QED
    BY <1>a, <1>b, <1>1, <1>2, <1>3, InLineStep

-----------------------------------------------------------------------------
\* The invariant of the queue holds when the daemon is first started.
LEMMA QueueInvInit == Init => QueueInv
<1> SUFFICES ASSUME Init PROVE QueueInv
    OBVIOUS
<1>1. IndInv
    BY IndInvInit
<1>2. Pending = <<>> /\ InLine = <<>>
    BY DEF Init, Pending, InLine
<1> QED
    BY <1>1, <1>2
    DEF Init, QueueInv, NoDuplicates, Remembered, FirstStart, AddedJobs, Added,
        PendingHasData, AccountedFiles, Unsettled

\* The invariant of the queue is kept by every step.
LEMMA QueueInvStep == QueueInv /\ [Next]_vars => QueueInv'
BY IndInvStep, NoDuplicatesStep, RememberedStep, FirstStartStep, AddedJobsStep,
   PendingHasDataStep, AccountedFilesStep, UnsettledStep DEF QueueInv, IndInv

\* The invariant that the theorems about the queue rest on.
THEOREM QueueInvariance == Spec => []QueueInv
BY QueueInvInit, QueueInvStep, PTL DEF Spec

\* build_qonstart, add_job and replace_job never leave two entries of one job.
THEOREM JobsAreListedOnce == Spec => []NoDuplicates
<1>1. QueueInv => NoDuplicates
    BY DEF QueueInv
<1> QED
    BY <1>1, QueueInvariance, PTL

\* After build_qonstart every accepted job that is not printed is on the list,
\* whenever and however often the daemon died, if no file failed to open.
THEOREM RestartsForgetNothing == Spec => []NothingForgotten
<1>1. QueueInv => NothingForgotten
    BY DEF QueueInv, Remembered, NothingForgotten, IsPending
<1> QED
    BY <1>1, QueueInvariance, PTL

\* A daemon that never died leaves nothing behind in the spool directories:
\* each error path of client_thread removes what was made.
THEOREM IdleDaemonLeavesNothing == Spec => []IdleSpoolIsEmpty
<1>1. QueueInv => IdleSpoolIsEmpty
  <2> SUFFICES ASSUME QueueInv, mpc = "accept", crashes = 0, faults = 0,
                      \A c \in Clients : cpc[c] \in {"none", "done", "refused"},
                      Pending = <<>>, NEW j \in JobIds, ~Reused(j)
               PROVE  data[j] = NoFile /\ reqs[j] = NoFile
    BY DEF IdleSpoolIsEmpty
  <2>1. ~Accountable(j, DataPcs) /\ ~Accountable(j, ReqPcs)
    BY DEF Accountable, DataPcs, ReqPcs
  <2> QED
    BY <2>1 DEF QueueInv, AccountedFiles, DataPcs, ReqPcs
<1> QED
    BY <1>1, QueueInvariance, PTL

-----------------------------------------------------------------------------
(* The daemon that does not die is a spooler. *)

\* Numbers are given out in turn from the one the file had when the daemon was
\* started, and from 1 after the largest, so no two of at most MaxJob clients
\* have the same: the counter does not come round.  Nth(s, k) is the number that
\* is given out after k others when s is the first.
HasNumber == {c \in Clients : jobid[c] # NoNumber}

Nth(s, k) == IF s <= 0 THEN (IF k = 0 THEN s ELSE k)
             ELSE IF s + k <= MaxJob THEN s + k ELSE s + k - MaxJob

\* The k-th number is what get_newjobno leaves in nextjob after the one before.
LEMMA NthFacts ==
    ASSUME NEW s \in JobIds
    PROVE  /\ Nth(s, 0) = s
           /\ \A k \in 0..(MaxJob - 1) :
                 /\ Nth(s, k) \in JobIds
                 /\ Nth(s, k + 1) = IF Nth(s, k) + 1 \in 1..MaxJob
                                    THEN Nth(s, k) + 1 ELSE 1
           /\ \A k, m \in 0..(MaxJob - 1) : Nth(s, k) = Nth(s, m) => k = m
<1>a. s \in Int /\ MinJob <= s /\ s <= MaxJob /\ MinJob \in Int
    BY DEF JobIds, MinJob
<1>1. Nth(s, 0) = s
    BY <1>a DEF Nth
<1>2. ASSUME NEW k \in 0..(MaxJob - 1)
      PROVE  /\ Nth(s, k) \in JobIds
             /\ Nth(s, k + 1) = IF Nth(s, k) + 1 \in 1..MaxJob
                                THEN Nth(s, k) + 1 ELSE 1
  <2>1. CASE s <= 0
    BY <1>a, <2>1 DEF Nth, JobIds, MinJob
  <2>2. CASE s > 0
    BY <1>a, <2>2 DEF Nth, JobIds, MinJob
  <2> QED
    BY <1>a, <2>1, <2>2
<1>3. ASSUME NEW k \in 0..(MaxJob - 1), NEW m \in 0..(MaxJob - 1), Nth(s, k) = Nth(s, m)
      PROVE  k = m
    BY <1>a, <1>3 DEF Nth
<1> QED
    BY <1>1, <1>2, <1>3

\* With s the first number, clients have the first ones, and each its own.
CountedFrom(s) ==
    /\ nextjob = Nth(s, Cardinality(HasNumber))
    /\ \A c \in HasNumber : \E k \in 0..(Cardinality(HasNumber) - 1) : jobid[c] = Nth(s, k)
    /\ \A c, d \in HasNumber : jobid[c] = jobid[d] => c = d

InTurn == crashes = 0 /\ mpc # "down" => \E s \in JobIds : CountedFrom(s)

\* get_newjobno counts the clients that have a number.
LEMMA InTurnStep ==
    ASSUME IsFiniteSet(Clients), Cardinality(Clients) <= MaxJob,
           QueueInv, InTurn, [Next]_vars
    PROVE  InTurn'
<1> SUFFICES ASSUME crashes' = 0, mpc' # "down"
             PROVE  \E s \in JobIds : CountedFrom(s)'
    BY DEF InTurn
<1> DEFINE n == Cardinality(HasNumber)
           Goal == \E s \in JobIds : CountedFrom(s)'
<1>a. /\ TypeOK /\ TypeOK' /\ Numbering /\ Phases /\ FirstStart
      /\ crashes = 0 /\ ~Crash
    BY CountersGrow, TypeStep DEF QueueInv, IndInv
<1>c. IsFiniteSet(HasNumber) /\ n \in Nat
    BY FS_Subset, FS_CardinalityType DEF HasNumber
<1> HIDE DEF n
<1>d. jobid' = jobid => HasNumber' = HasNumber
    BY DEF HasNumber
<1> USE DEF mainVars, spoolVars, clientVars, printerVars, historyVars, boundVars
<1>1. CASE Start
  <2>1. \A c \in Clients : jobid[c] = NoNumber
    BY <1>1, <1>a DEF Start, FirstStart, Numbering, Unnumbered
  <2>2. HasNumber = {} /\ Cardinality(HasNumber) = 0
    BY <2>1, FS_EmptySet DEF HasNumber
  <2>3. HasNumber' = {} /\ Cardinality(HasNumber') = 0
    BY <2>2, <1>1, <1>d DEF Start
  <2>4. nextjob' \in JobIds
    BY <1>a DEF TypeOK
  <2>5. nextjob' = Nth(nextjob', Cardinality(HasNumber'))
    BY <2>3, <2>4, NthFacts
  <2>6. CountedFrom(nextjob)'
    BY <2>3, <2>5 DEF CountedFrom
  <2> QED
    BY <2>4, <2>5, <2>3 DEF CountedFrom
<1>b. mpc = "down" => Start
    BY <1>a, CountersGrow
<1>2. ASSUME UNCHANGED <<nextjob, jobid>>, mpc # "down" PROVE Goal
  <2>1. PICK s \in JobIds : CountedFrom(s)
    BY <1>2, <1>a DEF InTurn
  <2>2. CountedFrom(s)'
    BY <2>1, <1>2, <1>d DEF CountedFrom
  <2> QED
    BY <2>2
<1>3. ASSUME NEW c \in Clients, get_newjobno(c) PROVE Goal
  <2>1. jobid[c] = NoNumber /\ jobid' = [jobid EXCEPT ![c] = nextjob] /\ mpc # "down"
    BY <1>3, <1>a DEF get_newjobno, Go, Numbering, Unnumbered, Phases
  <2>0. PICK s \in JobIds : CountedFrom(s)
    BY <2>1, <1>a DEF InTurn
  <2>2. c \notin HasNumber /\ nextjob \in JobIds /\ nextjob # NoNumber
    BY <2>1, <1>a, NumberFacts DEF HasNumber, TypeOK
  <2>3. HasNumber' = HasNumber \cup {c}
    BY <2>1, <2>2, <1>a DEF HasNumber, TypeOK
  <2>4. Cardinality(HasNumber') = n + 1
    BY <2>2, <2>3, <1>c, FS_AddElement DEF n
  <2>5. n + 1 <= MaxJob
    <3>1. HasNumber \cup {c} \subseteq Clients
      BY DEF HasNumber
    <3> QED
      BY <3>1, <2>3, <2>4, <1>c, FS_Subset, FS_CardinalityType
  <2>6. /\ nextjob = Nth(s, n) /\ n \in 0..(MaxJob - 1)
        /\ \A d \in HasNumber : \E k \in 0..(n - 1) : jobid[d] = Nth(s, k)
        /\ \A d, e \in HasNumber : jobid[d] = jobid[e] => d = e
    BY <2>0, <2>5, <1>c DEF CountedFrom, n
  <2>7. nextjob' = Nth(s, n + 1)
    BY <1>3, <2>6, NthFacts DEF get_newjobno
  <2>8. \A d \in HasNumber : d \in HasNumber' /\ d # c /\ jobid'[d] = jobid[d]
    BY <2>1, <2>2, <2>3, <1>a DEF TypeOK, HasNumber
  <2>9. c \in HasNumber' /\ jobid'[c] = Nth(s, n)
    BY <2>1, <2>3, <2>6, <1>a DEF TypeOK
  <2>10. \A d \in HasNumber : jobid'[d] # Nth(s, n)
    <3> SUFFICES ASSUME NEW d \in HasNumber, jobid'[d] = Nth(s, n) PROVE FALSE
      OBVIOUS
    <3>1. PICK k \in 0..(n - 1) : jobid[d] = Nth(s, k)
      BY <2>6
    <3>2. k \in 0..(MaxJob - 1) /\ k # n
      BY <3>1, <2>6
    <3> QED
      BY <3>1, <3>2, <2>6, <2>8, NthFacts
  <2>11. \A d \in HasNumber' : \E k \in 0..(n + 1 - 1) : jobid'[d] = Nth(s, k)
    <3> SUFFICES ASSUME NEW d \in HasNumber'
                 PROVE  \E k \in 0..(n + 1 - 1) : jobid'[d] = Nth(s, k)
      OBVIOUS
    <3>1. CASE d = c
      BY <3>1, <2>9, <1>c
    <3>2. CASE d \in HasNumber
      <4>1. PICK k \in 0..(n - 1) : jobid[d] = Nth(s, k)
        BY <2>6, <3>2
      <4>2. k \in 0..(n + 1 - 1) /\ jobid'[d] = Nth(s, k)
        BY <4>1, <3>2, <2>8, <1>c
      <4> QED
        BY <4>2
    <3> QED
      BY <3>1, <3>2, <2>3
  <2>12. \A d, e \in HasNumber' : jobid'[d] = jobid'[e] => d = e
    BY <2>3, <2>6, <2>8, <2>9, <2>10
  <2>13. CountedFrom(s)'
    <3>1. nextjob' = Nth(s, Cardinality(HasNumber'))
      BY <2>4, <2>7
    <3>a. 0..(Cardinality(HasNumber') - 1) = 0..(n + 1 - 1)
      BY <2>4, <1>c
    <3>2. \A d \in HasNumber' :
             \E k \in 0..(Cardinality(HasNumber') - 1) : jobid'[d] = Nth(s, k)
      BY <3>a, <2>11, Zenon
    <3> QED
      BY <3>1, <3>2, <2>12 DEF CountedFrom
  <2> QED
    BY <2>13
<1>5. ASSUME NEW c \in Clients, Accept(c) \/ client_thread(c), ~get_newjobno(c)
      PROVE  Goal
  <2>1. UNCHANGED <<nextjob, jobid>> /\ ~Start
    BY <1>5
    DEF Accept, client_thread, ReadHeader, CreateData, ReceiveData,
        CreateRequest, WriteRequest, Respond, AddJob, SignalJob, Start, Go
  <2> QED
    BY <2>1, <1>b, <1>2
<1>6. ASSUME NEW j \in JobIds, ReadEntry(j) PROVE Goal
    BY <1>2, <1>6 DEF ReadEntry
<1>7. CASE SignalEntry \/ EndScan \/ ScanFails
    BY <1>2, <1>7 DEF SignalEntry, EndScan, ScanFails
<1>8. CASE printer_thread \/ SpuriousWakeup \/ UNCHANGED vars
  <2>1. UNCHANGED <<nextjob, jobid, mpc>>
    BY <1>8
    DEF printer_thread, GetJob, update_jobno, OpenData, Connect, Send, Confirm,
        UnlinkData, UnlinkReq, Defer, Slept, SpuriousWakeup, vars
  <2> QED
    BY <2>1, <1>2
<1> QED
    BY <1>1, <1>3, <1>5, <1>6, <1>7, <1>8, <1>a DEF Next, build_qonstart

\* So a number belongs to one client.
OwnNumbers == \A j \in JobIds : ~Reused(j)

\* Without crashes get_newjobno hands out every number once, while they last.
LEMMA InTurnIsOwn == QueueInv /\ InTurn /\ crashes = 0 => OwnNumbers
<1> SUFFICES ASSUME QueueInv, InTurn, crashes = 0, NEW j \in JobIds,
                    NEW c \in Clients, NEW d \in Clients, c # d,
                    jobid[c] = j, jobid[d] = j
             PROVE  FALSE
    BY DEF OwnNumbers, Reused
<1>1. c \in HasNumber /\ d \in HasNumber
    BY NumberFacts DEF HasNumber
<1>2. CASE mpc = "down"
  <2>1. cpc[c] = "none"
    BY <1>2 DEF QueueInv, FirstStart
  <2> QED
    BY <1>1, <2>1 DEF QueueInv, IndInv, Numbering, Unnumbered, HasNumber
<1>3. CASE mpc # "down"
    BY <1>1, <1>3 DEF InTurn, CountedFrom
<1> QED
    BY <1>2, <1>3

\* The clients of the jobs in line, as Spooler has them.
Requesters(s) == [i \in DOMAIN s |-> s[i].req]

\* The requesters follow the jobs when one joins and when the first one leaves.
LEMMA RequestersFollow ==
    ASSUME NEW s \in Seq(Jobs)
    PROVE  /\ \A job \in Jobs : Requesters(Append(s, job)) = Append(Requesters(s), job.req)
           /\ s # <<>> => /\ Requesters(s) # <<>>
                          /\ Head(Requesters(s)) = s[1].req
                          /\ Requesters(Tail(s)) = Tail(Requesters(s))
<1>1. \A i \in 1..Len(s) : s[i].req \in Clients
  <2>1. \A job \in Jobs : job.req \in Clients
    BY DEF Jobs
  <2> QED
    BY <2>1, ElementOfSeq
<1>2. Requesters(s) \in Seq(Clients) /\ Len(Requesters(s)) = Len(s)
  <2>1. Requesters(s) = [i \in 1..Len(s) |-> s[i].req]
    BY DEF Requesters
  <2> QED
    BY <1>1, <2>1
<1>3. \A i \in 1..Len(s) : Requesters(s)[i] = s[i].req
    BY DEF Requesters
<1>4. ASSUME NEW job \in Jobs
      PROVE  Requesters(Append(s, job)) = Append(Requesters(s), job.req)
  <2>1. job.req \in Clients
    BY DEF Jobs
  <2>2. Requesters(Append(s, job)) =
            [i \in 1..Len(s) + 1 |-> IF i = Len(s) + 1 THEN job.req ELSE s[i].req]
    BY DEF Requesters
  <2>3. Append(Requesters(s), job.req) =
            [i \in 1..Len(s) + 1 |-> IF i = Len(s) + 1 THEN job.req ELSE s[i].req]
    BY <1>2, <1>3, <2>1
  <2> QED
    BY <2>2, <2>3
<1>5. ASSUME s # <<>>
      PROVE  /\ Requesters(s) # <<>> /\ Head(Requesters(s)) = s[1].req
             /\ Requesters(Tail(s)) = Tail(Requesters(s))
  <2>1. Requesters(s) # <<>> /\ Head(Requesters(s)) = s[1].req
    BY <1>2, <1>3, <1>5
  <2>2. Requesters(Tail(s)) = [i \in 1..Len(s) - 1 |-> s[i + 1].req]
    BY <1>5 DEF Requesters
  <2>3. Tail(Requesters(s)) = [i \in 1..Len(s) - 1 |-> s[i + 1].req]
    <3>1. \A i \in 1..Len(s) - 1 : i + 1 \in 1..Len(s)
      OBVIOUS
    <3>2. /\ Tail(Requesters(s)) \in Seq(Clients)
          /\ Len(Tail(Requesters(s))) = Len(s) - 1
          /\ \A i \in 1..Len(s) - 1 : Tail(Requesters(s))[i] = s[i + 1].req
      BY <1>2, <1>3, <2>1, <3>1, HeadTailProperties
    <3> QED
      BY <3>2, LenProperties
  <2> QED
    BY <2>1, <2>2, <2>3
<1> QED
    BY <1>4, <1>5

\* A client has been told nothing, or that it is refused or accepted, until its
\* thread adds the job; after that its job is queued until it is settled.
StatusIs(c) ==
    /\ cpc[c] \notin Added =>
          Status(c) = IF cpc[c] = "refused" THEN "refused"
                      ELSE IF cpc[c] = "add" THEN "accepted" ELSE "new"
    /\ cpc[c] \in Added =>
          Status(c) = IF Confirmed(c) THEN "printed"
                      ELSE IF JobOf(c) \in canceled THEN "dropped" ELSE "queued"

\* What became of a client's job can be read off where client_thread is, unless
\* the daemon died or a number was handed out twice.
LEMMA StatusFacts ==
    QueueInv /\ OwnNumbers /\ crashes = 0 => \A c \in Clients : StatusIs(c)
<1> SUFFICES ASSUME QueueInv, OwnNumbers, crashes = 0, NEW c \in Clients
             PROVE  StatusIs(c)
    OBVIOUS
<1>a. TypeOK /\ PrintedFiles /\ AddedJobs
    BY DEF QueueInv, IndInv
<1>1. Confirmed(c) => cpc[c] \in Added
  <2> SUFFICES ASSUME Confirmed(c) PROVE cpc[c] \in Added
      OBVIOUS
  <2>1. PICK p \in printed : p.data \in {Part(c), Whole(c)}
    BY DEF Confirmed
  <2>2. p.data.by = c
    BY <2>1, FileFacts
  <2>3. jobid[c] \in JobIds
    BY <1>a, <2>1, <2>2 DEF PrintedFiles, OwnName, TypeOK, Jobs
  <2> QED
    BY <1>a, <2>3, ConfirmedIsAdded DEF OwnNumbers
<1>2. JobOf(c) \in canceled => cpc[c] \in Added
  <2>1. JobOf(c).req = c
    BY DEF JobOf
  <2> QED
    BY <1>a, <2>1 DEF AddedJobs
<1>3. CASE cpc[c] \notin Added
    BY <1>1, <1>2, <1>3 DEF StatusIs, Status, Added
<1>4. CASE cpc[c] \in Added
    BY <1>4 DEF StatusIs, Status, Added
<1> QED
    BY <1>3, <1>4

\* A thread that goes on changes what Spooler sees of its client by a step of
\* Spooler, or not at all.
SpoolerStatus == [c \in Clients |-> Status(c)]
SpoolerLine == Requesters(InLine)

\* A step of client_thread changes its own client's state only: it refuses the
\* client, accepts it, or adds its job.
LEMMA MoveRefines ==
    ASSUME TypeOK, [Next]_vars, ~Crash, printed' = printed, canceled' = canceled,
           \A c \in Clients : StatusIs(c) /\ StatusIs(c)',
           \A c \in Clients : cpc[c] # "dead",
           Numbering, NEW b \in Clients, cpc'[b] # cpc[b]
    PROVE  /\ \A c \in Clients : c # b => Status(c)' = Status(c)
           /\ \/ Status(b)' = Status(b)
              \/ Status(b) = "new" /\ Status(b)' \in {"refused", "accepted"}
              \/ cpc[b] = "add" /\ Status(b) = "accepted"
                 /\ cpc'[b] = "signal"
<1>1. PICK c \in Clients, from \in ClientPcs, to \in ClientPcs : Move(c, from, to)
    BY ClientMoves
<1>2. c = b /\ cpc[b] = from /\ cpc'[b] = to /\ \A d \in Clients : d # b => cpc'[d] = cpc[d]
    BY <1>1 DEF Move, Go, TypeOK
<1>3. \A d \in Clients : d # b => jobid'[d] = jobid[d]
    BY <1>1, <1>2 DEF Move, TypeOK
<1>4. \A d \in Clients : (Confirmed(d))' <=> Confirmed(d)
    BY DEF Confirmed
<1>5. ASSUME NEW d \in Clients, d # b PROVE Status(d)' = Status(d)
  <2>1. (JobOf(d))' = JobOf(d)
    BY <1>3, <1>5 DEF JobOf
  <2> QED
    BY <1>2, <1>4, <1>5, <2>1 DEF Status
<1>6. StatusIs(b) /\ StatusIs(b)' /\ <<from, to>> \in Moves
    BY <1>1 DEF Move
<1>7. CASE from = "signal"
  <2>1. to = "done" /\ jobid' = jobid
    BY <1>1, <1>7 DEF Move, Moves
  <2>2. (JobOf(b))' = JobOf(b)
    BY <2>1 DEF JobOf
  <2> QED
    BY <1>2, <1>4, <1>5, <1>7, <2>1, <2>2 DEF Status
<1>8. CASE from # "signal"
    BY <1>2, <1>5, <1>6, <1>8 DEF StatusIs, Moves, Added
<1> QED
    BY <1>7, <1>8

\* The job at the head of the line is its client's, queued and not settled.
LEMMA HeadOfLine ==
    ASSUME QueueInv, OwnNumbers, crashes = 0, InLine # <<>>, jp # <<>>,
           InLine[1] = jp[1], \A c \in Clients : StatusIs(c)
    PROVE  /\ jp[1] \in Jobs /\ jp[1].req \in Clients /\ jp[1].jobid \in JobIds
           /\ JobOf(jp[1].req) = jp[1]
           /\ jobid[jp[1].req] = jp[1].jobid
           /\ Status(jp[1].req) = "queued" /\ cpc[jp[1].req] \in Added
           /\ ~Confirmed(jp[1].req) /\ jp[1] \notin canceled
<1>a. TypeOK /\ JobsInMemory /\ AddedJobs /\ Unsettled
    BY DEF QueueInv, IndInv
<1>b. InLine \in Seq(Jobs) /\ Pending \in Seq(Jobs) /\ 1 \in DOMAIN InLine
      /\ jp[1] \in Jobs /\ Pending # <<>> /\ Pending[1] = jp[1]
    BY <1>a, InLineIsPending, PendingType
<1>c. jp[1].req \in Clients /\ jp[1].jobid \in JobIds
      /\ jp[1] = [jobid |-> jp[1].jobid, req |-> jp[1].req]
    BY <1>b DEF Jobs
<1>1. ~Confirmed(jp[1].req) /\ jp[1] \notin canceled
    BY <1>a, <1>b, <1>c DEF Unsettled, OwnNumbers
<1>2. jobid[jp[1].req] = jp[1].jobid
    BY <1>a DEF JobsInMemory, GoodJob
<1>3. JobOf(jp[1].req) = jp[1]
    BY <1>c, <1>2 DEF JobOf
<1>4. cpc[jp[1].req] \in Added
    BY <1>a, <1>b DEF AddedJobs
<1> QED
    BY <1>1, <1>2, <1>3, <1>4, <1>b, <1>c DEF StatusIs

\* When the first job in line is settled, nobody else's status changes.
LEMMA ServeRefines ==
    ASSUME QueueInv, OwnNumbers, crashes = 0, InLine # <<>>, jp # <<>>,
           InLine[1] = jp[1], \A c \in Clients : StatusIs(c),
           Confirm \/ (OpenData /\ jp' # jp),
           NEW c \in Clients, c = jp[1].req
    PROVE  \E outcome \in {"printed", "dropped"} :
              /\ Status(c)' = outcome
              /\ \A d \in Clients : d # c => Status(d)' = Status(d)
<1>a. TypeOK /\ PrinterFiles
    BY DEF QueueInv, IndInv
<1>b. /\ jp[1] \in Jobs /\ jp[1].req \in Clients /\ jp[1].jobid \in JobIds
      /\ JobOf(jp[1].req) = jp[1]
      /\ jobid[jp[1].req] = jp[1].jobid
      /\ Status(jp[1].req) = "queued" /\ cpc[jp[1].req] \in Added
      /\ ~Confirmed(jp[1].req) /\ jp[1] \notin canceled
    BY HeadOfLine
<1>c. \A d \in Clients : jobid[d] = jp[1].jobid => d = c
    BY <1>b DEF OwnNumbers, Reused
<1>d. \A d \in Clients : JobOf(d).req = d
    BY DEF JobOf
<1>e. cpc' = cpc /\ jobid' = jobid /\ \A d \in Clients : JobOf(d)' = JobOf(d)
    BY DEF Confirm, OpenData, clientVars, JobOf
<1>1. CASE Confirm
  <2>1. printed' = printed \cup {[job |-> jp[1], data |-> sent]} /\ canceled' = canceled
    BY <1>1 DEF Confirm
  <2>2. OwnName(sent, jp[1].jobid)
    BY <1>1, <1>a DEF Confirm, PrinterFiles
  <2>3. sent \in Files /\ sent # NoFile /\ sent.by = c
    BY <2>2, <1>a, <1>c, FileFacts DEF OwnName, TypeOK, FileData
  <2>4. sent \in {Part(c), Whole(c)}
    BY <2>3, FileFacts
  <2>5. Confirmed(c)'
    <3>1. [job |-> jp[1], data |-> sent] \in printed'
      BY <2>1
    <3> QED
      BY <2>4, <3>1 DEF Confirmed
  <2>6. ASSUME NEW d \in Clients, d # c PROVE Confirmed(d)' <=> Confirmed(d)
    <3>1. sent \notin {Part(d), Whole(d)}
      BY <2>3, <2>6, FileFacts
    <3>2. \A p : p \in printed' <=> p \in printed \/ p = [job |-> jp[1], data |-> sent]
      BY <2>1
    <3> QED
      BY <3>1, <3>2 DEF Confirmed
  <2>7. Status(c)' = "printed"
    BY <2>5, <1>b, <1>e DEF Status, Added
  <2>8. ASSUME NEW d \in Clients, d # c PROVE Status(d)' = Status(d)
    BY <2>1, <2>6, <2>8, <1>e DEF Status
  <2> QED
    BY <2>7, <2>8
<1>2. CASE OpenData /\ jp' # jp
  <2>1. printed' = printed /\ canceled' = canceled \cup {jp[1]}
    BY <1>2 DEF OpenData
  <2>2. \A d \in Clients : Confirmed(d)' <=> Confirmed(d)
    BY <2>1 DEF Confirmed
  <2>3. Status(c)' = "dropped"
    BY <2>1, <2>2, <1>b, <1>e DEF Status, Added
  <2>4. ASSUME NEW d \in Clients, d # c PROVE Status(d)' = Status(d)
    <3>1. JobOf(d) # jp[1]
      BY <1>b, <1>d, <2>4
    <3> QED
      BY <2>1, <2>2, <2>4, <3>1, <1>e DEF Status
  <2> QED
    BY <2>3, <2>4
<1> QED
    BY <1>1, <1>2

\* Only AddJob takes a client's thread from the response to the signal.
LEMMA AddsItself ==
    ASSUME TypeOK, [Next]_vars, ~Crash, NEW b \in Clients,
           cpc[b] = "add", cpc'[b] = "signal"
    PROVE  AddJob(b)
<1>1. ASSUME NEW c \in Clients, Accept(c) \/ client_thread(c) PROVE AddJob(b)
  <2>1. b = c
    BY <1>1
    DEF TypeOK, Accept, client_thread, ReadHeader, get_newjobno, CreateData,
        ReceiveData, CreateRequest, WriteRequest, Respond, AddJob, SignalJob, Go
  <2> QED
    BY <1>1, <2>1
    DEF TypeOK, Accept, client_thread, ReadHeader, get_newjobno, CreateData,
        ReceiveData, CreateRequest, WriteRequest, Respond, SignalJob, Go
<1>2. ASSUME \/ Start \/ build_qonstart \/ ScanFails \/ printer_thread
             \/ SpuriousWakeup \/ UNCHANGED vars
      PROVE  cpc' = cpc
    BY <1>2
    DEF vars, build_qonstart, printer_thread, Start, ReadEntry, SignalEntry,
        EndScan, ScanFails, GetJob, SpuriousWakeup, update_jobno, OpenData,
        Connect, Send, Confirm, UnlinkData, UnlinkReq, Defer, Slept, clientVars
<1> QED
    BY <1>1, <1>2 DEF Next

\* A status that changes for one client changes the function Spooler has.
LEMMA BecomeFacts ==
    ASSUME NEW b \in Clients, NEW from, NEW to, Status(b) = from, Status(b)' = to,
           \A c \in Clients : c # b => Status(c)' = Status(c)
    PROVE  S!Become(b, from, to)
<1>1. SpoolerStatus' = [SpoolerStatus EXCEPT ![b] = to] /\ SpoolerStatus[b] = from
    BY DEF SpoolerStatus
<1> QED
    BY <1>1 DEF S!Become, SpoolerStatus

\* Every step of a daemon that does not die is a step of Spooler, or one that
\* Spooler does not see.
LEMMA SpoolerStep ==
    ASSUME QueueInv, QueueInv', OwnNumbers, OwnNumbers', crashes = 0, crashes' = 0,
           \A c \in Clients : StatusIs(c) /\ StatusIs(c)', [Next]_vars
    PROVE  [S!Next]_(S!svars)
<1>a. TypeOK /\ Numbering /\ Phases /\ FirstStart /\ JobsInMemory /\ ~Crash
    BY CountersGrow DEF QueueInv, IndInv
<1>b. InLine \in Seq(Jobs)
    BY <1>a, InLineIsPending
<1>c. ASSUME SpoolerStatus' = SpoolerStatus, SpoolerLine' = SpoolerLine
      PROVE  [S!Next]_(S!svars)
    BY <1>c DEF S!svars, SpoolerStatus, SpoolerLine, Requesters
<1>d. ASSUME SpoolerLine' = SpoolerLine, NEW b \in Clients,
             Status(b) = "new", Status(b)' \in {"refused", "accepted"},
             \A c \in Clients : c # b => Status(c)' = Status(c)
      PROVE  [S!Next]_(S!svars)
  <2>1. S!Become(b, "new", "refused") \/ S!Become(b, "new", "accepted")
    BY <1>d, BecomeFacts
  <2>2. S!Refuse(b) \/ S!Accept(b)
    BY <1>d, <2>1 DEF S!Refuse, S!Accept, SpoolerLine, Requesters
  <2> QED
    BY <2>2 DEF S!Next
<1>1. CASE InLine' = InLine /\ UNCHANGED <<printed, canceled>>
  <2>1. SpoolerLine' = SpoolerLine
    BY <1>1 DEF SpoolerLine, Requesters
  <2>2. CASE cpc' = cpc
    <3>1. jobid' = jobid
      BY <1>a, <2>2, ClientMoves DEF Move, Moves, Go, TypeOK
    <3>2. SpoolerStatus' = SpoolerStatus
      BY <1>1, <2>2, <3>1 DEF SpoolerStatus, Status, Confirmed, JobOf
    <3> QED
      BY <1>c, <2>1, <3>2
  <2>3. CASE cpc' # cpc
    <3>1. PICK b \in Clients : cpc'[b] # cpc[b]
      <4>1. cpc \in [Clients -> ClientPcs] /\ cpc' \in [Clients -> ClientPcs]
        BY DEF QueueInv, IndInv, TypeOK
      <4> QED
        BY <2>3, <4>1
    <3>2. /\ \A c \in Clients : c # b => Status(c)' = Status(c)
          /\ \/ Status(b)' = Status(b)
             \/ Status(b) = "new" /\ Status(b)' \in {"refused", "accepted"}
             \/ cpc[b] = "add" /\ Status(b) = "accepted" /\ cpc'[b] = "signal"
      BY <1>1, <1>a, <3>1, MoveRefines DEF FirstStart
    <3>3. CASE Status(b)' = Status(b)
      BY <1>c, <2>1, <3>2, <3>3 DEF SpoolerStatus
    <3>4. CASE Status(b) = "new" /\ Status(b)' \in {"refused", "accepted"}
      BY <1>d, <2>1, <3>2, <3>4
    <3>5. CASE cpc[b] = "add" /\ cpc'[b] = "signal"
      <4>1. AddJob(b)
        BY <1>a, <3>5, AddsItself
      <4>2. PICK job \in Jobs : queue' = Append(queue, job) /\ jp' = jp /\ ppc' = ppc
        <5>1. jobid[b] \in JobIds
          BY <1>a, <3>5 DEF Numbering, Numbered, TypeOK
        <5> QED
          BY <4>1, <5>1, JobFacts DEF AddJob, add_job, printerVars
      <4>3. Pending' = Append(Pending, job) /\ queue \in Seq(Jobs) /\ Pending \in Seq(Jobs)
        BY <1>a, <4>2, PendingGrows, PendingType DEF TypeOK
      <4>4. queue' # queue /\ Pending' # Pending
        BY <4>2, <4>3
      <4> QED
        BY <1>1, <4>2, <4>4 DEF InLine
    <3> QED
      BY <3>2, <3>3, <3>4, <3>5
  <2> QED
    BY <2>2, <2>3
<1>2. ASSUME NEW job \in Jobs, InLine' = Append(InLine, job), Joins(job),
             UNCHANGED <<printed, canceled>>
      PROVE  [S!Next]_(S!svars)
  <2>1. AddJob(job.req) /\ jobid[job.req] = job.jobid
    BY <1>2, <1>a DEF Joins, ReadEntry, FirstStart, Jobs
  <2>2. PICK b \in Clients : b = job.req
    BY DEF Jobs
  <2>3. cpc[b] = "add" /\ cpc'[b] = "signal" /\ jobid' = jobid
    BY <2>1, <2>2, <1>a DEF AddJob, Go, TypeOK
  <2>4. (JobOf(b))' = job
    BY <2>1, <2>2, <2>3 DEF JobOf, Jobs
  <2>5. ~Confirmed(b)' /\ job \notin canceled'
    <3>1. PICK i : i = Len(InLine) + 1
      OBVIOUS
    <3>2. i \in DOMAIN InLine' /\ InLine'[i] = job
      BY <1>2, <1>b, <3>1
    <3>3. job.jobid \in JobIds
      BY DEF Jobs
    <3> QED
      BY <2>2, <3>2, <3>3 DEF QueueInv, Unsettled, OwnNumbers
  <2>6. Status(b) = "accepted" /\ Status(b)' = "queued"
    BY <2>3, <2>4, <2>5 DEF StatusIs, Added
  <2>7. \A c \in Clients : c # b => Status(c)' = Status(c)
    BY <1>2, <1>a, <2>3, MoveRefines DEF FirstStart
  <2>8. S!Become(b, "accepted", "queued")
    BY <2>6, <2>7, BecomeFacts
  <2>9. SpoolerLine' = Append(SpoolerLine, b)
    BY <1>2, <1>b, <2>2, RequestersFollow DEF SpoolerLine
  <2>10. S!Enqueue(b)
    BY <2>8, <2>9 DEF S!Enqueue, SpoolerLine, Requesters
  <2> QED
    BY <2>10 DEF S!Next
<1>3. CASE /\ InLine # <<>> /\ jp # <<>> /\ InLine' = Tail(InLine)
           /\ InLine[1] = jp[1] /\ ppc \notin Done
           /\ Confirm \/ (OpenData /\ jp' # jp)
  <2>1. PICK b \in Clients : b = jp[1].req /\ Status(b) = "queued"
    BY <1>3, HeadOfLine
  <2>2. PICK outcome \in {"printed", "dropped"} :
           /\ Status(b)' = outcome
           /\ \A d \in Clients : d # b => Status(d)' = Status(d)
    BY <1>3, <2>1, ServeRefines
  <2>3. S!Become(b, "queued", outcome)
    BY <2>1, <2>2, BecomeFacts
  <2>4. /\ SpoolerLine # <<>> /\ Head(SpoolerLine) = b
        /\ SpoolerLine' = Tail(SpoolerLine)
    BY <1>3, <1>b, <2>1, RequestersFollow DEF SpoolerLine
  <2>5. S!Serve(outcome)
    BY <2>3, <2>4 DEF S!Serve, SpoolerLine, Requesters
  <2> QED
    BY <2>5 DEF S!Next
<1> QED
    BY <1>a, <1>1, <1>2, <1>3, InLineStep

\* What the daemon needs to be a spooler: it is not killed, and there are not
\* more clients than numbers.
NoCrashes == MaxCrashes = 0
EnoughNumbers == IsFiniteSet(Clients) /\ Cardinality(Clients) <= MaxJob

CalmInv == NoCrashes /\ EnoughNumbers /\ InTurn /\ crashes = 0
OneNumberEach == OwnNumbers /\ \A c \in Clients : StatusIs(c)

\* A daemon that does not die, and has numbers enough for its clients, answers
\* every job once, and serves the jobs in the order in which they joined.
THEOREM DaemonIsASpooler == NoCrashes /\ EnoughNumbers /\ Spec => ImplementsSpooler
<1>1. NoCrashes /\ EnoughNumbers /\ Init => CalmInv /\ S!Init
  <2> SUFFICES ASSUME NoCrashes, EnoughNumbers, Init PROVE CalmInv /\ S!Init
      OBVIOUS
  <2>1. HasNumber = {} /\ Cardinality(HasNumber) = 0
    BY FS_EmptySet DEF Init, HasNumber
  <2>2. InLine = <<>> /\ \A c \in Clients : Status(c) = "new"
    BY DEF Init, InLine, Pending, Status, Confirmed
  <2>3. [i \in DOMAIN InLine |-> InLine[i].req] = <<>>
    BY <2>2
  <2> QED
    BY <2>1, <2>2, <2>3 DEF Init, InTurn, S!Init, CalmInv
<1>2. QueueInv /\ CalmInv /\ [Next]_vars => CalmInv'
  <2> SUFFICES ASSUME QueueInv, CalmInv, [Next]_vars PROVE CalmInv'
      OBVIOUS
  <2>1. ~Crash
    BY DEF Crash, CalmInv, NoCrashes
  <2>2. crashes' = crashes
    BY <2>1
    DEF Next, vars, build_qonstart, printer_thread, client_thread, Start,
        ReadEntry, SignalEntry, EndScan, ScanFails, GetJob, SpuriousWakeup,
        update_jobno, OpenData, Connect, Send, Confirm, UnlinkData, UnlinkReq,
        Defer, Slept, Accept, ReadHeader, get_newjobno, CreateData, ReceiveData,
        CreateRequest, WriteRequest, Respond, AddJob, SignalJob, boundVars
  <2>3. InTurn'
    BY InTurnStep DEF CalmInv, EnoughNumbers
  <2> QED
    BY <2>2, <2>3 DEF CalmInv, NoCrashes, EnoughNumbers
<1>3. QueueInv /\ CalmInv => OneNumberEach
    BY InTurnIsOwn, StatusFacts DEF CalmInv, OneNumberEach
<1>4. QueueInv /\ CalmInv /\ OneNumberEach /\ QueueInv' /\ CalmInv' /\ OneNumberEach' /\ [Next]_vars
      => [S!Next]_(S!svars)
    BY SpoolerStep DEF CalmInv, OneNumberEach
<1> QED
    BY <1>1, <1>2, <1>3, <1>4, QueueInvariance, PTL DEF Spec, ImplementsSpooler, S!Spec
=============================================================================
