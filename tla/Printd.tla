------------------------------- MODULE Printd -------------------------------
(***************************************************************************)
(* The print server daemon of printer/printd.c: the threads that accept    *)
(* jobs (client_thread), the one that prints them (printer_thread), the    *)
(* main thread that rebuilds the queue after a restart (build_qonstart),   *)
(* the spool directories and the job number file.                          *)
(*                                                                         *)
(* A client is one submission by print(1) and the thread that serves it.   *)
(* The bytes of a job are abstracted to whose they are and whether all of  *)
(* them are there.  Every critical section under joblock is one action;    *)
(* the signal on jobwait, which add_job sends after unlocking, is another. *)
(* A crash stands for every way the process ends: SIGKILL, a power cut,    *)
(* the exit of SIGTERM and the exits of log_sys, log_quit, init_printer.   *)
(***************************************************************************)
EXTENDS Integers, Sequences, FiniteSets

CONSTANTS Clients,    \* the submissions
          NoFile,     \* a name with no file behind it
          MaxJob,     \* the largest job number, INT32_MAX in the code
          Base,       \* of the digits in the job number file, ten in the code
          MaxCrashes, \* bound: times the daemon dies
          MaxFaults   \* bound: failures of opendir, open, read and fstat in
                      \* the spool

ASSUME MaxJobAssumption == MaxJob \in Nat \ {0}
ASSUME BaseAssumption == Base \in Nat \ {0, 1}
ASSUME MaxCrashesAssumption == MaxCrashes \in Nat
ASSUME MaxFaultsAssumption == MaxFaults \in Nat

\* The values of an int32_t.  The counter is meant to stay positive, but what
\* the number file says after a wrap may be any of them.
MinJob == -(MaxJob + 1)
JobIds == MinJob..MaxJob
NoNumber == MinJob - 1

\* The conversion of atol's long to an int32_t.
Int32(n) == ((n - MinJob) % (2 * (MaxJob + 1))) + MinJob

\* A spool file: whose bytes it holds, and whether they are all there.
FileData == [by : Clients, whole : BOOLEAN]
Files == FileData \cup {NoFile}
Part(c) == [by |-> c, whole |-> FALSE]
Whole(c) == [by |-> c, whole |-> TRUE]

ASSUME NoFileAssumption == NoFile \notin FileData

\* struct job: the job number and the copy of the client's request.
Jobs == [jobid : JobIds, req : Clients]

ClientPcs == {"none", "header", "number", "creat", "receive", "control",
              "request", "respond", "add", "signal", "done", "refused", "dead"}
MainPcs == {"down", "scan", "signal", "accept"}
PrinterPcs == {"off", "top", "wait", "jobno", "open", "connect", "send",
               "status", "unlinkData", "unlinkReq", "sleep"}

\* The job number file: the number its text stands for, and the text's length.
JobFiles == [num : Int, width : Nat]
EmptyFile == [num |-> 0, width |-> 0]

Abs(n) == IF n < 0 THEN -n ELSE n

\* The characters of n: its digits, and a minus sign.
Width(n) == (IF n < 0 THEN 2 ELSE 1)
            + Cardinality({k \in 1..MaxJob : Base^k <= Abs(n)})

\* The file f with n written over its first characters: as there is no truncate,
\* the last k characters of a longer text stay behind n.
Overwritten(f, n) ==
    LET k == f.width - Width(n)
        p == Base^k
        rest == {r \in 0..(p - 1) : r % p = Abs(f.num) % p}
    IN IF k <= 0
       THEN {[num |-> n, width |-> Width(n)]}
       ELSE {[num |-> IF n < 0 THEN n * p - r ELSE n * p + r,
              width |-> f.width] : r \in rest}

\* What an earlier run can have left: nothing, or a number, perhaps written over
\* another one after the counter went past the largest.
EarlierFiles ==
    {EmptyFile}
    \cup UNION {Overwritten([num |-> m, width |-> Width(m)], n) :
                   m \in 1..MaxJob, n \in 1..MaxJob}

VARIABLES
    mpc,        \* the main thread
    scan,       \* request files build_qonstart has yet to read
    nextjob,    \* the job counter
    jobno,      \* the job number file
    queue,      \* the list from jobhead to jobtail
    data,       \* SPOOLDIR/DATADIR
    reqs,       \* SPOOLDIR/REQDIR
    cpc,        \* the client threads
    jobid,      \* the number each client was given, NoNumber before
    ppc,        \* the printer thread
    jp,         \* its job: <<>>, or <<job>> when off the list
    fd,         \* its data file, once that is unlinked; NoFile before
    sent,       \* what it last sent to the printer
    acked,      \* history: clients told that their job was accepted
    printed,    \* history: jobs the printer confirmed, with the data it got
    canceled,   \* history: jobs dropped because their data would not open
    unread,     \* history: clients whose request a restart failed to read
    crashes, faults

mainVars == <<mpc, scan>>
spoolVars == <<data, reqs>>
clientVars == <<cpc, jobid>>
printerVars == <<ppc, jp, fd, sent>>
historyVars == <<acked, printed, canceled, unread>>
boundVars == <<crashes, faults>>
vars == <<mainVars, nextjob, jobno, queue, spoolVars, clientVars, printerVars,
          historyVars, boundVars>>

Init ==
    /\ mpc = "down" /\ scan = {}
    /\ nextjob = 1 /\ jobno \in EarlierFiles
    /\ queue = <<>>
    /\ data = [j \in JobIds |-> NoFile]
    /\ reqs = [j \in JobIds |-> NoFile]
    /\ cpc = [c \in Clients |-> "none"]
    /\ jobid = [c \in Clients |-> NoNumber]
    /\ ppc = "off" /\ jp = <<>> /\ fd = NoFile /\ sent = NoFile
    /\ acked = {} /\ printed = {} /\ canceled = {} /\ unread = {}
    /\ crashes = 0 /\ faults = 0

-----------------------------------------------------------------------------
(* The job queue *)

add_job(job) == queue' = Append(queue, job)

\* Mutants: the deferred job is not put back, or put back at the tail.
MutForgetJob(job) == queue' = queue
MutDeferToTail(job) == queue' = Append(queue, job)

replace_job(job) == queue' = <<job>> \o queue

\* Mutant: the job stays on the list while it is printed.
MutLeaveOnList == queue' = queue

remove_job == queue' = Tail(queue)

\* Mutant: add_job does not signal.
MutNoSignal == UNCHANGED ppc

\* pthread_cond_signal(&jobwait): only printer_thread waits on it.
signal_jobwait == ppc' = IF ppc = "wait" THEN "top" ELSE ppc

-----------------------------------------------------------------------------
(* The main thread *)

\* main up to build_qonstart: init_request takes the job number from its file
\* and the printer thread is started before the queue is rebuilt.
Start ==
    /\ mpc = "down"
    /\ mpc' = "scan"
    /\ scan' = {j \in JobIds : reqs[j] # NoFile}
    /\ nextjob' = IF jobno = EmptyFile THEN 1 ELSE Int32(jobno.num)
    /\ ppc' = "top"
    /\ UNCHANGED <<jobno, queue, spoolVars, clientVars, jp, fd, sent,
                   historyVars, boundVars>>

\* One directory entry: a request that is read in full is queued.  One that is
\* incomplete, or whose read fails (a fault), is removed together with its data.
ReadEntry(j) ==
    /\ mpc = "scan" /\ j \in scan
    /\ scan' = scan \ {j}
    /\ \/ /\ reqs[j] # NoFile /\ reqs[j].whole
          /\ add_job([jobid |-> j, req |-> reqs[j].by])
          /\ mpc' = "signal"
          /\ UNCHANGED spoolVars
          /\ UNCHANGED <<unread, faults>>
       \/ /\ reqs[j] # NoFile
          /\ \/ ~reqs[j].whole /\ UNCHANGED <<unread, faults>>
             \/ /\ faults < MaxFaults
                /\ faults' = faults + 1
                /\ unread' = unread \cup {reqs[j].by}
          /\ reqs' = [reqs EXCEPT ![j] = NoFile]
          /\ data' = [data EXCEPT ![j] = NoFile]
          /\ UNCHANGED <<mpc, queue>>
    /\ UNCHANGED <<nextjob, jobno, clientVars, printerVars, acked, printed,
                   canceled, crashes>>

SignalEntry ==
    /\ mpc = "signal"
    /\ mpc' = "scan"
    /\ signal_jobwait
    /\ UNCHANGED <<scan, nextjob, jobno, queue, spoolVars, clientVars, jp, fd,
                   sent, historyVars, boundVars>>

EndScan ==
    /\ mpc = "scan" /\ scan = {}
    /\ mpc' = "accept"
    /\ UNCHANGED <<scan, nextjob, jobno, queue, spoolVars, clientVars,
                   printerVars, historyVars, boundVars>>

\* opendir fails: build_qonstart returns and queues nothing; or one request
\* file will not open and is passed over.
ScanFails ==
    /\ mpc = "scan" /\ scan # {} /\ faults < MaxFaults
    /\ faults' = faults + 1
    /\ \E rest \in {{}} \cup {scan \ {j} : j \in scan} : scan' = rest
    /\ UNCHANGED <<mpc, nextjob, jobno, queue, spoolVars, clientVars,
                   printerVars, historyVars, crashes>>

build_qonstart == (\E j \in JobIds : ReadEntry(j)) \/ SignalEntry \/ EndScan

Accept(c) ==
    /\ mpc = "accept" /\ cpc[c] = "none"
    /\ cpc' = [cpc EXCEPT ![c] = "header"]
    /\ UNCHANGED <<mainVars, nextjob, jobno, queue, spoolVars, jobid,
                   printerVars, historyVars, boundVars>>

-----------------------------------------------------------------------------
(* client_thread *)

Go(c, from, to) == cpc[c] = from /\ cpc' = [cpc EXCEPT ![c] = to]

\* Mutant: an error path forgets the data file.
MutKeepData(j) == UNCHANGED <<data, fd>>

\* unlink of data file j: a printer thread that has it open keeps its bytes.
unlink_data(j) ==
    /\ data' = [data EXCEPT ![j] = NoFile]
    /\ fd' = IF /\ ppc \in {"connect", "send"} /\ fd = NoFile
                /\ jp[1].jobid = j
             THEN data[j] ELSE fd

\* treadn of the request header; short, late or broken, it is answered with
\* an error.  So is an add_worker that finds no memory.
ReadHeader(c) ==
    /\ Go(c, "header", "number") \/ Go(c, "header", "refused")
    /\ UNCHANGED <<mainVars, nextjob, jobno, queue, spoolVars, jobid,
                   printerVars, historyVars, boundVars>>

\* Mutant: no test for the overflow.
MutNoWrap(c) ==
    /\ Go(c, "number", "creat")
    /\ jobid' = [jobid EXCEPT ![c] = nextjob]
    /\ nextjob' = nextjob + 1
    /\ UNCHANGED <<mainVars, jobno, queue, spoolVars, printerVars,
                   historyVars, boundVars>>

\* The counter is set to 1 when it is not positive: past the largest number,
\* where it overflows, and after a number the file had wrong was handed out.
get_newjobno(c) ==
    /\ Go(c, "number", "creat")
    /\ jobid' = [jobid EXCEPT ![c] = nextjob]
    /\ nextjob' = IF nextjob + 1 \in 1..MaxJob THEN nextjob + 1 ELSE 1
    /\ UNCHANGED <<mainVars, jobno, queue, spoolVars, printerVars,
                   historyVars, boundVars>>

\* creat truncates a data file that is already there.
CreateData(c) ==
    /\ \/ /\ Go(c, "creat", "receive")
          /\ data' = [data EXCEPT ![jobid[c]] = Part(c)]
       \/ Go(c, "creat", "refused") /\ UNCHANGED data
    /\ UNCHANGED <<mainVars, nextjob, jobno, queue, reqs, jobid, printerVars,
                   historyVars, boundVars>>

\* The loop of tread and write.  It ends at end of file, with all bytes
\* written; when tread fails or times out, which is taken for end of file; or
\* when write fails.  The bytes go nowhere if the name was unlinked meanwhile.
ReceiveData(c) ==
    /\ \/ /\ Go(c, "receive", "control")
          /\ \/ data' = [data EXCEPT ![jobid[c]] =
                           IF data[jobid[c]] = Part(c)
                           THEN Whole(c)
                           ELSE data[jobid[c]]]
             \/ UNCHANGED data
          /\ UNCHANGED fd
       \/ Go(c, "receive", "refused") /\ unlink_data(jobid[c])
    /\ UNCHANGED <<mainVars, nextjob, jobno, queue, reqs, jobid, ppc, jp, sent,
                   historyVars, boundVars>>

CreateRequest(c) ==
    /\ \/ /\ Go(c, "control", "request")
          /\ reqs' = [reqs EXCEPT ![jobid[c]] = Part(c)]
          /\ UNCHANGED <<data, fd>>
       \/ /\ Go(c, "control", "refused")
          /\ unlink_data(jobid[c])
          /\ UNCHANGED reqs
    /\ UNCHANGED <<mainVars, nextjob, jobno, queue, jobid, ppc, jp, sent,
                   historyVars, boundVars>>

\* Mutant: a short write of the request goes unnoticed.
MutShortRequest(c) ==
    /\ Go(c, "request", "respond")
    /\ UNCHANGED <<mainVars, nextjob, jobno, queue, spoolVars, jobid,
                   printerVars, historyVars, boundVars>>

\* The request is written with the request file still open: if the name was
\* unlinked or taken over meanwhile, the bytes do not become a file of c.
WriteRequest(c) ==
    /\ \/ /\ Go(c, "request", "respond")
          /\ reqs' = [reqs EXCEPT ![jobid[c]] =
                        IF reqs[jobid[c]] = NoFile THEN NoFile
                        ELSE Whole(c)]
          /\ UNCHANGED <<data, fd>>
       \/ /\ Go(c, "request", "refused")
          /\ reqs' = [reqs EXCEPT ![jobid[c]] = NoFile]
          /\ unlink_data(jobid[c])
    /\ UNCHANGED <<mainVars, nextjob, jobno, queue, jobid, ppc, jp, sent,
                   historyVars, boundVars>>

\* The success response goes out before the job is on the queue.
Respond(c) ==
    /\ Go(c, "respond", "add")
    /\ acked' = acked \cup {c}
    /\ UNCHANGED <<mainVars, nextjob, jobno, queue, spoolVars, jobid,
                   printerVars, printed, canceled, unread, boundVars>>

AddJob(c) ==
    /\ Go(c, "add", "signal")
    /\ add_job([jobid |-> jobid[c], req |-> c])
    /\ UNCHANGED <<mainVars, nextjob, jobno, spoolVars, jobid, printerVars,
                   historyVars, boundVars>>

SignalJob(c) ==
    /\ Go(c, "signal", "done")
    /\ signal_jobwait
    /\ UNCHANGED <<mainVars, nextjob, jobno, queue, spoolVars, jobid, jp, fd,
                   sent, historyVars, boundVars>>

client_thread(c) ==
    \/ ReadHeader(c) \/ get_newjobno(c) \/ CreateData(c) \/ ReceiveData(c)
    \/ CreateRequest(c) \/ WriteRequest(c) \/ Respond(c) \/ AddJob(c)
    \/ SignalJob(c)

-----------------------------------------------------------------------------
(* printer_thread *)

\* Take the first job, or wait for one.
GetJob ==
    /\ ppc = "top"
    /\ \/ queue = <<>> /\ ppc' = "wait" /\ UNCHANGED <<queue, jp>>
       \/ /\ queue # <<>>
          /\ jp' = <<Head(queue)>>
          /\ remove_job
          /\ ppc' = "jobno"
    /\ UNCHANGED <<mainVars, nextjob, jobno, spoolVars, clientVars, fd, sent,
                   historyVars, boundVars>>

\* pthread_cond_wait may return unprompted; the while loop tests again.
SpuriousWakeup ==
    /\ ppc = "wait"
    /\ ppc' = "top"
    /\ UNCHANGED <<mainVars, nextjob, jobno, queue, spoolVars, clientVars, jp,
                   fd, sent, historyVars, boundVars>>

\* Only this thread writes the file, so reading nextjob without joblock and
\* writing what was read can be taken as one step, at the read.
update_jobno ==
    /\ ppc = "jobno"
    /\ ppc' = "open"
    /\ jobno' \in Overwritten(jobno, nextjob)
    /\ UNCHANGED <<mainVars, nextjob, queue, spoolVars, clientVars, jp, fd,
                   sent, historyVars, boundVars>>

\* A data file that is not there, or cannot be opened or examined (a fault),
\* costs the job its place in the queue; its request file stays.
OpenData ==
    /\ ppc = "open"
    /\ \/ /\ data[jp[1].jobid] # NoFile
          /\ ppc' = "connect"
          /\ UNCHANGED <<jp, canceled, faults>>
       \/ /\ data[jp[1].jobid] = NoFile \/ faults < MaxFaults
          /\ faults' = IF data[jp[1].jobid] = NoFile THEN faults ELSE faults + 1
          /\ canceled' = canceled \cup {jp[1]}
          /\ jp' = <<>>
          /\ ppc' = "top"
    /\ fd' = NoFile
    /\ UNCHANGED <<mainVars, nextjob, jobno, queue, spoolVars, clientVars,
                   sent, acked, printed, unread, crashes>>

Connect ==
    /\ ppc = "connect"
    /\ ppc' = "send"
    /\ UNCHANGED <<mainVars, nextjob, jobno, queue, spoolVars, clientVars, jp,
                   fd, sent, historyVars, boundVars>>

\* Mutant: what was read for an earlier job is sent again.
MutSendStale ==
    /\ ppc = "send"
    /\ ppc' = "status"
    /\ sent' = IF sent = NoFile THEN data[jp[1].jobid] ELSE sent
    /\ UNCHANGED <<mainVars, nextjob, jobno, queue, spoolVars, clientVars, jp,
                   fd, historyVars, boundVars>>

\* The headers and then the bytes the open data file has now.
Send ==
    /\ ppc = "send"
    /\ ppc' = "status"
    /\ sent' = IF fd = NoFile THEN data[jp[1].jobid] ELSE fd
    /\ UNCHANGED <<mainVars, nextjob, jobno, queue, spoolVars, clientVars, jp,
                   fd, historyVars, boundVars>>

\* printer_status is true: the printer took the job.
Confirm ==
    /\ ppc = "status"
    /\ ppc' = "unlinkData"
    /\ printed' = printed \cup {[job |-> jp[1], data |-> sent]}
    /\ UNCHANGED <<mainVars, nextjob, jobno, queue, spoolVars, clientVars, jp,
                   fd, sent, acked, canceled, unread, boundVars>>

UnlinkData ==
    /\ ppc = "unlinkData"
    /\ ppc' = "unlinkReq"
    /\ data' = [data EXCEPT ![jp[1].jobid] = NoFile]
    /\ UNCHANGED <<mainVars, nextjob, jobno, queue, reqs, clientVars, jp, fd,
                   sent, historyVars, boundVars>>

UnlinkReq ==
    /\ ppc = "unlinkReq"
    /\ ppc' = "top"
    /\ reqs' = [reqs EXCEPT ![jp[1].jobid] = NoFile]
    /\ jp' = <<>>
    /\ UNCHANGED <<mainVars, nextjob, jobno, queue, data, clientVars, fd, sent,
                   historyVars, boundVars>>

\* No connection, a write that fails or a status that is not a success: the
\* job goes back to the head of the queue.
Defer ==
    /\ ppc \in {"connect", "send", "status"}
    /\ ppc' = "sleep"
    /\ replace_job(jp[1])
    /\ jp' = <<>>
    /\ UNCHANGED <<mainVars, nextjob, jobno, spoolVars, clientVars, fd, sent,
                   historyVars, boundVars>>

\* nanosleep of a minute
Slept ==
    /\ ppc = "sleep"
    /\ ppc' = "top"
    /\ UNCHANGED <<mainVars, nextjob, jobno, queue, spoolVars, clientVars, jp,
                   fd, sent, historyVars, boundVars>>

printer_thread ==
    \/ GetJob \/ update_jobno \/ OpenData \/ Connect \/ Send \/ Confirm
    \/ UnlinkData \/ UnlinkReq \/ Defer \/ Slept

-----------------------------------------------------------------------------
\* The process is gone; files stay as they are.
Crash ==
    /\ mpc # "down" /\ crashes < MaxCrashes
    /\ crashes' = crashes + 1
    /\ mpc' = "down" /\ scan' = {}
    /\ queue' = <<>>
    /\ cpc' = [c \in Clients |->
                 IF cpc[c] \in {"none", "done", "refused"} THEN cpc[c] ELSE "dead"]
    /\ ppc' = "off" /\ jp' = <<>> /\ fd' = NoFile /\ sent' = NoFile
    /\ UNCHANGED <<nextjob, jobno, spoolVars, jobid, historyVars, faults>>

Next ==
    \/ Start \/ build_qonstart \/ ScanFails \/ Crash
    \/ \E c \in Clients : Accept(c) \/ client_thread(c)
    \/ printer_thread \/ SpuriousWakeup

Spec == Init /\ [][Next]_vars

\* The threads run, an operator restarts a daemon that died, and a printer
\* that is tried for ever takes a job some time.
Fairness ==
    /\ WF_vars(Start) /\ WF_vars(build_qonstart) /\ WF_vars(printer_thread)
    /\ \A c \in Clients : WF_vars(client_thread(c))
    /\ SF_vars(Connect) /\ SF_vars(Send) /\ SF_vars(Confirm)

FairSpec == Spec /\ Fairness

-----------------------------------------------------------------------------
(* Properties *)

Reused(j) == \E c, d \in Clients : c # d /\ jobid[c] = j /\ jobid[d] = j

Pending == jp \o queue

Confirmed(c) == \E p \in printed : p.data \in {Part(c), Whole(c)}

Spooled(c) ==
    /\ data[jobid[c]] \in {Part(c), Whole(c)}
    /\ reqs[jobid[c]] = Whole(c)

JobOf(c) == [jobid |-> jobid[c], req |-> c]

\* Every variable has the type of the code's variable it stands for, and the
\* printer thread holds a job exactly between picking it up and letting go.
TypeOK ==
    /\ mpc \in MainPcs /\ scan \in SUBSET JobIds
    /\ nextjob \in JobIds /\ jobno \in JobFiles
    /\ queue \in Seq(Jobs)
    /\ data \in [JobIds -> Files] /\ reqs \in [JobIds -> Files]
    /\ cpc \in [Clients -> ClientPcs]
    /\ jobid \in [Clients -> JobIds \cup {NoNumber}]
    /\ ppc \in PrinterPcs
    /\ IF ppc \in {"off", "top", "wait", "sleep"}
       THEN jp = <<>> ELSE \E job \in Jobs : jp = <<job>>
    /\ fd \in Files /\ sent \in Files
    /\ acked \in SUBSET Clients
    /\ printed \in SUBSET [job : Jobs, data : Files]
    /\ canceled \in SUBSET Jobs /\ unread \in SUBSET Clients
    /\ crashes \in Nat /\ faults \in Nat

\* A job the client was told is accepted stays in the spool, data and request,
\* until the printer has confirmed it, through crashes of the daemon at any
\* step: client_thread writes both files before it responds, printer_thread
\* unlinks them only after printer_status.  Two things can take it away: a later
\* job that was given the same number, and a restart whose read of the request
\* fails, after which build_qonstart unlinks both files.
Durable ==
    \A c \in acked : \/ Reused(jobid[c]) \/ c \in unread
                     \/ Confirmed(c) \/ Spooled(c)

\* What printer_thread sends under a job's headers (user, job name) is the data
\* of the client that made the request, unless two clients had the number.
HeadersMatchData ==
    \A p \in printed : /\ p.data \in FileData
                       /\ p.data.by = p.job.req \/ Reused(p.job.jobid)

\* A job is on the list or in the printer thread's hands once: build_qonstart,
\* add_job and replace_job never leave two entries of the same job.
NoDuplicates ==
    \A i, k \in 1..Len(Pending) :
        i # k /\ Pending[i].jobid = Pending[k].jobid => Reused(Pending[i].jobid)

\* Once build_qonstart is done every accepted job that is not yet printed is on
\* the list or in hand, also the ones accepted before a crash, unless a fault
\* kept a spool file from being opened or read.
NothingForgotten ==
    mpc = "accept" /\ faults = 0 =>
        \A c \in acked : \/ cpc[c] = "add" \/ Reused(jobid[c]) \/ Confirmed(c)
                         \/ \E i \in 1..Len(Pending) : Pending[i] = JobOf(c)

\* Without a crash or a fault, an idle daemon has an empty spool: every error
\* path of client_thread and the end of printer_thread remove what was made,
\* unless two clients had the number of the files.
IdleSpoolIsEmpty ==
    /\ mpc = "accept" /\ crashes = 0 /\ faults = 0
    /\ \A c \in Clients : cpc[c] \in {"none", "done", "refused"}
    /\ Pending = <<>>
    => \A j \in JobIds : Reused(j) \/ (data[j] = NoFile /\ reqs[j] = NoFile)

\* "Update the job ID file with the next job number": a number handed out does
\* not name a job that waits in the spool, also after a restart.
FreshNumbers ==
    [][\A c \in Clients : jobid'[c] # jobid[c] => reqs[jobid'[c]] = NoFile]_vars

\* An accepted job is printed in the end, though the daemon crashes and the
\* printer refuses jobs, if the threads run, the daemon is restarted and the
\* printer takes a job some time; add_job's signal never gets lost.  (The run
\* has no faults: a spool file that is not read in a restart is not printed.)
EventuallyPrinted ==
    \A c \in Clients : c \in acked ~> Confirmed(c) \/ Reused(jobid[c])

-----------------------------------------------------------------------------
(* What the daemon promises while it runs: see Spooler. *)

InLine == IF ppc \in {"unlinkData", "unlinkReq"} THEN queue ELSE Pending

Status(c) ==
    IF cpc[c] = "refused" THEN "refused"
    ELSE IF Confirmed(c) THEN "printed"
    ELSE IF JobOf(c) \in canceled THEN "dropped"
    ELSE IF cpc[c] \in {"signal", "done"} THEN "queued"
    ELSE IF cpc[c] = "add" THEN "accepted" ELSE "new"

S == INSTANCE Spooler WITH status <- [c \in Clients |-> Status(c)],
                           line <- [i \in DOMAIN InLine |-> InLine[i].req]

\* A daemon that does not die implements Spooler: every job is answered once,
\* and queued jobs leave the line in the order in which they joined it, though
\* printer_thread takes them off the list and puts them back.
ImplementsSpooler == S!Spec
=============================================================================
