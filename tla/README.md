# TLA+ models of the APUE example programs

The repository holds the programs of *Advanced Programming in the UNIX
Environment* and three file synchronizers. Most of its files show one system
call. Some are real concurrent programs: the print daemon, the database library,
the open servers, the synchronizers, and the thread, process and terminal
programs that share data or wait for each other. This directory models those,
checks them with TLC on small instances and proves most of their safety properties
for every value of the constants with TLAPS.

Run `tlc -config X.cfg M` for a line of the table of runs below, and `tlapm M.tla`
for each of the modules `*Proofs`. `PROJECT.json` lists the components,
the source lines behind every definition, the hazards, the runs, a mutant for
every property, the findings and the theorems.

## Inventory

| Part | State it keeps | Operations | What is hard |
|---|---|---|---|
| Print daemon (`printer/printd.c`, `util.c`) | job queue, job counter and its file, spool directories, worker list, configuration | submit, print, restart, SIGHUP, SIGTERM | four kinds of threads, crashes between any two steps, retries |
| Printer response (`printd.c` `printer_status`, `readmore`) | a buffer with offset and size | read a response that comes in pieces | sizes and offsets across reads |
| Database library (`db/db.c`, `lib/lockreg.c`) | index and data file, fcntl locks, DB handle | open, fetch, store, delete, rewind, nextrec, close | several processes, lists in a file, processes that die |
| Thread, process and simple synchronizers (`Multi_thread_rsync_task`, `Multi_process_rsync_task`, `rsync_task`) | file list, statistics, source and target trees | compare, copy, stamp | workers in parallel, failures, edits meanwhile |
| Open servers (`ipc2/`, `lib/*fd.c`, `servaccept.c`, `cliconn.c`, `bufargs.c`) | client table, descriptor set or `pollfd` array, error text | connect, request, answer, hang-up | events of several clients in one loop, clients that die |
| Semaphores (`lib/semaph.c`) | System V semaphore set with a process counter and a lock | create, open, close, wait, signal, remove | creation against removal, processes that die in a call |
| Object table (`threads/mutex1.c` to `mutex3.c`) | reference-counted objects, hash table | alloc, hold, find, release | lock order, recheck after a lock was dropped |
| Job queue (`threads/rwlock.c`) | doubly linked list under a read-write lock | insert, append, remove, find | what was found under a lock that is gone |
| Condition variables (`threads/condvar.c`, `threadctl/suspend.c`) | message list, quit flag | enqueue, process; signal thread | signals sent after the unlock |
| Retry timer (`threadctl/timeout.c`, `detach.c`) | recursive mutex, a detached thread | timeout, retry | the caller may run the function itself |
| Parallel sort (`threads/barrier.c`) | an array in parts, a barrier | sort, merge | main and threads meet once |
| Asynchronous I/O (`advio/rot13c2.c`) | a ring of buffers, a counter | read, translate, write | completions in any order |
| Memory stream (`exercises/fmemopen.c`) | buffer, size, position | open, read, write, seek, close | null bytes at the edges |
| Parent and child (`lib/tellwait.c`, `ipc1/tellwait.c` and their users) | a flag and a mask, or two pipes | tell, wait | a signal between a test and a wait |
| `popen` (`lib/popen.c`) | pids by descriptor | popen, pclose | descriptors that children inherit |
| Terminal (`lib/ttymodes.c`, `termios/t_raw.c`, `pty/`) | terminal modes, two copying processes | raw, cbreak, reset; copy, SIGTERM | partial success, signals, either side ends first |
| Everything else | none that outlives a call | | |

The parts interact little. `print` talks to `printd` over a socket; the synchronizers
and the database share nothing but the file system; `lib/` is linked into all.

What makes each part correct: an accepted job is printed, once, whole, in order;
the database's calls take effect one at a time and its lists stay whole; a
synchronizer that reports success has made the trees equal; a server answers the
client that asked and watches what is open; a semaphore set counts its users; an
object lives as long as somebody refers to it; and whoever waits is woken.

## The modules and the code

### The print daemon

`Printd` is the daemon with its spool. The main thread (`mpc`) starts, rebuilds
the queue from the request files (`build_qonstart`: `ReadEntry`, `SignalEntry`,
`EndScan`, `ScanFails`) and then accepts. A client (`cpc`) is one submission by
`print` and the thread that serves it; the actions of `client_thread` are the
steps of the function of that name, from `ReadHeader` and `get_newjobno` to
`Respond`, `AddJob` and `SignalJob`, each with its error path. The printer
thread (`ppc`) waits on `jobwait`, takes a job off the list (`GetJob`), writes
the job number file (`update_jobno`), opens, connects, sends, waits for the
confirmation, unlinks two files, or puts the job back and sleeps. A critical
section under `joblock` is one action; the signal that `add_job` sends after it
unlocks is another, because other threads run in between. The files hold whose
bytes they have and whether these are complete. `Crash` may come at any step and
keeps the files, nothing else.

Job numbers are `int32_t`s and the job number file is a text: `MaxJob` stands for
`INT32_MAX` and `Base` for ten. `update_jobno` writes over the first characters and does
not truncate (`Overwritten`), so once the counter has wrapped the file has the new
number's digits and then digits of the old one; `atol` and the assignment to `nextjob`
(`Int32`) may make a negative number of it, and `get_newjobno` hands that out. `Init`
has every file that an earlier run can have left (`EarlierFiles`). In `build_qonstart` a
request is removed with its data when it is incomplete, and also when the `read` of a
complete one fails (`ReadEntry`; `unread` remembers whose it was).

`Spooler` is what clients may expect of a daemon that does not die: a queue that
is served in order. `Printd` is shown to implement it with `line` as the job in
hand followed by the list.

`PrintdWorkers` is the doubly linked list of client threads, pointer by pointer
(`add_worker`, `client_cleanup`, `kill_workers`), with any number of threads at once. When
the one listed thread ends with another record in front of its own, `workers` is left
pointing at freed memory; what the code does with the list after that is undefined, and the
actions that read it stop (`HeadIsAllocated`). `PrintdConfig` is SIGHUP, the
`reread` flag and the printer address that `printer_thread` replaces.
`PrintdSignals` composes the two through `signal_thread`, which waits for both
signals.

`PrinterStatus` is `printer_status` with `readmore`: a response is the offsets of
its parts, and a read of bytes that `tread` has not delivered goes to
`undefined`. An informational response comes in a read of its own.

### The database

`Db` has the index file as a table of pointers and a sequence of records, the
data file as a sequence, the fcntl locks as a set, and the DB structure of each
process. One step is one access to a file, together with the lock taken just
before it or given back just after it. Record lengths stay, since they decide
which free records fit. `Dictionary` is its promise: every call takes effect at
one moment between call and return.

`Db` rests on two assumptions that the code does not enforce: no process dies
inside `_db_dodelete` (the chain would run on into the free list) and nobody opens with
`O_TRUNC` a database that is in use. The files that the programs find (`Databases`) are
empty or what programs that used the library and ended have left (`Intact`): every record is
on one list and has its own place in the data file (`DatabaseAssumption`).

### The synchronizers

`SyncFiles` is what the three programs share: the source and target trees with
contents in blocks and times in seconds, a clock, edits, calls that fail, and
the variables of a run. `ThreadSync`, `ProcessSync` and `SimpleSync` are the
programs, with every call that can fail and what the code does then. `Sync`
starts runs of any of them, one after the other, on the same two trees, and may
kill a run at any step, so each program meets what another left behind.

Left out: files that appear or vanish during a run, sources that are not a
directory, permissions and owners, lists longer than the first allocation. Edits
set the modification time to the current second. The comparison of two small
files is one step. A run starts when the children of the last one are gone.

### The servers

`Opend` is three programs and their clients: the server around `select`, the one
around `poll`, and the one each client forks. A client is `csopen` and `recv_fd`,
a socket is what was written and not yet read, and descriptors are numbers that
are used again as soon as they are closed, as the kernel does. A request keeps what
the code tells apart: whether its file opens, whether it has too many words,
whether it fits the server's buffer. Clients may be killed with an answer unread,
which is a reset for the server, and nobody handles SIGPIPE.

`Semaph` has the sets of three semaphores by identifier, the key's current
identifier and, for each process, what the kernel will undo. A step is one
`semop` or `semctl`.

`MCServers` composes the two for one run: the first step chooses the program,
and the other never starts.

### The small programs

`MCPrograms` composes these modules in the same way.

- `ObjectTable`: the three versions of `foo_alloc`, `foo_hold`, `foo_find` and
  `foo_rele`. A step ends where a lock must be waited for.
- `JobQueue`: the list pointer by pointer; a worker looks one job further in each
  step, and removes what it found in a later one.
- `Condvars`: the sections under the mutex are one action; the signal after the
  unlock is another; waiters may wake without a signal.
- `Timeout`: times are seconds and fractions, with `SECTONSEC` fractions in a second,
  so that the subtraction borrows.
- `SortThreads`: the parts, the barrier and `merge`, one number per step.
- `Rot13`: requests that the kernel completes in any order, failures, and an input
  that is cut while it is read.
- `MemStream`: `fmemopen` and its four functions beside `file`, the file that the
  stream stands for. One cell behind the buffer shows writes that leave it.
- `TellWait`: both versions of the functions and three programs that use them.
- `Popen`: the descriptors of the program and of its commands, and who holds the
  ends of each pipe.
- `Terminal`: `tty_raw`, `tty_cbreak`, `tty_reset` with calls that fail or succeed in
  part, used by `t_raw` and by `pty` with its two processes. SIGTERM comes to the parent
  of `pty` from its child, and to either of them once from outside, at any step
  (`OutsideSigterm`); before `signal_intr` it kills the parent with the terminal as it is
  (`ParentKilled`).

## Runs

| Run | Bounds | What it shows |
|---|---|---|
| `printd_crash` (`MCPrintd_crash.cfg`) | 2 clients, `MaxJob` 3 with digits to the base 3, 2 crashes, 1 fault | the types, numbers in 32 bits among them (`TypeOK`); accepted jobs stay in the spool until they are printed (`Durable`), are queued again after a restart (`NothingForgotten`), once (`NoDuplicates`), and are sent with their own data (`HeadersMatchData`) |
| `printd_serve` (`MCPrintd_serve.cfg`) | 3 clients, `MaxJob` 3, no crash, 1 fault | `ImplementsSpooler`, and an idle daemon has an empty spool (`IdleSpoolIsEmpty`) |
| `printd_live` (`MCPrintd_live.cfg`) | 2 clients, `MaxJob` 2, 1 crash, no fault | `EventuallyPrinted` |
| `printd_fresh` (`MCPrintd_fresh.cfg`) | 2 clients, `MaxJob` 3, 1 crash | violation of `FreshNumbers` |
| `signals` (`PrintdSignals.cfg`) | 3 threads at once, 1 edit | the thread that found the worker list empty stays on it and leaves nothing open or allocated, and a walk of the list meets no freed memory but in the case named above (`WorkersAreTracked`); no SIGHUP is lost (`HupIsHonoured`, `HupTakesEffect`) |
| `workers_many` (`PrintdSignals_many.cfg`) | 2 threads at once | violation of `KillsOutstanding` |
| `status_split` (`MCPrinterStatus_split.cfg`) | responses up to 13 bytes, cut anywhere after the status line, 1 informational response | violation of `LooksAtTheResponse` |
| `db` (`MCDb.cfg`) | 2 processes, 3 calls, 3 keys on 2 chains, data of 2 lengths, 1 death, files of at most 4 records | `ImplementsDictionary`; chains (`ChainsHoldTheRecords`), free list and space (`FilesAreWellFormed`) stay in order; nobody waits for ever (`SomeCallCanProceed`); scans give the records (`ScansAreRight`) |
| `sync` (`MCSync.cfg`) | 2 files of 1 and 2 blocks, 2 or 3 workers, 2 runs, 1 edit, 1 failing call, 2 seconds | `StampMeansCopied`, `SuccessMeansSynced`, `FailuresAreReal`, `HandledOnce`, `RunEnds` |
| `sync_report` (`MCSync_report.cfg`) | 1 run, 1 failing call | violation of `FailuresAreReported` |
| `servers` (`MCServers.cfg`) | 2 clients, 2 requests, tables that grow by 1, 1 kill or failing call; 3 processes, 4 calls of `sem_create` or `sem_open`, 1 kill or removal | the server watches exactly what is open (`WatchedAreOpen`), answers the request that was made (`AnswerIsForTheAsker`) and `csopen` returns (`CsopenReturns`); a set's three values are right and creators keep their semaphore (`SemaphoreIsSound`), nobody is left at the lock (`CreateReturns`) |
| `programs` (`MCPrograms.cfg`) | see below | the properties of the small programs, listed below |

`programs` checks one safety property for each module, most of them a conjunction of
named parts, and two liveness properties: `ThreadsGoOn` for the thread programs and
`ProgramsEnd` for the others. The parts, with the liveness of each module last:

| Module | Bounds | What it shows |
|---|---|---|
| `ObjectTable` | 2 threads, 2 objects on one chain, 3 calls | `ReferencesAreSound`: no freed object is used (`NoUseAfterFree`), counts are exact (`CountIsExact`), `foo_find` of `mutex2` waits for initialization (`FoundIsInitialized`), calls return (`FooCallsReturn`) |
| `JobQueue` | 2 masters, 2 workers, 3 jobs | `QueueIsSound`: the list is whole (`ListIsWhole`), a found job stays queued until its worker removes it (`FoundStaysQueued`), a search passes no job by (`WalkMissesNothing`) |
| `Condvars` | 2 consumers, 2 producers, 3 messages; 3 signals | `EachMessageOnce`, `WaitersAreWoken` |
| `Timeout` | 3 fractions in a second, a delay of 2 seconds, 10 ticks | `RetryOnceOnTime`, `RetryHappens` |
| `SortThreads` | 2 threads with 2 numbers of 3 values | `MergedAreTheSmallest` |
| `Rot13` | 2 buffers of 2 bytes, 7 bytes, 1 failure | `ExitMeansTranslated`, `RotEnds` |
| `MemStream` | buffers of 0, 1 and 3 bytes, 9 modes, 4 calls | `StreamIsSound`: `StaysInTheBuffer`, `StreamIsAFile`, `BufferIsAString` |
| `TellWait` | 3 rounds | `TheyTakeTurns`, `TurnsEnd` |
| `Popen` | 3 streams, 1 failure | `CommandsHaveTheirOwnPipe`, `PcloseReturns` |
| `Terminal` | 2 bytes of input, 2 failures, 1 SIGTERM from outside for each process | `TerminalIsRestored`, `PtyEnds` |
| `PrinterStatus` | responses up to 13 bytes, cut anywhere or after the header only, 1 informational response | `ResponseIsRead`: an answer that is given is right (`AnswerIsRight`) and, if the cut is after the header, `WholeHeaderIsRead`; `StatusReturns` |

Why the bounds are enough for the cases meant:

- The job counter wraps at `MaxJob`, and it may start at any number, so a wrapped
  number meets a living job and the file of a wrapped counter is read again. Numbers have one
  digit or two, so the file can be longer than what is written over it. Two crashes let a restart itself be interrupted.
  Three clients are needed for one job in hand, one queued and one arriving while
  the first is deferred.
- The database starts empty or with a chain of two records and one deleted
  record, so three calls reach creation, reuse that fits and that does not,
  deletion in the middle and at the head of a chain, and `PTR_MAX`. The keys `k1`
  and `k2` share a chain, `k3` does not, and both chains share the free list.
- The first file is at the limit of what is compared by content and the second
  is below it. Three processes are more than the files, two divide them evenly.
  Two runs let the second find what the first left.
- With tables that grow by one entry, the second client makes the server's tables
  grow, and with two requests and one kill an entry is removed in front of
  another and its descriptor is used again. Three processes are a creator, one
  that closes as the last user, and one that comes between the two.
- Two objects with the same id are on one chain, so one is removed behind the
  other. Three jobs are head, middle and tail. Seven bytes are three full blocks and
  a short one in two buffers, so buffers are used again. A buffer of 3 bytes is
  filled by a call or two, and 4 calls leave two more after it is full. Three
  streams are one open, one closed and one whose command inherits.

`CHECK_DEADLOCK FALSE` is in the runs whose programs end: `printer_status`
returns, the daemon exits, calls and runs are bounded.

A typical mutant swaps an order, forgets a lock, a reset or a signal, or drops a
remainder; each breaks the property it is listed under.

### Findings

- The job number file is written when a job is picked up, not when a number is
  handed out, so a daemon that died may give a client the number of a job in the
  spool (`printd_fresh`). `Durable`, `HeadersMatchData`, `NothingForgotten`,
  `IdleSpoolIsEmpty` and the liveness property therefore leave out numbers that two clients had.
  A job whose request a restart failed to read is gone as well: `Durable` leaves it out,
  `NothingForgotten` and the liveness property speak of spools without such faults.
- `add_worker` does not move `workers` to a record it puts in front of another
  (`workers_many`), so only the thread that found the list empty is on it, and
  `WorkersAreTracked` speaks of that one.
- The search for `Content-Length` compares and scans without asking how much has been
  read, so a response whose first read ends inside that line is parsed past its data
  (`status_split`).
- A child of the process synchronizer always exits with 0, so its parent reports
  success when a file could not be copied (`sync_report`).

Cases in which the code does not do what the properties say are left out by the
properties, and the comment on each names them:

- the printer's response: a cut before the end of the header, which may also make the loop
  that looks for that end spin for ever (it stops two bytes short of `datsz` and reads
  more only at `datsz`); `WholeHeaderIsRead` and `StatusReturns` speak of cuts after it;
- the database: a process that dies inside `_db_dodelete`; `O_TRUNC` on a database
  in use; what a process that died in `db_store` between `_db_writeidx` and `_db_writeptr`
  left, a record with its key on no chain, which `db_nextrec` gives like any other, so
  that a scan may give the key twice: `NextrecReadsRecords` admits such records, and
  `ScanIsComplete` leaves out the keys of calls that processes died in; `db_nextrec` after another call on the same handle, which reads wherever
  that call left the file offset;
- the synchronizers: an edit that no modification time shows, because `fstat` runs
  after the copy; a read error, which ends the copy as the end of file does; a
  directory that cannot be opened;
- `Opend`: a request that the server reads in two pieces, which is answered twice;
  the text sent for a request with too many words, which is an earlier request's;
  the user that the `poll` loop names, from the wrong index; a client of `open.fe`
  whose `fork` failed and which then waits for itself. A client that is killed ends
  the one server of all: the others see the end of the connection;
- `Semaph`: `sem_open` takes no lock, so a closer removes the set under a process
  that has just opened it; `sem_create` does not start again after `EIDRM`;
- `ObjectTable`: `foo_find` of `mutex3` may return an object that is not initialized;
- `TellWait`: signals over more than one round, since the first wait unblocks them;
- `Popen`: descriptors that a failed `fork` or `fdopen` leaves open;
- `Terminal`: a terminal left as it was by a signal to `t_raw` between `tcsetattr` and
  `ttystate`, by SIGTERM that kills the parent of `pty` between `tcsetattr` and `fork`, or
  both processes before the handler is there, and by a call that fails to restore it; a child
  left behind by a parent of `pty` that cannot write, or that SIGTERM from outside ends or
  makes believe that the child has sent it. SIGKILL and SIGHUP are not modelled.

## Fairness

- `Printd!FairSpec`: weak fairness of the main thread, of every client thread and
  of the printer thread, which the scheduler gives; weak fairness of `Start`, the
  operator who restarts the daemon; strong fairness of `Connect`, `Send` and
  `Confirm`: the code tries a job for ever, and so it is printed only if a
  printer that is tried again and again works some time.
- `PrintdSignals`: weak fairness of the printer thread, and of the signal thread
  for a signal that is pending. Edits, signals and clients are not fair.
- `PrinterStatus`: weak fairness of the one thread. `tread` has a time-out, so a
  read ends.
- `Sync`: weak fairness of the steps of the run. Interrupts, edits and the clock
  are not fair.
- `Opend`, `Semaph` and the small programs: weak fairness of the steps of every
  thread and process once it is in a call, and of the kernel where the code
  relies on it (a pending signal is delivered, an asynchronous request completes, the
  clock goes on). That somebody calls, connects, types, sends a signal or wakes
  without one is not assumed, nor is any failure. A lock is a guard under weak
  fairness; where a property needs more than that, the calls are finite.

## Proofs

A module of proofs has one part per component: the inductive invariant as a
conjunction of named parts, lemmas about the operators of the model, a lemma per
step or per part of the invariant, and the theorem. The assumptions on the
constants are the named `ASSUME`s of the models and nothing else, except where the
table says so: bounds are natural numbers, sets of threads and clients that are
counted are finite, a value that stands for "none" is none of the things
that there may be, and the one server is not one of its clients.

| Module | Theorem | Property |
|---|---|---|
| `PrintdProofs` | `TypeCorrect`, `AcceptedJobsAreDurable`, `JobsAreSentWhole` | `TypeOK`, `Durable`, `HeadersMatchData` |
| | `JobsAreListedOnce`, `RestartsForgetNothing`, `IdleDaemonLeavesNothing` | `NoDuplicates`, `NothingForgotten`, `IdleSpoolIsEmpty` |
| | `DaemonIsASpooler` | `ImplementsSpooler`, with no crashes and a number for every client |
| `PrintdSignalsProofs` | `JobsFollowTheFile` | `HupIsHonoured` |
| | `TheFirstWorkerIsTracked` | `WorkersAreTracked` |
| `SyncProofs` | `StampsAreTrue`, `FailuresHaveCauses` | `StampMeansCopied`, `FailuresAreReal` |
| `SyncSuccessProofs` | `FilesAreHandledOnce`, `SuccessIsTrue` | `HandledOnce`, `SuccessMeansSynced` |
| `ThreadsProofs` | `TheRetryIsOnTime`, `MessagesAreProcessedOnce` | `RetryOnceOnTime`, `EachMessageOnce` |
| | `TheQueueIsKept`, `ObjectsLiveAsLongAsReferences` | `QueueIsSound`, `ReferencesAreSound` |
| | `TheNumbersAreSorted` | `MergedAreTheSmallest` |
| `ProcessesProofs` | `TheUserGetsTheTerminalBack`, `PrinterIsUnderstood` | `TerminalIsRestored`, `ResponseIsRead` |
| | `OutputIsTheTranslation`, `SemaphoresCountTheirUsers`, `PipesAreNotInherited` | `ExitMeansTranslated`, `SemaphoreIsSound`, `CommandsHaveTheirOwnPipe` |
| | `TurnsAreTaken`, `TheStreamIsAFile` | `TheyTakeTurns`, `StreamIsSound` |
| `OpendProofs` | `TheServerWatchesWhatIsOpen`, `TheAskerIsAnswered` | `WatchedAreOpen`, `AnswerIsForTheAsker` |
| `DbProofs` | `ChainsHoldTheirRecords`, `TheFilesAreWellFormed` | `ChainsHoldTheRecords`, `FilesAreWellFormed` |
| | `NextrecGivesTheRecords`, `TheLibraryIsADictionary` | `ScansAreRight`, `ImplementsDictionary` |
| | `SomeoneHasItsLocks` | the calls never all wait for locks |

The conditions on the refinement are those of its run. A daemon that was killed does not serve
in order, since `build_qonstart` reads the spool in the order of the directory, and
with fewer numbers than clients a number may be handed out twice; so the refinement is
checked and proved without crashes (`NoCrashes`, `EnoughNumbers`).

### The print daemon

`Durable` alone is not inductive. A step of another client, of the printer thread or
of `build_qonstart` could touch the files of an accepted job if nothing said
which files these steps write. `IndInv` adds:

- `Numbering`: a client gets its number once, before it has files;
- `NamedFiles`: a spool file has the number of the client whose bytes it holds;
- `Phases`: no client thread runs while the queue is rebuilt, nothing runs in a
  dead daemon;
- `JobsInMemory`: a job in memory was handed over by its client, under that
  client's number, and is not going to be read again by `build_qonstart`;
- `PrinterFiles`, `PrintedFiles`: what the printer thread has open, has sent and
  was confirmed goes by the number of its job;
- `OwnFiles`: the state of a client's files at each step of `client_thread`, if
  no other client has its number.

So a file is touched only under its own number, and a client that has its number to
itself is the only one that writes there until the printer thread, holding that
client's job, has its confirmation. The lemma `ClientMoves` reduces what any step
does to `cpc`, `jobid` and `acked` to a table of moves; each part of `IndInv` then has
its own step lemma with one case per action.

`QueueInv` adds what the queue needs: a job that is accepted and not printed is
listed, about to be added, or in the directory that is being read (`Remembered`). The
other parts are about a daemon that has not died: the jobs that are pending, printed
or dropped are those that went through `add_job` (`AddedJobs`, `FirstStart`); a pending
job has its data file until it is unlinked (`PendingHasData`); a file in the spool has
a client thread that is still making it or a pending job (`AccountedFiles`); and what is
settled has left the line (`Unsettled`). For the refinement, `InTurn` says that
`get_newjobno` counts from where the daemon started, through the wrap (`Nth`); then each action of `Printd` is the step of
`Spooler` that its lemma names, or a stutter. `IdleSpoolIsEmpty` needs an exception that bounds on the counter
hide: when the counter wraps, a number may be handed out twice, and the file of one client
then stays when the job of the other is removed.

`HupIsHonoured` follows from the order in `printer_thread`: the flag is cleared before
the file is read, so what is read is newer than every SIGHUP before that, and
a later one leaves the flag set (`Fresh`). For the list of workers the invariant
`ShortList` says that it has one record, allocated and of the thread that found the list empty,
or freed and then with another record in front of it; `OnList`, the records
that a walk from `workers` meets, is the least set closed under `next`, so that
what the walk of `kill_workers` meets can be proved without induction.

### The synchronizers

`CopyInv` strengthens `StampMeansCopied` by `Partial`: a copy that is being written holds
the first blocks of its file, unless the file was edited meanwhile; so when it has as many
blocks as the file it has them all, in a run that is killed in the middle too.
`HandInv` follows each file through `list`, `part` and `file`: it waits in one place only
(`Apart`); what a worker has in hand was taken once and nobody else has it (`Hands`);
and in a run without a failure that its program overlooks a file waits or was taken
(`Covered`), the failed ones being counted (`Counted`).
The arithmetic of the slices, the remainder that the last child gets included,
is the lemma `SliceFacts`. `SuccessInv` puts the two together: in a clean run a file
that is done has its contents in the target (`Copied`). `sync_files` gets its list in
some order, so `Listing` is any sequence that has each file once, as a function.

### The threads

`TimeoutInv` says in which hands the one retry is, and that the helper's remaining
sleep reaches to `when` (`OnTime`); that the subtraction borrows right is a lemma
about `Ticks`.

`JobInv` has the list between any two steps. Its state is a list of pointers, so
the invariant has a witness: `IsList` holds if there is an order (`Orders`, a function
from positions to jobs) in which neighbours point at each other and the ends are `q_head`
and `q_tail`. `ListInsert`, `ListAppend` and `ListRemove` give the new order for each of
the three functions. `InHand` says what a thread knows of the job in its pointer: it is not on the list yet
and its own pointers are set, or it is and has this worker's id, so that only this worker
takes it off. `Walking` says of a search, which holds the read lock, that none of the jobs
it has passed is its worker's.

`FooInv` keeps books per object. `Books` says that the `f_count` of a living object is the number
of references, plus one each for its maker and for every thread that is inside `foo_rele` with
it, unless one thread is about to free it and nobody refers to it; and that the table has the
object from its insertion until then; `Chain` that
the hash chain is a list without repetition; `FooPlaces` and `HashLocked` which locks a
thread has where. `foo_rele` of `mutex2` drops the object's lock to take the
table's and looks again: in between others may find the object, and the books do not
depend on what it saw before. Counting is done
thread by thread (`Number`, `Is`), so that a step changes one term.

`SortInv` says that a part is in order once its thread is at the barrier (`PartsSorted`), that
the array has the numbers it was given (`Given`), and of a merge under way (`MergeInv`) that
`snums` rises, that what is left of each part is not below its last number (`Left`), and that it
is, number by number, what lies before `idx` in the parts (`Merged`, `Moved`); so when
it is as long as the array, it has all of it. The parts are a partition of the array for any
`NTHR` and `TNUM` (`PartsPartition`). `MinIdxIsLeast` is about the inner loop: some part
beats `LONG_MAX`, so `minidx` is set anew in every turn, to a part that is not finished
and has the least number left.

### The processes

- `TtyInv`: unless one of the excepted cases came up (`spoiled`), the terminal can be restored
  (`Restorable`): whoever has `ttystate` set has the original modes saved,
  where it is clear the terminal is in its original modes, and a parent that was killed
  leaves a child that has `ttystate` set.
- `StatusInv`: `AnswerIsRight` and, for a response cut after its header only, where the cut
  can be and that `datsz` and `ri` are right wherever they are used (`Arrived`). That
  `datsz` is too large after `readmore` does no harm there.
- `RotInv`: each buffer's block is its own (`DisjointBlocks`); each byte of a block before
  `off` is in the output, or in a buffer that has yet to be written (`Covered1` to
  `Covered3`); a buffer's contents are what its state says (`SoundBuffer`); and `numop` counts the operations in flight; so `numop = 0` at the end of
  the input means everything is written. The blocks are multiples of `BSZ` for
  any `BSZ`, `NBUF` and input.
- `SemInv`: the three semaphores follow from what each process has done and what the kernel will
  undo for it (`UndoIsDue`), which includes a process that dies in any call; a
  set's counter is 0 while a creator initializes it (`Initializing`); and whoever uses a
  set that is about to be removed got it from `sem_open` (`RemovedUnderOpeners`).
- `PopenInv`: descriptors that the program has open to a pipe belong to the stream
  that `childpid` has, or are `lost` by a failure that the property excepts; and there are
  enough numbers, as at most two are open per call.
- `TellInv`: each side makes the calls of its program in order (`Follows`), and what a side was
  told and has not waited for, a byte or a signal that is pending, caught or about to be
  taken, is the difference of the other's tells and its own waits (`Balance`). As neither
  waits more often than it was told, at most one signal is on its way, so none is
  merged with another.
- `MemInv`: while the stream is open, `StreamIsSound` and the types of its state and of the file
  beside it (`StreamShape`), and that a stream which can be written and read was opened for
  update (`Opened`), which is proved of every mode string by a least counterexample
  over the loop of `type_to_flags` (`ModesAreSound`). `SpliceFacts` says what a write makes of a
  file, byte by byte, and `NullByte` that the NUL a write ends with, at the end or in the
  buffer's last byte, leaves a string.

### The open servers

`OpendInv` has two halves. `Connections` and `Watched` relate the tables to the sockets: a
descriptor is one connection's, which is not in the queue any more, and `TableOf` says of a
table that it has each open descriptor once, with its user. `client_add` and `client_del`
then add and take away one (`TableAdds`, `TableDels`), for the `select` loop with
`allset` and `maxi` (`SelectOf`), for the `poll` loop with `pollfd[]`, where the last entry
moves into the gap (`PollOf`). That a number is left for a new connection is a count of
clients (`ANumberIsFree`).

`Answers` says of each client that asked for nothing that its socket and the servers have
nothing for it (`Idling`), and of each that waits that its request is in the socket or at
the one server that handles it, or its answer is on the way, with nothing behind its
last item (`Waiting`). A step concerns one client; the others are bystanders
(`BystandersStay`). The clients that `AnswerIsForTheAsker` leaves out are left out of the
invariant too, since for them nothing of it holds.

### The database

`DbInv` holds between any two file accesses of any processes. `Types`, `Protocol` and
`Locking` say which call a process can be in at each step, what it has locked, and that
locks exclude each other. The rest, `Shape`, is about the two files, where a list is a chain of
offsets. Three functions witness it: `s`, the set of records on each list; `rk`, a rank that
falls along each list, so that a list has no circle and passes no record by (`Lists`); and
`lp`, the pointers as they will be when a record whose deletion is under way is off its
chain (`Agree`). Between `DelIdx` and `DelChain` the record's pointer is already that of the
free list while its predecessor still points to it, so the lists of `lp` are whole where those of
the files are not. The parts of `Shape` are:

- `Contents`: the records on a chain are those of its keys with their data, once, and every
  stored key has one unless its own `db_store` has it off the chain; the free list has
  deleted records only;
- `Hands`: a record that a call has taken off its list, or has yet to link, is on no list and
  in one call's hands;
- `Space`: places in the data file belong to one record, or are reserved for one, and
  with nobody dead none is lost;
- `Named`: a record with a key is on its chain or its `db_store` has yet to link it;
- `Position`: where each process is in the lists and what it remembers of them;
- `Scan`: what a scan has seen is what lies before its position.

A step keeps a list whole because it is an insertion at the front or the removal behind a
known predecessor, and both have lemmas that give the new `s` and `rk`. The other
processes keep their `Position` because of the locks, which is what the section on `ChainAlone`,
`FreeListAlone`, `PositionKept` and `ScanKept` proves: a call changes its own chain, the free
list while it has that locked, and one record and one place in the data file that are
its own. A step of a call is then one lemma with these facts as its
premises. For `ImplementsDictionary` each step either settles the answer of its call as
the dictionary would at that moment (`Answered`), or changes nothing that
callers see. That a walk, which `Nodes` defines by a recursive function, meets exactly the set `s`
of its list (`WalkMeetsAll`) is proved by a least counterexample.

`SomeCallCanProceed` says `ENABLED`, which the prover cannot handle. `SomeoneHasItsLocks`
has its content without that operator: every lock that is held is one that its process
needs at the step where it is (`LocksInUse`), and some process in a call is not
waiting for one (`Waiting`). Chains are locked before the free list and the ends of the files,
whose holders take no other lock.

Where an argument would be an induction, over the least free descriptor or the
position in a chain or in a loop, it uses that a set of numbers has a least element (`WFMin` of the library);
counts change by one thread or one reference in a step, with the library's facts about cardinality.

### What only TLC shows

- Liveness under fairness, and everything with `ENABLED`: `EventuallyPrinted`,
  `HupTakesEffect`, `RunEnds`, `CsopenReturns`, `CreateReturns`, `ThreadsGoOn`,
  `ProgramsEnd`, and `SomeCallCanProceed` of `Db`. The prover does not handle them.

## Plan

1. `Printd` with `Spooler`; `PrintdWorkers`, `PrintdConfig` and `PrintdSignals`;
   `PrinterStatus`. Modelled, checked, proved.
2. `Db` with `Dictionary`; the synchronizers. Modelled, checked, proved.
3. The open servers, the semaphores, the thread programs, parent and child, `popen`,
   the terminal, asynchronous I/O and the memory stream. Modelled, checked, proved.

## Not modelled

The print command, which `Printd` sees as a submission that may stop at any point;
`set_noecho` and the driver process of `pty`; the signal, daemon and socket examples
and the sequential examples of the chapters, which show one system call each and
keep no state between operations; `getenv` and `fork` in threads; the wrappers in
`lib/` that are one system call; generated tables in `standards/`; the output of
CMake in `build/`.
