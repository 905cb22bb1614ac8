-------------------------------- MODULE Sync --------------------------------
(***************************************************************************)
(* Runs of the three synchronizers, one after the other and in any mix,    *)
(* against source files that are edited at any time, with system calls     *)
(* that fail and runs that are killed.                                     *)
(***************************************************************************)
EXTENDS SyncFiles

Thread == INSTANCE ThreadSync
Process == INSTANCE ProcessSync
Simple == INSTANCE SimpleSync

ASSUME CountsAssumption ==
    DOMAIN Counts = {"thread", "process", "simple"} /\ Counts["simple"] = {1}

Idle == mpc \in {"idle", "ended"}

NoWorkers ==
    /\ wpc' = [w \in Workers |-> "none"]
    /\ file' = [w \in Workers |-> NoFile]
    /\ part' = [w \in Workers |-> <<>>]

Init ==
    /\ FilesInit
    /\ prog = "simple" /\ dry = FALSE /\ count = 1 /\ runs = 0
    /\ mpc = "idle" /\ list = <<>> /\ index = 0 /\ started = 0 /\ result = "none"
    /\ wpc = [w \in Workers |-> "none"]
    /\ file = [w \in Workers |-> NoFile] /\ part = [w \in Workers |-> <<>>]
    /\ errors = 0
    /\ taken = [f \in Files |-> 0] /\ failed = {}

\* A run starts when no process of the last one is left.
Start(p, options) ==
    /\ Idle /\ Busy = {} /\ runs < MaxRuns
    /\ runs' = runs + 1
    /\ prog' = p /\ dry' \in options /\ count' \in Counts[p]
    /\ mpc' = "target" /\ list' = <<>> /\ index' = 0 /\ started' = 0 /\ result' = "none"
    /\ NoWorkers
    /\ errors' = 0 /\ faults' = {} /\ quiet' = TRUE
    /\ taken' = [f \in Files |-> 0] /\ failed' = {}
    /\ UNCHANGED <<disk, clock, src, edits, blurred, nfaults>>

\* The options of the three command lines; the process version has no dry run.
StartThread == Start("thread", BOOLEAN)
StartProcess == Start("process", {FALSE})
StartSimple == Start("simple", BOOLEAN)

Step ==
    \/ prog = "thread" /\ Thread!Step
    \/ prog = "process" /\ Process!Step
    \/ prog = "simple" /\ Simple!Step

\* The run is interrupted, with all of its processes.
Interrupt ==
    /\ ~Idle /\ Fails("killed")
    /\ mpc' = "idle" /\ result' = "none" /\ NoWorkers
    /\ UNCHANGED <<disk, list, index, started, errors, history, world, given>>

Next ==
    \/ StartThread \/ StartProcess \/ StartSimple \/ Step
    \/ Interrupt \/ Tick \/ \E f \in Files : Edit(f)

Spec == Init /\ [][Next]_vars /\ WF_vars(Step)

-----------------------------------------------------------------------------
\* The variables keep their types, and nothing is copied into a directory that
\* is not there.
TypeOK ==
    /\ \A f \in DOMAIN tgt : f \in Files /\ DirOf[f] \in dirs
    /\ dirs \subseteq Dirs
    /\ mpc \in {"idle", "target", "tree", "scan", "create", "fork", "walk", "exiting", "ended"}
    /\ index \in 0..Cardinality(Files) /\ started \in 0..count
    /\ result \in {"none", "ok", "failed"}
    /\ file \in [Workers -> Files \cup {NoFile}]
    /\ \A w \in Workers : wpc[w] \in {"compare", "mkdir", "open", "copy", "stamp"}
                            => file[w] # NoFile
    /\ errors \in 0..Cardinality(Files) /\ failed \subseteq Files

\* Equal size and time mean equal contents, which is what compare_files and
\* files_are_identical take for granted: partial copies of runs that failed or
\* were killed, stamps that were not set and copies by the process version
\* never pass for the file, unless the edit was blurred.
StampMeansCopied ==
    \A f \in DOMAIN tgt \ blurred : SameSize(f) /\ SameTime(f) => SameData(f)

\* The failures that a program tells its user about, or makes up for.
Noticed ==
    [thread |-> {"source", "mkdir", "structure", "create", "open", "write", "utimes"},
     process |-> {"source", "structure", "fork"},
     simple |-> {"source", "mkdir", "opendir", "open", "copy", "attributes"}]

\* A run that reports success has made the trees equal, whatever was done to the
\* target by earlier runs, if nobody edited files meanwhile and no call failed
\* in a way that the program overlooks.
SuccessMeansSynced ==
    mpc = "ended" /\ result = "ok" /\ ~dry /\ quiet /\ faults \subseteq Noticed[prog]
      => \A f \in Files \ (IF prog = "process" THEN {} ELSE blurred) : SameData(f)

\* A file or a run fails only when a call on it failed: workers that take files
\* and make directories at the same time do not fail each other, and what the
\* first pass over the directories could not make does no harm.
FailuresAreReal ==
    result = "failed" \/ failed # {} => faults \ {"structure", "utimes", "read"} # {}

\* Every file is given to one worker, once, by the index under its lock and by
\* the slices of the list; and a run that succeeds has left out none.  The index,
\* the list and what the workers have in hand keep their types.
HandledOnce ==
    /\ TypeOK
    /\ \A f \in Files : taken[f] <= 1
    /\ mpc = "ended" /\ result = "ok" /\ ~dry /\ faults = {}
         => \A f \in Files : taken[f] = 1

\* A run ends: main does not wait for a worker that never finishes.
RunEnds == mpc = "target" ~> Idle

\* "Child %d failed to synchronize" (Multi_process_rsync_task/sync_util.c:363):
\* a run in which a worker could not synchronize a file does not report success.
FailuresAreReported == mpc = "ended" /\ result = "ok" => failed = {}
=============================================================================
