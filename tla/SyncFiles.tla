----------------------------- MODULE SyncFiles -----------------------------
(***************************************************************************)
(* What the three file synchronizers of the repository share: the source   *)
(* and the target tree, the clock that stamps files, the people who edit   *)
(* the source, the system calls that fail, and the variables of a run.     *)
(* ThreadSync, ProcessSync and SimpleSync are the programs; Sync composes  *)
(* them.                                                                   *)
(*                                                                         *)
(* A file is its blocks (one read each) and its modification time in       *)
(* seconds, the unit the programs compare.  tgt is a partial function: its *)
(* domain are the files that exist in the target tree.                     *)
(***************************************************************************)
EXTENDS Naturals, Sequences, FiniteSets

CONSTANTS Files,        \* the regular files of the source tree
          DirOf,        \* the directory of each
          Root,         \* the top directory
          Listing,      \* each set of files in the order of readdir
          NoFile,       \* a worker without a file
          Contents,     \* what a file may hold: sequences of blocks
          Original,     \* what each file holds at first
          SmallLimit,   \* blocks: files below this size are compared by content
          Counts,       \* bound: how many workers each program is run with
          MaxClock,     \* bound: seconds
          MaxEdits,     \* bound: edits of source files
          MaxFaults,    \* bound: failures
          MaxRuns       \* bound: runs

ASSUME FilesAssumption == NoFile \notin Files /\ IsFiniteSet(Files)
ASSUME DirOfAssumption == Files = DOMAIN DirOf
ASSUME ListingAssumption ==
    \A S \in SUBSET Files :
        /\ Listing[S] \in Seq(S) /\ Len(Listing[S]) = Cardinality(S)
        /\ \A f \in S : \E i \in 1..Len(Listing[S]) : Listing[S][i] = f
        /\ \A i, j \in 1..Len(Listing[S]) : Listing[S][i] = Listing[S][j] => i = j
Blocks == UNION {{c[i] : i \in DOMAIN c} : c \in Contents}
ASSUME ContentsAssumption == Contents \subseteq Seq(Blocks)
ASSUME OriginalAssumption == Original \in [Files -> Contents]
ASSUME BoundsAssumption ==
    /\ SmallLimit \in Nat
    /\ \A p \in DOMAIN Counts : Counts[p] \subseteq Nat \ {0} /\ IsFiniteSet(Counts[p])
    /\ {MaxClock, MaxEdits, MaxFaults, MaxRuns} \subseteq Nat

VARIABLES clock, src, tgt, dirs,            \* the file system
          prog, dry, count,                 \* the command line of the run
          mpc, list, index, started, result,  \* main
          wpc, file, part,                  \* the workers
          errors,                           \* the threads' statistics
          runs, edits,                      \* bounds
          nfaults, faults,                  \* failures so far, kinds in this run
          quiet,                            \* history: no edit during this run
          blurred,                          \* history: see Edit
          taken, failed                     \* history: per file, in this run

disk == <<tgt, dirs>>
main == <<mpc, list, index, started, result>>
workers == <<wpc, file, part>>
fault == <<nfaults, faults>>
history == <<taken, failed>>
world == <<clock, src, edits, blurred, quiet>>
given == <<prog, dry, count, runs>>
vars == <<disk, main, workers, errors, fault, history, world, given>>

Workers == UNION {0..(n - 1) : n \in UNION {Counts[p] : p \in DOMAIN Counts}}
Dirs == {DirOf[f] : f \in Files} \cup {Root}
Below(d) == {f \in Files : d \in {Root, DirOf[f]}}
Listed(S) == Listing[S]
Busy == {w \in Workers : wpc[w] \notin {"none", "done"}}

\* A call fails for a reason outside of the program, or it does not.
Fails(kind) ==
    /\ nfaults < MaxFaults
    /\ nfaults' = nfaults + 1 /\ faults' = faults \cup {kind}
Works == UNCHANGED fault

Goto(w, label) == wpc' = [wpc EXCEPT ![w] = label]

-----------------------------------------------------------------------------
\* System calls on the target tree.

Exists(f) == f \in DOMAIN tgt
Size(f) == Len(src[f].data)
SameSize(f) == Exists(f) /\ Len(tgt[f].data) = Size(f)
SameTime(f) == Exists(f) /\ tgt[f].mtime = src[f].mtime
SameData(f) == Exists(f) /\ tgt[f].data = src[f].data

\* mkdir of a directory and of the ones above it.
Mkdir(d) == dirs' = dirs \cup {Root, d}

\* open or fopen for writing: the file is there and empty.
Truncate(f) ==
    tgt' = [g \in DOMAIN tgt \cup {f} |->
              IF g = f THEN [data |-> <<>>, mtime |-> clock] ELSE tgt[g]]

\* The block after those already copied, if the source still has one.
MoreToCopy(f) == Len(tgt[f].data) < Size(f)
CopyBlock(f) ==
    tgt' = [tgt EXCEPT
              ![f] = [data |-> Append(@.data, src[f].data[Len(@.data) + 1]),
                      mtime |-> clock]]

\* utime or utimes with the times that stat reports for the source.
Stamp(f) == tgt' = [tgt EXCEPT ![f].mtime = src[f].mtime]

-----------------------------------------------------------------------------
\* The world outside of the programs.

FilesInit ==
    /\ clock = 1
    /\ src = [f \in Files |-> [data |-> Original[f], mtime |-> 0]]
    /\ tgt = <<>> /\ dirs = {}
    /\ edits = 0 /\ nfaults = 0 /\ faults = {}
    /\ quiet = TRUE /\ blurred = {}

Tick ==
    /\ clock < MaxClock
    /\ clock' = clock + 1
    /\ UNCHANGED <<disk, main, workers, errors, fault, history, given,
                   src, edits, blurred, quiet>>

\* A source file is rewritten.  The edit is blurred when no modification time
\* can tell it from what the target holds: it comes in the second of the stamp
\* on either copy, or while the file is being copied.
Edit(f) ==
    /\ edits < MaxEdits
    /\ edits' = edits + 1 /\ quiet' = FALSE
    /\ \E c \in Contents \ {src[f].data} :
          src' = [src EXCEPT ![f] = [data |-> c, mtime |-> clock]]
    /\ blurred' =
          IF \/ clock = src[f].mtime
             \/ Exists(f) /\ clock = tgt[f].mtime
             \/ \E w \in Workers : file[w] = f /\ wpc[w] \in {"copy", "stamp"}
          THEN blurred \cup {f} ELSE blurred \ {f}
    /\ UNCHANGED <<disk, main, workers, errors, fault, history, given, clock>>
=============================================================================
