---------------------------- MODULE ProcessSync ----------------------------
(***************************************************************************)
(* Multi_process_rsync_task/sync_util.c: perform_sync lists the files and  *)
(* forks the children, each with a slice of the list; the children compare *)
(* contents, copy, and leave no other trace than their exit status.        *)
(***************************************************************************)
EXTENDS SyncFiles

compare_files(f) == SameSize(f) /\ SameData(f)

\* The slice of child i; the last one takes what the division leaves over.
\* start is start_index, which the parent advances after each fork.
MutNoRemainder(i, start) ==
    SubSeq(list, start + 1, start + Len(list) \div count)
Slice(i, start) ==
    LET end == start + Len(list) \div count
                 + (IF i = count - 1 THEN Len(list) % count ELSE 0)
    IN  SubSeq(list, start + 1, end)

\* exit(0), whatever sync_file returned.
ExitStatus(w) == 0

-----------------------------------------------------------------------------
\* perform_sync

\* free_file_list, and what perform_sync returns.
Return(r) ==
    /\ list' = <<>> /\ index' = 0
    /\ mpc' = "ended" /\ result' = r

CheckDirectories ==
    /\ mpc = "target"
    /\ \/ Works /\ Mkdir(Root) /\ mpc' = "tree" /\ UNCHANGED <<list, index, result>>
       \/ Fails("source") /\ Return("failed") /\ UNCHANGED dirs
       \/ Fails("mkdir") /\ Return("failed") /\ UNCHANGED dirs
    /\ UNCHANGED <<tgt, started, workers, errors, history, world, given>>

sync_directory_structure ==
    /\ mpc = "tree" /\ mpc' = "scan"
    /\ \/ Works /\ dirs' = dirs \cup Dirs
       \/ Fails("structure") /\ \E D \in SUBSET Dirs : dirs' = dirs \cup D
    /\ UNCHANGED <<tgt, list, index, started, result, workers, errors, history, world, given>>

traverse_directory ==
    /\ mpc = "scan"
    /\ \E S \in SUBSET Files :
          /\ \/ Works /\ S = Files
             \/ Fails("opendir") /\ \E d \in Dirs : S = Files \ Below(d)
          /\ IF S = {} THEN Return("ok")
             ELSE /\ list' = Listed(S) /\ index' = 0
                  /\ mpc' = "fork" /\ UNCHANGED result
    /\ UNCHANGED <<disk, started, workers, errors, history, world, given>>

\* When fork fails the parent returns at once and the children go on.
ForkChild ==
    /\ mpc = "fork" /\ started < count
    /\ \/ /\ Works
          /\ part' = [part EXCEPT ![started] = Slice(started, index)]
          /\ Goto(started, "next") /\ started' = started + 1
          /\ index' = index + Len(list) \div count
          /\ UNCHANGED <<mpc, list, result>>
       \/ /\ Fails("fork") /\ Return("failed")
          /\ UNCHANGED <<wpc, part, started>>
    /\ UNCHANGED <<disk, file, errors, history, world, given>>

\* Mutant: the parent waits for children that it did not fork.
MutWaitMore ==
    /\ mpc = "fork" /\ started = count
    /\ \A w \in Workers : wpc[w] = "done"
    /\ Return("ok")
    /\ UNCHANGED <<disk, started, workers, errors, fault, history, world, given>>

WaitChildren ==
    /\ mpc = "fork" /\ started = count
    /\ \A w \in 0..(count - 1) : wpc[w] = "done"
    /\ Return(IF \E w \in 0..(count - 1) : ExitStatus(w) # 0 THEN "failed" ELSE "ok")
    /\ UNCHANGED <<disk, started, workers, errors, fault, history, world, given>>

-----------------------------------------------------------------------------
\* worker_process

\* The result of the file before is printed, and nothing else is made of it.
NextFile(w) ==
    /\ wpc[w] \in {"next", "synced", "error"}
    /\ failed' = IF wpc[w] = "error" THEN failed \cup {file[w]} ELSE failed
    /\ IF part[w] # <<>>
       THEN /\ file' = [file EXCEPT ![w] = Head(part[w])]
            /\ part' = [part EXCEPT ![w] = Tail(@)]
            /\ taken' = [taken EXCEPT ![Head(part[w])] = @ + 1]
            /\ Goto(w, "compare")
       ELSE /\ file' = [file EXCEPT ![w] = NoFile]
            /\ Goto(w, "done") /\ UNCHANGED <<part, taken>>
    /\ UNCHANGED <<disk, main, errors, fault, world, given>>

\* compare_files, and create_directory as far as it looks whether the directory
\* is there.
Compare(w) ==
    /\ wpc[w] = "compare"
    /\ Goto(w, CASE compare_files(file[w]) -> "synced"
               [] ~compare_files(file[w]) /\ DirOf[file[w]] \in dirs -> "open"
               [] OTHER -> "mkdir")
    /\ UNCHANGED <<disk, main, file, part, errors, fault, history, world, given>>

create_directory(w) ==
    /\ wpc[w] = "mkdir"
    /\ \/ Works /\ Mkdir(DirOf[file[w]]) /\ Goto(w, "open")
       \/ Fails("mkdir") /\ Goto(w, "error") /\ UNCHANGED dirs
    /\ UNCHANGED <<tgt, main, file, part, errors, history, world, given>>

OpenFiles(w) ==
    /\ wpc[w] = "open"
    /\ \/ /\ Works /\ DirOf[file[w]] \in dirs
          /\ Truncate(file[w]) /\ Goto(w, "copy")
       \/ Fails("open") /\ Goto(w, "error") /\ UNCHANGED tgt
    /\ UNCHANGED <<dirs, main, file, part, errors, history, world, given>>

\* No stamp: the copy keeps the time at which it was written.
CopyLoop(w) ==
    /\ wpc[w] = "copy"
    /\ \/ Works /\ MoreToCopy(file[w]) /\ CopyBlock(file[w]) /\ UNCHANGED wpc
       \/ Works /\ ~MoreToCopy(file[w]) /\ Goto(w, "synced") /\ UNCHANGED tgt
       \/ Fails("read") /\ Goto(w, "synced") /\ UNCHANGED tgt
       \/ /\ MoreToCopy(file[w]) /\ Fails("write")
          /\ Goto(w, "error") /\ UNCHANGED tgt
    /\ UNCHANGED <<dirs, main, file, part, errors, history, world, given>>

worker_process(w) ==
    \/ NextFile(w) \/ Compare(w) \/ create_directory(w)
    \/ OpenFiles(w) \/ CopyLoop(w)

\* A child is killed; waitpid then reports no exit, and the parent goes on.
ChildDies(w) ==
    /\ w \in Busy /\ Fails("child")
    /\ Goto(w, "done")
    /\ file' = [file EXCEPT ![w] = NoFile] /\ part' = [part EXCEPT ![w] = <<>>]
    /\ UNCHANGED <<disk, main, errors, history, world, given>>

perform_sync ==
    \/ CheckDirectories \/ sync_directory_structure \/ traverse_directory
    \/ ForkChild \/ WaitChildren

Step == perform_sync \/ \E w \in Workers : worker_process(w) \/ ChildDies(w)
=============================================================================
