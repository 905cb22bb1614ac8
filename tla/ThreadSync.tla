----------------------------- MODULE ThreadSync -----------------------------
(***************************************************************************)
(* Multi_thread_rsync_task/sync_util.c: perform_sync lists the files and   *)
(* starts the threads, which take files from the list under its lock,      *)
(* synchronize them and count the result under the lock of the statistics. *)
(***************************************************************************)
EXTENDS SyncFiles

\* In the second that the stamps agree the contents are not looked at, and those
\* of large files never are.
compare_files(f) ==
    /\ SameSize(f)
    /\ SameTime(f) \/ (Size(f) < SmallLimit /\ SameData(f))

-----------------------------------------------------------------------------
\* perform_sync

\* free_file_list, and what perform_sync returns.
Return(r) ==
    /\ list' = <<>> /\ index' = 0
    /\ mpc' = "ended" /\ result' = r

\* stat of the source directory; the target directory, unless nothing is to
\* be written.
CheckDirectories ==
    /\ mpc = "target"
    /\ \/ /\ Works
          /\ IF dry THEN UNCHANGED dirs ELSE Mkdir(Root)
          /\ mpc' = "tree" /\ UNCHANGED <<list, index, result>>
       \/ Fails("source") /\ Return("failed") /\ UNCHANGED dirs
       \/ ~dry /\ Fails("mkdir") /\ Return("failed") /\ UNCHANGED dirs
    /\ UNCHANGED <<tgt, started, workers, errors, history, world, given>>

\* Nobody looks at the result of create_directory here.
sync_directory_structure ==
    /\ mpc = "tree" /\ mpc' = "scan"
    /\ \/ Works /\ dirs' = IF dry THEN dirs ELSE dirs \cup Dirs
       \/ /\ ~dry /\ Fails("structure")
          /\ \E D \in SUBSET Dirs : dirs' = dirs \cup D
    /\ UNCHANGED <<tgt, list, index, started, result, workers, errors, history, world, given>>

\* A directory that cannot be opened is left out.  A dry run compares and
\* prints, and an empty list is a success.
traverse_directory ==
    /\ mpc = "scan"
    /\ \E S \in SUBSET Files :
          /\ \/ Works /\ S = Files
             \/ Fails("opendir") /\ \E d \in Dirs : S = Files \ Below(d)
          /\ IF dry \/ S = {} THEN Return("ok")
             ELSE /\ list' = Listed(S) /\ index' = 0
                  /\ mpc' = "create" /\ UNCHANGED result
    /\ UNCHANGED <<disk, started, workers, errors, history, world, given>>

\* pthread_create; when it fails the list is freed under the threads that run,
\* and main returns.
CreateThread ==
    /\ mpc = "create" /\ started < count
    /\ \/ /\ Works
          /\ Goto(started, "get") /\ started' = started + 1
          /\ UNCHANGED <<mpc, list, index, result>>
       \/ /\ Fails("create")
          /\ list' = <<>> /\ index' = 0
          /\ mpc' = "exiting" /\ result' = "failed"
          /\ UNCHANGED <<wpc, started>>
    /\ UNCHANGED <<disk, file, part, errors, history, world, given>>

\* The exit of main ends the threads where they are.
ExitProcess ==
    /\ mpc = "exiting"
    /\ mpc' = "ended"
    /\ wpc' = [w \in Workers |-> "none"]
    /\ file' = [w \in Workers |-> NoFile]
    /\ UNCHANGED <<disk, list, index, started, result, part, errors, fault, history, world, given>>

\* Mutant: main does not wait for the last thread.
MutJoinFewer ==
    /\ mpc = "create" /\ started = count
    /\ \A w \in 0..(count - 2) : wpc[w] = "done"
    /\ Return(IF errors > 0 THEN "failed" ELSE "ok")
    /\ UNCHANGED <<disk, started, workers, errors, fault, history, world, given>>

JoinThreads ==
    /\ mpc = "create" /\ started = count
    /\ \A w \in 0..(count - 1) : wpc[w] = "done"
    /\ Return(IF errors > 0 THEN "failed" ELSE "ok")
    /\ UNCHANGED <<disk, started, workers, errors, fault, history, world, given>>

-----------------------------------------------------------------------------
\* worker_thread

get_next_file(w) ==
    /\ wpc[w] = "get"
    /\ IF index < Len(list)
       THEN /\ file' = [file EXCEPT ![w] = list[index + 1]]
            /\ index' = index + 1
            /\ taken' = [taken EXCEPT ![file'[w]] = @ + 1]
            /\ Goto(w, "compare")
       ELSE Goto(w, "done") /\ UNCHANGED <<file, index, taken>>
    /\ UNCHANGED <<disk, mpc, list, started, result, part, errors, fault, failed, world, given>>

\* compare_files, and create_directory as far as it looks whether the directory
\* is there.
Compare(w) ==
    /\ wpc[w] = "compare"
    /\ Goto(w, CASE compare_files(file[w]) -> "synced"
               [] ~compare_files(file[w]) /\ DirOf[file[w]] \in dirs -> "open"
               [] OTHER -> "mkdir")
    /\ UNCHANGED <<disk, main, file, part, errors, fault, history, world, given>>

\* Mutant: a directory that another thread made in the meantime is an error.
MutNoEexist(w) ==
    /\ wpc[w] = "mkdir"
    /\ \/ Works /\ Mkdir(DirOf[file[w]])
          /\ Goto(w, IF DirOf[file[w]] \in dirs THEN "error" ELSE "open")
       \/ Fails("mkdir") /\ Goto(w, "error") /\ UNCHANGED dirs
    /\ UNCHANGED <<tgt, main, file, part, errors, history, world, given>>

\* EEXIST is no error: another thread was faster.
create_directory(w) ==
    /\ wpc[w] = "mkdir"
    /\ \/ Works /\ Mkdir(DirOf[file[w]]) /\ Goto(w, "open")
       \/ Fails("mkdir") /\ Goto(w, "error") /\ UNCHANGED dirs
    /\ UNCHANGED <<tgt, main, file, part, errors, history, world, given>>

\* Mutant: the target is opened to append to it.
MutAppend(w) ==
    /\ wpc[w] = "open"
    /\ \/ /\ Works /\ DirOf[file[w]] \in dirs
          /\ IF Exists(file[w]) THEN UNCHANGED tgt ELSE Truncate(file[w])
          /\ Goto(w, "copy")
       \/ Fails("open") /\ Goto(w, "error") /\ UNCHANGED tgt
    /\ UNCHANGED <<dirs, main, file, part, errors, history, world, given>>

OpenFiles(w) ==
    /\ wpc[w] = "open"
    /\ \/ /\ Works /\ DirOf[file[w]] \in dirs
          /\ Truncate(file[w]) /\ Goto(w, "copy")
       \/ Fails("open") /\ Goto(w, "error") /\ UNCHANGED tgt
    /\ UNCHANGED <<dirs, main, file, part, errors, history, world, given>>

\* A short write is an error; a read that fails ends the loop like end of file.
CopyLoop(w) ==
    /\ wpc[w] = "copy"
    /\ \/ Works /\ MoreToCopy(file[w]) /\ CopyBlock(file[w]) /\ UNCHANGED wpc
       \/ Works /\ ~MoreToCopy(file[w]) /\ Goto(w, "stamp") /\ UNCHANGED tgt
       \/ Fails("read") /\ Goto(w, "stamp") /\ UNCHANGED tgt
       \/ /\ MoreToCopy(file[w]) /\ Fails("write")
          /\ Goto(w, "error") /\ UNCHANGED tgt
    /\ UNCHANGED <<dirs, main, file, part, errors, history, world, given>>

\* fstat and utimes; their failure is a warning.
StampFile(w) ==
    /\ wpc[w] = "stamp"
    /\ Goto(w, "synced")
    /\ \/ Stamp(file[w]) /\ Works
       \/ Fails("utimes") /\ UNCHANGED tgt
    /\ UNCHANGED <<dirs, main, file, part, errors, history, world, given>>

\* The counts under stats_lock: files_synced or errors.
CountFile(w) ==
    /\ wpc[w] \in {"synced", "error"}
    /\ IF wpc[w] = "error"
       THEN errors' = errors + 1 /\ failed' = failed \cup {file[w]}
       ELSE UNCHANGED <<errors, failed>>
    /\ file' = [file EXCEPT ![w] = NoFile]
    /\ Goto(w, "get")
    /\ UNCHANGED <<disk, main, part, fault, taken, world, given>>

\* The paths are in the list that main freed: what a thread finds there is
\* the path, or something else that no call can open.
LostPath(w) ==
    /\ mpc = "exiting" /\ wpc[w] \in {"compare", "mkdir", "open", "stamp"}
    /\ Goto(w, IF wpc[w] = "stamp" THEN "synced" ELSE "error")
    /\ UNCHANGED <<disk, main, file, part, errors, fault, history, world, given>>

worker_thread(w) ==
    \/ get_next_file(w) \/ Compare(w) \/ create_directory(w)
    \/ OpenFiles(w) \/ CopyLoop(w) \/ StampFile(w) \/ CountFile(w) \/ LostPath(w)

perform_sync ==
    \/ CheckDirectories \/ sync_directory_structure \/ traverse_directory
    \/ CreateThread \/ JoinThreads \/ ExitProcess

Step == perform_sync \/ \E w \in Workers : worker_thread(w)
=============================================================================
