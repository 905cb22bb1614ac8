----------------------------- MODULE SimpleSync -----------------------------
(***************************************************************************)
(* rsync_task/simple_rsync.c: one process walks the source tree and        *)
(* synchronizes each regular file it meets; the first error ends the walk. *)
(* The walk is worker 0 of SyncFiles.                                      *)
(***************************************************************************)
EXTENDS SyncFiles

Me == 0

files_are_identical(f) == SameSize(f) /\ (SameTime(f) \/ SameData(f))

Quit ==
    /\ mpc' = "ended" /\ result' = "failed"
    /\ failed' = failed \cup ({file[Me]} \ {NoFile})
    /\ Goto(Me, "done") /\ file' = [file EXCEPT ![Me] = NoFile]
Going == UNCHANGED <<mpc, result, failed, file>>

\* stat of the source; the order is that of readdir.
Open ==
    /\ mpc = "target"
    /\ \/ /\ Works /\ list' = Listed(Files) /\ index' = 0
          /\ mpc' = "walk" /\ Goto(Me, "entry") /\ UNCHANGED <<result, failed, file>>
       \/ Fails("source") /\ Quit /\ UNCHANGED <<list, index>>
    /\ UNCHANGED <<disk, started, part, errors, taken, world, given>>

\* The next entry: one whose stat fails is passed over, a directory that
\* cannot be opened ends the walk.
Entry ==
    /\ wpc[Me] = "entry" /\ index < Len(list)
    /\ \/ /\ Works /\ index' = index + 1
          /\ file' = [file EXCEPT ![Me] = list[index + 1]]
          /\ taken' = [taken EXCEPT ![file'[Me]] = @ + 1]
          /\ Goto(Me, "compare") /\ UNCHANGED <<mpc, result, failed>>
       \/ Fails("stat") /\ index' = index + 1 /\ Going /\ UNCHANGED <<wpc, taken>>
       \/ Fails("opendir") /\ Quit /\ UNCHANGED <<index, taken>>
    /\ UNCHANGED <<disk, list, started, part, errors, world, given>>

EndOfWalk ==
    /\ wpc[Me] = "entry" /\ index = Len(list)
    /\ mpc' = "ended" /\ result' = "ok"
    /\ Goto(Me, "done")
    /\ UNCHANGED <<disk, list, index, started, file, part, errors, fault, history, world, given>>

-----------------------------------------------------------------------------
\* sync_file

Compare ==
    /\ wpc[Me] = "compare"
    /\ \/ /\ Works /\ Going
          /\ Goto(Me, IF dry \/ files_are_identical(file[Me]) THEN "synced" ELSE "mkdir")
       \/ Fails("source") /\ Quit
    /\ UNCHANGED <<disk, list, index, started, part, errors, taken, world, given>>

create_directory_recursive ==
    /\ wpc[Me] = "mkdir"
    /\ \/ Works /\ Going /\ Mkdir(DirOf[file[Me]]) /\ Goto(Me, "open")
       \/ Fails("mkdir") /\ Quit /\ UNCHANGED dirs
    /\ UNCHANGED <<tgt, list, index, started, part, errors, taken, world, given>>

OpenFiles ==
    /\ wpc[Me] = "open"
    /\ \/ /\ Works /\ Going /\ DirOf[file[Me]] \in dirs
          /\ Truncate(file[Me]) /\ Goto(Me, "copy")
       \/ Fails("open") /\ Quit /\ UNCHANGED tgt
    /\ UNCHANGED <<dirs, list, index, started, part, errors, taken, world, given>>

\* Both a read and a write that fail are errors here.
copy_file_data ==
    /\ wpc[Me] = "copy"
    /\ \/ /\ Works /\ Going /\ MoreToCopy(file[Me])
          /\ CopyBlock(file[Me]) /\ UNCHANGED wpc
       \/ Works /\ Going /\ ~MoreToCopy(file[Me]) /\ Goto(Me, "stamp") /\ UNCHANGED tgt
       \/ Fails("copy") /\ Quit /\ UNCHANGED tgt
    /\ UNCHANGED <<dirs, list, index, started, part, errors, taken, world, given>>

\* stat, chmod, utime and chown; the time is not set when chmod fails.
copy_file_attributes ==
    /\ wpc[Me] = "stamp"
    /\ \/ Works /\ Going /\ Stamp(file[Me]) /\ Goto(Me, "synced")
       \/ Fails("attributes") /\ Quit /\ UNCHANGED tgt
       \/ Fails("attributes") /\ Quit /\ Stamp(file[Me])
    /\ UNCHANGED <<dirs, list, index, started, part, errors, taken, world, given>>

Synced ==
    /\ wpc[Me] = "synced"
    /\ Goto(Me, "entry") /\ file' = [file EXCEPT ![Me] = NoFile]
    /\ UNCHANGED <<disk, main, part, errors, fault, history, world, given>>

sync_file ==
    \/ Compare \/ create_directory_recursive \/ OpenFiles \/ copy_file_data
    \/ copy_file_attributes \/ Synced

Step == Open \/ Entry \/ EndOfWalk \/ sync_file
=============================================================================
