------------------------------- MODULE Rot13 -------------------------------
(* advio/rot13c2.c: a file is translated with asynchronous I/O through NBUF   *)
(* buffers.  The kernel completes the requests in any order; it fills and     *)
(* empties a buffer at the moment of the completion.  The input file may be   *)
(* cut while the program runs.                                                *)
EXTENDS Integers, Sequences, FiniteSets

CONSTANTS BSZ, NBUF,
          Input,          \* the bytes of the input file
          MaxAioFaults    \* failing requests and cuts of the input file

ASSUME RotAssumption == /\ BSZ \in Nat \ {0} /\ NBUF \in Nat \ {0} /\ MaxAioFaults \in Nat
                        /\ Input \in Seq(0..255)

VARIABLES rmain,       \* where main is
          scan,        \* i, the buffer the inner loop is at
          bufs,        \* struct buf, with the state of its request and aio_return's value
          offset,      \* off
          numop,
          isize,       \* the length of the input file now
          ofile,       \* the output file, from byte 0
          aioFaults

rotVars == <<rmain, scan, bufs, offset, numop, isize, ofile, aioFaults>>

BufIds == 0..(NBUF - 1)
st_size == Len(Input)

UnusedBuf == [op |-> "UNUSED", last |-> FALSE, off |-> 0, nbytes |-> 0, data |-> [j \in 1..BSZ |-> 0],
              aio |-> "none", ret |-> 0]

RotInit ==
    /\ rmain = "idle" /\ scan = 0
    /\ bufs = [i \in BufIds |-> UnusedBuf]
    /\ offset = 0 /\ numop = 0
    /\ isize = st_size
    /\ ofile = <<>>
    /\ aioFaults = 0

\* isalpha in the C locale, the letters being their codes.
translate(c) ==
    IF c \notin (65..90) \cup (97..122) THEN c
    ELSE IF c >= 110 \/ c \in 78..96 THEN c - 13 ELSE c + 13

Unchanged == UNCHANGED <<isize, ofile, aioFaults>>

\* The files are open, fstat gave st_size.
RotStart ==
    /\ rmain = "idle"
    /\ rmain' = "scan"
    /\ UNCHANGED <<scan, bufs, offset, numop>> /\ Unchanged

\* An error ends the program: aio_read, aio_write or aio_suspend fails.
RotQuits ==
    /\ rmain \in {"scan", "suspend"} /\ aioFaults < MaxAioFaults
    /\ rmain' = "failed"
    /\ aioFaults' = aioFaults + 1
    /\ UNCHANGED <<scan, bufs, offset, numop, isize, ofile>>

At == bufs[scan]
Scanning == rmain = "scan" /\ scan < NBUF

\* case UNUSED: read the next block, if there is one.
StartRead ==
    /\ Scanning /\ At.op = "UNUSED"
    /\ IF offset < st_size
         THEN /\ bufs' = [bufs EXCEPT ![scan].op = "READ_PENDING", ![scan].off = offset,
                                      ![scan].last = At.last \/ offset + BSZ >= st_size,
                                      ![scan].nbytes = BSZ, ![scan].aio = "busy"]
              /\ offset' = offset + BSZ
              /\ numop' = numop + 1
         ELSE UNCHANGED <<bufs, offset, numop>>
    /\ scan' = scan + 1
    /\ UNCHANGED rmain /\ Unchanged

\* aio_error is EINPROGRESS: on to the next buffer.
InProgress ==
    /\ Scanning /\ At.aio = "busy"
    /\ scan' = scan + 1
    /\ UNCHANGED <<rmain, bufs, offset, numop>> /\ Unchanged

\* Mutant: a short read is not an error.
MutShortIsFine ==
    /\ Scanning /\ At.op = "READ_PENDING" /\ At.aio = "done"
    /\ bufs' = [bufs EXCEPT ![scan].op = "WRITE_PENDING", ![scan].nbytes = At.ret, ![scan].aio = "busy",
                            ![scan].data = [j \in 1..BSZ |-> IF j <= At.ret THEN translate(@[j]) ELSE @[j]]]
    /\ scan' = scan + 1
    /\ UNCHANGED <<rmain, offset, numop>> /\ Unchanged

\* case READ_PENDING, complete: translate the n bytes and write them.
ReadDone ==
    /\ Scanning /\ At.op = "READ_PENDING" /\ At.aio = "done"
    /\ IF At.ret # BSZ /\ ~At.last
         THEN rmain' = "failed" /\ UNCHANGED <<bufs, scan>>
         ELSE /\ bufs' = [bufs EXCEPT ![scan].op = "WRITE_PENDING", ![scan].nbytes = At.ret, ![scan].aio = "busy",
                                      ![scan].data = [j \in 1..BSZ |-> IF j <= At.ret THEN translate(@[j]) ELSE @[j]]]
              /\ scan' = scan + 1
              /\ UNCHANGED rmain
    /\ UNCHANGED <<offset, numop>> /\ Unchanged

\* case WRITE_PENDING, complete: the buffer is free again.
WriteDone ==
    /\ Scanning /\ At.op = "WRITE_PENDING" /\ At.aio = "done"
    /\ IF At.ret # At.nbytes
         THEN rmain' = "failed" /\ UNCHANGED <<bufs, scan, numop>>
         ELSE /\ bufs' = [bufs EXCEPT ![scan].op = "UNUSED", ![scan].aio = "none"]
              /\ scan' = scan + 1
              /\ numop' = numop - 1
              /\ UNCHANGED rmain
    /\ UNCHANGED offset /\ Unchanged

\* aio_error gives an error: err_exit.
RequestFailed ==
    /\ Scanning /\ At.aio = "error"
    /\ rmain' = "failed"
    /\ UNCHANGED <<scan, bufs, offset, numop>> /\ Unchanged

\* After the last buffer: the end, another turn, or aio_suspend.  At the end
\* aio_fsync is started, and exit does not wait for it.
ScanEnds ==
    /\ rmain = "scan" /\ scan = NBUF
    /\ rmain' = IF numop # 0 THEN "suspend" ELSE IF offset >= st_size THEN "exit" ELSE "scan"
    /\ scan' = 0
    /\ UNCHANGED <<bufs, offset, numop>> /\ Unchanged

\* aio_suspend returns once a request on aiolist is complete.
aio_suspend ==
    /\ rmain = "suspend"
    /\ \E i \in BufIds : bufs[i].op # "UNUSED" /\ bufs[i].aio # "busy"
    /\ rmain' = "scan"
    /\ UNCHANGED <<scan, bufs, offset, numop>> /\ Unchanged

\* The kernel completes a request, or makes it fail.
Written(b) == [k \in 1..(IF b.off + b.nbytes > Len(ofile) THEN b.off + b.nbytes ELSE Len(ofile)) |->
                 IF k > b.off /\ k <= b.off + b.nbytes THEN b.data[k - b.off]
                 ELSE IF k <= Len(ofile) THEN ofile[k] ELSE 0]

Complete(i) ==
    /\ bufs[i].aio = "busy"
    /\ LET b == bufs[i]
           left == IF b.off >= isize THEN 0 ELSE isize - b.off
           n == IF left < b.nbytes THEN left ELSE b.nbytes
       IN  IF b.op = "READ_PENDING"
             THEN /\ bufs' = [bufs EXCEPT ![i].aio = "done", ![i].ret = n,
                                          ![i].data = [j \in 1..BSZ |-> IF j <= n THEN Input[b.off + j] ELSE @[j]]]
                  /\ UNCHANGED ofile
             ELSE /\ bufs' = [bufs EXCEPT ![i].aio = "done", ![i].ret = b.nbytes]
                  /\ ofile' = IF b.nbytes = 0 THEN ofile ELSE Written(b)
    /\ UNCHANGED <<rmain, scan, offset, numop, isize, aioFaults>>

IoError(i) ==
    /\ bufs[i].aio = "busy" /\ aioFaults < MaxAioFaults
    /\ bufs' = [bufs EXCEPT ![i].aio = "error"]
    /\ aioFaults' = aioFaults + 1
    /\ UNCHANGED <<rmain, scan, offset, numop, isize, ofile>>

\* Somebody cuts the input file.
Cut ==
    /\ rmain \notin {"idle", "exit"} /\ aioFaults < MaxAioFaults
    /\ isize' \in 0..(isize - 1)
    /\ aioFaults' = aioFaults + 1
    /\ UNCHANGED <<rmain, scan, bufs, offset, numop, ofile>>

RotSteps == StartRead \/ InProgress \/ ReadDone \/ WriteDone \/ RequestFailed \/ ScanEnds \/ aio_suspend

RotNext == RotStart \/ RotQuits \/ RotSteps \/ Cut \/ (\E i \in BufIds : Complete(i) \/ IoError(i))

\* The program runs, and the kernel completes every request.
RotFairness == WF_rotVars(RotSteps) /\ \A i \in BufIds : WF_rotVars(Complete(i))

RotSpec == RotInit /\ [][RotNext]_rotVars /\ RotFairness

----------------------------------------------------------------------------
\* When the program exits with 0, in whatever order its requests completed, the
\* output is the input with its letters moved by thirteen places.  If the input
\* was cut meanwhile at most some of the last block is missing.
Rotated(c) ==
    CASE c \in 97..122 -> 97 + ((c - 97 + 13) % 26)
      [] c \in 65..90 -> 65 + ((c - 65 + 13) % 26)
      [] OTHER -> c
ExitMeansTranslated ==
    rmain = "exit" =>
        /\ \A k \in DOMAIN ofile : ofile[k] = Rotated(Input[k])
        /\ Len(ofile) = st_size \/ (isize < st_size /\ Len(ofile) >= st_size - BSZ)

\* The program ends: numop counts the requests, so that it neither waits for a
\* request that does not exist nor leaves one behind.
RotEnds == (rmain = "scan") ~> (rmain \in {"exit", "failed"})

============================================================================
