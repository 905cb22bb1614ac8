----------------------------- MODULE MemStream -----------------------------
(* exercises/fmemopen.c: a standard I/O stream whose file is a buffer in      *)
(* memory.  The actions are fmemopen and the four functions that the stream   *)
(* (made by funopen) calls.  `memory' has a cell more than the buffer, and    *)
(* `file' is the file the stream stands for.                                  *)
EXTENDS Naturals, Integers, Sequences

CONSTANTS BufSizes,        \* sizes the caller passes
          Types,           \* the mode strings, as sequences of characters
          Bytes,           \* what the caller writes; 0 is the null byte
          MaxStreamCalls   \* calls on a stream

ASSUME StreamAssumption == /\ BufSizes \subseteq Nat /\ MaxStreamCalls \in Nat
                           /\ Bytes \subseteq Nat /\ Types \subseteq Seq(STRING)

VARIABLES ms,        \* struct memstream without buf, or NoStream
          memory,    \* the buffer, and one byte behind it
          file,      \* the file: [data, pos]
          got,       \* what the last read returned, and should have
          grown,     \* a write has put a null byte into the buffer
          streamCalls

streamVars == <<ms, memory, file, got, grown, streamCalls>>

NoStream == [rsize |-> 0, vsize |-> 0, curpos |-> 0, flags |-> {}]
MIN(a, b) == IF a < b THEN a ELSE b

MemInit ==
    /\ ms = NoStream
    /\ memory = <<>>
    /\ file = [data |-> <<>>, pos |-> 0]
    /\ got = [bytes |-> <<>>, want |-> <<>>]
    /\ grown = FALSE
    /\ streamCalls = 0

\* What a character of a mode string does to the flags of those before it.
Flag(flags, c) ==
    IF "bad" \in flags THEN flags ELSE
    CASE c \in {"r", "w", "a"} /\ flags = {} ->
           (CASE c = "r" -> {"READ"} [] c = "w" -> {"WRITE", "TRUNCATE"} [] OTHER -> {"APPEND"})
      [] c = "+" /\ flags # {} -> flags \cup {"READ", "WRITE"}
      [] c = "b" /\ flags # {} -> flags
      [] OTHER -> {"bad"}

\* The flags of a mode string, {} for a bad one.
type_to_flags(type) ==
    LET flags[n \in 0..Len(type)] == IF n = 0 THEN {} ELSE Flag(flags[n - 1], type[n])
    IN  IF "bad" \in flags[Len(type)] THEN {} ELSE flags[Len(type)]

find_end(buf, len) ==
    CHOOSE n \in 0..len : (n = len \/ buf[n + 1] = 0) /\ \A m \in 1..n : buf[m] # 0

Update(flags) == {"READ", "WRITE"} \subseteq flags

\* fmemopen: with the caller's buffer or (own) a new one, whose bytes are
\* undefined.  It fails for size 0, a bad mode, or a new buffer that is not for
\* update; also when malloc or funopen do, which leaves nothing behind.
Fmemopen(size, type, own) ==
    /\ ms = NoStream /\ streamCalls = 0
    /\ size # 0
    /\ LET flags == type_to_flags(type)
       IN  /\ flags # {} /\ (own => Update(flags))
           /\ \E m \in [1..size -> Bytes] :
                LET pos == IF "APPEND" \in flags /\ ~own THEN find_end(m, size) ELSE 0
                    vsize == IF "APPEND" \in flags THEN pos ELSE IF "TRUNCATE" \in flags THEN 0 ELSE size
                IN  /\ memory' = Append(m, 99)
                    /\ ms' = [rsize |-> size, vsize |-> vsize, curpos |-> pos,
                              flags |-> flags \cup (IF own THEN {"MYBUF"} ELSE {})]
                    /\ file' = [data |-> SubSeq(m, 1, vsize), pos |-> pos]
    /\ streamCalls' = 1
    /\ UNCHANGED <<got, grown>>

Open == ms # NoStream
CallOn == Open /\ streamCalls < MaxStreamCalls /\ streamCalls' = streamCalls + 1

\* mstream_read; EBADF without MS_READ.
mstream_read(len) ==
    /\ CallOn
    /\ "READ" \in ms.flags
    /\ LET nr == IF ms.curpos >= ms.vsize THEN 0 ELSE MIN(len, ms.vsize - ms.curpos)
           want == SubSeq(file.data, file.pos + 1, MIN(file.pos + len, Len(file.data)))
       IN  /\ got' = [bytes |-> SubSeq(memory, ms.curpos + 1, ms.curpos + nr), want |-> want]
           /\ ms' = [ms EXCEPT !.curpos = @ + nr]
           /\ file' = [file EXCEPT !.pos = @ + Len(want)]
    /\ UNCHANGED <<memory, grown>>

\* What a write does to a file that cannot grow beyond cap bytes.
FileWrite(f, text, append, cap) ==
    LET at == IF append THEN Len(f.data) ELSE f.pos
        fit == SubSeq(text, 1, MIN(Len(text), cap - at))
    IN  [data |-> SubSeq(f.data, 1, at) \o fit \o SubSeq(f.data, at + Len(fit) + 1, Len(f.data)),
         pos |-> at + Len(fit)]

\* The null byte: behind the data of an update stream that has grown and has
\* room, and at the position of a write-only stream, or in the last byte.
Terminate(m, curpos, vsize) ==
    LET ended == IF curpos > ms.vsize /\ Update(ms.flags) /\ vsize < ms.rsize
                   THEN [m EXCEPT ![vsize + 1] = 0] ELSE m
    IN  IF "READ" \in ms.flags THEN ended
        ELSE [ended EXCEPT ![IF curpos < ms.rsize THEN curpos + 1 ELSE ms.rsize] = 0]

\* Where a write begins.  Mutant: MS_APPEND makes no difference.
MutWriteAtPos == ms.curpos
WriteAt == IF "APPEND" \in ms.flags THEN ms.vsize ELSE ms.curpos

\* mstream_write; EBADF for a stream that is only read.
mstream_write(text) ==
    /\ CallOn
    /\ ms.flags \cap {"APPEND", "WRITE"} # {}
    /\ LET off == WriteAt
           nw == MIN(Len(text), ms.rsize - off)
           copied == [k \in DOMAIN memory |-> IF k > off /\ k <= off + nw THEN text[k - off] ELSE memory[k]]
           vsize == IF off + nw > ms.vsize THEN off + nw ELSE ms.vsize
       IN  /\ memory' = Terminate(copied, off + nw, vsize)
           /\ ms' = [ms EXCEPT !.curpos = off + nw, !.vsize = vsize]
           /\ grown' = (grown \/ "READ" \notin ms.flags \/ vsize > ms.vsize)
    /\ file' = FileWrite(file, text, "APPEND" \in ms.flags, ms.rsize)
    /\ UNCHANGED got

\* mstream_seek; EINVAL outside of 0..vsize.
mstream_seek(pos, whence) ==
    /\ CallOn
    /\ LET off == pos + (CASE whence = "SET" -> 0 [] whence = "END" -> ms.vsize [] OTHER -> ms.curpos)
       IN  /\ off >= 0 /\ off <= ms.vsize
           /\ ms' = [ms EXCEPT !.curpos = off]
           /\ file' = [file EXCEPT !.pos = off]
    /\ UNCHANGED <<memory, got, grown>>

\* The buffer is the caller's again, or freed.
mstream_close ==
    /\ Open
    /\ ms' = NoStream
    /\ memory' = IF "MYBUF" \in ms.flags THEN <<>> ELSE memory
    /\ UNCHANGED <<file, got, grown, streamCalls>>

Texts == {<<a>> : a \in Bytes} \cup {<<a, b>> : a, b \in Bytes}
MemNext ==
    \/ \E size \in BufSizes, type \in Types, own \in BOOLEAN : Fmemopen(size, type, own)
    \/ \E len \in 1..2 : mstream_read(len)
    \/ \E text \in Texts : mstream_write(text)
    \/ \E pos \in -1..1, whence \in {"SET", "END", "CUR"} : mstream_seek(pos, whence)
    \/ mstream_close

MemSpec == MemInit /\ [][MemNext]_streamVars

----------------------------------------------------------------------------
\* No sequence of calls moves a stream out of its buffer or writes behind it.
StaysInTheBuffer ==
    Open => /\ ms.curpos <= ms.vsize /\ ms.vsize <= ms.rsize
            /\ memory[ms.rsize + 1] = 99

\* A stream for update is a file of at most rsize bytes: the same contents, the
\* same position, and reads return what they would return from the file.  A
\* stream that is only written has the file's bytes, but for null bytes.
StreamIsAFile ==
    Open =>
        /\ ms.vsize = Len(file.data) /\ ms.curpos = file.pos
        /\ got.bytes = got.want
        /\ \A k \in 1..ms.vsize :
              memory[k] = file.data[k] \/ (memory[k] = 0 /\ "READ" \notin ms.flags)

\* Whatever calls follow a write, the buffer is a string of C: the contents of a
\* stream for update that has grown end with a null byte if there is room for it,
\* and a stream that is only written has a null byte within the buffer.
BufferIsAString ==
    (Open /\ grown) =>
        IF "READ" \in ms.flags
          THEN ms.vsize < ms.rsize => memory[ms.vsize + 1] = 0
          ELSE \E k \in 1..ms.rsize : memory[k] = 0

\* After any calls in any mode, a stream behaves as its file, leaves the memory
\* behind its buffer alone and leaves a string in it.
StreamIsSound == StaysInTheBuffer /\ StreamIsAFile /\ BufferIsAString

============================================================================
