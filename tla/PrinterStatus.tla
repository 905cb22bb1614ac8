--------------------------- MODULE PrinterStatus ---------------------------
(***************************************************************************)
(* printer_status and readmore of printer/printd.c: how printer_thread     *)
(* reads the printer's HTTP/IPP response and decides whether the job was   *)
(* printed.  A response is abstracted to where its parts lie in the        *)
(* buffer:                                                                 *)
(*    0 .. status-1      status line                                       *)
(*    clen .. clenEnd-1  Content-Length header, with its value             *)
(*    end .. end+2       the \n\r\n that ends the header                   *)
(*    end+3 .. total-1   the body, which starts with the IPP header        *)
(* and to what it says.  tread delivers it in pieces of any size, or fails *)
(* (time-out, error, end of file).  `filled' is how much of the buffer was    *)
(* filled by tread; the code keeps datsz instead.  A step that would look  *)
(* at bytes beyond `filled', or at an IPP header that was overwritten, goes   *)
(* to "undefined": the buffer holds whatever malloc left there.            *)
(* An informational response arrives in a read of its own: one that comes  *)
(* in the same read as the response behind it, which the next tread then   *)
(* overwrites, is left out.                                                *)
(***************************************************************************)
EXTENDS Integers, FiniteSetsExt

CONSTANTS Layouts,     \* the responses' layouts
          IppHdr,      \* bytes of the IPP header that are looked at
          Cuts,        \* where tread may cut a response: see May
          MaxInfo      \* bound: informational (1xx) responses

\* The parts lie in this order, and the body holds the IPP header.
ASSUME StatusAssumption ==
    /\ IppHdr \in Nat /\ MaxInfo \in Nat
    /\ \A at \in Layouts :
          /\ at \in [status : Nat, clen : Nat, clenEnd : Nat, end : Nat, total : Nat]
          /\ 0 < at.status /\ at.status <= at.clen /\ at.clen < at.clenEnd
          /\ at.clenEnd <= at.end /\ at.end + 3 + IppHdr <= at.total

VARIABLES cut,         \* one of Cuts
          stpc, resp, ri, datsz, filled, infos, success,
          failed       \* history: a tread failed

statusVars == <<cut, stpc, resp, ri, datsz, filled, infos, success, failed>>

Responses ==
    [at : Layouts, code : {"ok", "error", "badformat"},
     mine : BOOLEAN, printed : BOOLEAN]

StatusInit ==
    /\ cut = "none" /\ stpc = "idle" /\ resp = CHOOSE r \in Responses : TRUE
    /\ ri = 0 /\ datsz = 0 /\ filled = 0
    /\ infos = MaxInfo /\ success = FALSE /\ failed = FALSE

\* printer_status is called; the printer answers somehow.
PrinterAnswers ==
    /\ stpc = "idle"
    /\ stpc' = "first" /\ cut' \in Cuts /\ resp' \in Responses
    /\ UNCHANGED <<ri, datsz, filled, infos, success, failed>>

parts == resp.at

\* "header": cut a response after its header or not at all; "line": anywhere
\* after its status line; "any": anywhere.
May(n) == \/ cut = "any"
          \/ cut = "line" /\ n >= parts.status
          \/ n \in {parts.end + 3, parts.total}

\* The lengths to which a read can bring the response.
Fills == {n \in (filled + 1)..parts.total : May(n)}

bodyLen == parts.total - (parts.end + 3)

Decide(result) == stpc' = "done" /\ success' = result

Fail == Decide(FALSE) /\ failed' = TRUE /\ UNCHANGED <<datsz, filled>>

\* Go on to `to' at offset n, unless the bytes before `need' are not all there.
Look(from, to, n, need) ==
    /\ stpc = from
    /\ IF need <= filled THEN stpc' = to /\ ri' = n
                         ELSE stpc' = "undefined" /\ UNCHANGED ri
    /\ UNCHANGED <<cut, resp, datsz, filled, infos, success, failed>>

-----------------------------------------------------------------------------
\* The loop's tread, into the start of the buffer; an informational response
\* only makes it read again.
FirstRead ==
    /\ stpc = "first"
    /\ \/ /\ infos > 0 /\ infos' = infos - 1
          /\ UNCHANGED <<stpc, datsz, filled, success, failed>>
       \/ /\ \E n \in Fills : filled' = n /\ datsz' = n
          /\ stpc' = "status" /\ UNCHANGED <<infos, success, failed>>
       \/ Fail /\ UNCHANGED infos
    /\ UNCHANGED <<cut, resp, ri>>

\* Find the status code.  Bad format: back to the loop's tread.  Not a success:
\* give up.
ReadStatus ==
    \/ resp.code = "ok" /\ Look("status", "length", parts.status, parts.status)
    \/ resp.code = "badformat" /\ Look("status", "first", ri, parts.status)
    \/ /\ resp.code = "error" /\ stpc = "status"
       /\ IF parts.status <= filled THEN Decide(FALSE)
          ELSE stpc' = "undefined" /\ UNCHANGED success
       /\ UNCHANGED <<cut, resp, ri, datsz, filled, infos, failed>>

\* readmore at offset ri.  It returns the offset of the end of the data, and
\* every caller adds that to datsz.
readmore(from, then) ==
    /\ stpc = from
    /\ \/ /\ \E n \in Fills : /\ datsz' = datsz + (ri + (n - filled))
                              /\ filled' = ri + (n - filled)
          /\ stpc' = then /\ UNCHANGED <<success, failed>>
       \/ Fail
    /\ UNCHANGED <<cut, resp, ri, infos>>

\* Search for Content-Length up to datsz, and read more when it is not there.
FindLength ==
    \/ parts.clen < datsz /\ Look("length", "more", parts.clenEnd, parts.clenEnd)
    \/ parts.clen >= datsz /\ ri < datsz /\ Look("length", "length", datsz, datsz)
    \/ parts.clen >= datsz /\ ri >= datsz /\ readmore("length", "length")

\* After the length: read more if the data ends there.
MoreHeader ==
    \/ ri < datsz /\ Look("more", "end", ri, ri)
    \/ ri >= datsz /\ readmore("more", "end")

\* Mutant: more is read only past datsz.
MutReadLate ==
    \/ parts.end + 2 < datsz /\ Look("end", "ended", parts.end + 3, parts.end + 3)
    \/ /\ parts.end + 2 >= datsz
       /\ Look("end", "ended", Max({ri, datsz - 2}), datsz)
    \/ ri <= datsz /\ Look("ended", IF ri > parts.end THEN "body" ELSE "end", ri, ri)

\* One turn of the loop that looks for the end of the header: the search stops
\* two bytes short of datsz, but more is read only when ri is at datsz.
FindEnd ==
    \/ parts.end + 2 < datsz /\ Look("end", "ended", parts.end + 3, parts.end + 3)
    \/ /\ parts.end + 2 >= datsz
       /\ Look("end", "ended", Max({ri, datsz - 2}), datsz)
    \/ ri < datsz /\ Look("ended", IF ri > parts.end THEN "body" ELSE "end", ri, ri)
    \/ ri >= datsz /\ readmore("ended", IF ri > parts.end THEN "body" ELSE "end")

\* A body that is not complete: read once more, but to offset ri, over what is
\* there of it.
ReadBody ==
    \/ datsz - ri >= bodyLen /\ Look("body", "ipp", ri, ri)
    \/ /\ datsz - ri < bodyLen /\ stpc = "body"
       /\ \/ /\ Fills # {} /\ stpc' = "undefined"
             /\ UNCHANGED <<datsz, filled, success, failed>>
          \/ Fail
       /\ UNCHANGED <<cut, resp, ri, infos>>

\* The IPP header decides: our job number and a status of the OK class.
ReadIpp ==
    /\ stpc = "ipp"
    /\ IF ri + IppHdr <= filled THEN Decide(resp.mine /\ resp.printed)
       ELSE stpc' = "undefined" /\ UNCHANGED success
    /\ UNCHANGED <<cut, resp, ri, datsz, filled, infos, failed>>

printer_status ==
    \/ FirstRead \/ ReadStatus \/ FindLength \/ MoreHeader \/ FindEnd
    \/ ReadBody \/ ReadIpp

StatusNext == PrinterAnswers \/ printer_status

StatusFairness == WF_statusVars(printer_status)

StatusSpec == StatusInit /\ [][StatusNext]_statusVars /\ StatusFairness

-----------------------------------------------------------------------------
\* printer_thread removes a job when, and only when, the printer said it was
\* printed, or could not be heard: a wrong yes loses the job, a wrong no prints
\* it again.
AnswerIsRight ==
    stpc = "done" => \/ success = (resp.code = "ok" /\ resp.mine /\ resp.printed)
                     \/ failed /\ ~success

\* A response that arrives whole, or cut after its HTTP header, is read to its
\* end: printer_status decides on the bytes the printer sent.
WholeHeaderIsRead == cut = "header" => stpc # "undefined"

\* What printer_status makes of a response is right, and it is made of all of it.
ResponseIsRead == AnswerIsRight /\ WholeHeaderIsRead

\* For such a response printer_status returns: it does not hold the only
\* printer thread for ever.  Not so, and left out, for one that is cut between
\* the Content-Length line and the end of the header: the search stops at
\* datsz - 2, the test for more data asks for datsz, and the loop spins.
StatusReturns == (stpc = "first" /\ cut = "header") ~> (stpc = "done")

\* "They can be returned in multiple read attempts": however tread cuts the
\* response, printer_status decides on the bytes the printer sent.  Not even a
\* whole status line is enough: of a Content-Length line that is cut, FindLength
\* compares and scans what is not there yet.
LooksAtTheResponse == stpc # "undefined"
=============================================================================
