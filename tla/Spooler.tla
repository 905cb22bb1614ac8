------------------------------ MODULE Spooler ------------------------------
(***************************************************************************)
(* What a print spooler promises its clients: a submission is refused, or  *)
(* accepted and then put in line; the job at the head of the line is       *)
(* printed or, when its data cannot be read, dropped.  Nothing else leaves *)
(* the line and nobody overtakes.                                          *)
(***************************************************************************)
EXTENDS Sequences

CONSTANT Clients

VARIABLES status, line

svars == <<status, line>>

Init == status = [c \in Clients |-> "new"] /\ line = <<>>

Become(c, from, to) ==
    status[c] = from /\ status' = [status EXCEPT ![c] = to]

Refuse(c) == Become(c, "new", "refused") /\ UNCHANGED line

Accept(c) == Become(c, "new", "accepted") /\ UNCHANGED line

Enqueue(c) == Become(c, "accepted", "queued") /\ line' = Append(line, c)

Serve(outcome) ==
    /\ line # <<>>
    /\ Become(Head(line), "queued", outcome)
    /\ line' = Tail(line)

Next ==
    \/ \E c \in Clients : Refuse(c) \/ Accept(c) \/ Enqueue(c)
    \/ Serve("printed") \/ Serve("dropped")

Spec == Init /\ [][Next]_svars
=============================================================================
