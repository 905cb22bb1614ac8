-------------------------- MODULE MCPrinterStatus --------------------------
(* Instances of PrinterStatus for TLC. *)
EXTENDS PrinterStatus

\* Small responses: status line, header, body.
MCLayouts ==
    {[status |-> s, clen |-> s + a, clenEnd |-> s + a + 2, end |-> s + a + 2 + b,
      total |-> s + a + 5 + b + n] : s \in 1..2, a \in 0..1, b \in 0..2, n \in 2..3}
=============================================================================
