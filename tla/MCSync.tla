------------------------------- MODULE MCSync -------------------------------
(***************************************************************************)
(* Two files in one directory; contents of one and two blocks, two of each *)
(* size that matters.  Files of two blocks are large.                      *)
(***************************************************************************)
EXTENDS Sync, TLC

CONSTANTS f1, f2

MCContents == {<<1, 2>>, <<2, 2>>, <<2>>}
MCCounts == [thread |-> {2}, process |-> {2, 3}, simple |-> {1}]
MCOriginal == (f1 :> <<1, 2>>) @@ (f2 :> <<2>>)
MCListing == [S \in SUBSET Files |-> SelectSeq(<<f1, f2>>, LAMBDA f : f \in S)]
MCDirOf == [f \in Files |-> "sub"]
=============================================================================
