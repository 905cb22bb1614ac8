-------------------------------- MODULE MCDb --------------------------------
(* Instances of Db for TLC. *)
EXTENDS Db

CONSTANTS k1, k2, k3,   \* k1 and k2 share a chain
          short, long

MCHash == [k \in Keys |-> IF k = k3 THEN 2 ELSE 1]
MCKeyLen == [k \in Keys |-> 1]
MCDatLen == [d \in Data |-> IF d = long THEN 2 ELSE 1]

NoFiles == [table |-> <<>>, rec |-> <<>>, dat |-> <<>>, kv |-> [k \in Keys |-> NONE]]

\* What is left when k1, k2 and k3 were inserted and k3 was deleted.
OneDeleted ==
    [table |-> [o \in 0..2 |-> IF o = 0 THEN 5 ELSE IF o = 1 THEN 4 ELSE 0],
     rec |-> <<[ptr |-> 0, key |-> k1, klen |-> 1, datoff |-> 1, datlen |-> 1],
               [ptr |-> 3, key |-> k2, klen |-> 1, datoff |-> 2, datlen |-> 2],
               [ptr |-> 0, key |-> BLANK, klen |-> 1, datoff |-> 3, datlen |-> 1]>>,
     dat |-> <<short, long, BLANK>>,
     kv |-> [k \in Keys |-> IF k = k1 THEN short ELSE IF k = k2 THEN long ELSE NONE]]

MCDatabases == {NoFiles, OneDeleted}
=============================================================================
