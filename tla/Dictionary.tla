----------------------------- MODULE Dictionary -----------------------------
(***************************************************************************)
(* What the database library promises its callers: a dictionary on which   *)
(* the calls of all processes take effect one at a time, although several  *)
(* run at once.  A process that dies in a call to db_store may take the    *)
(* record it was replacing with it.                                        *)
(***************************************************************************)
CONSTANTS Procs, Keys, Data, NONE

VARIABLES kv,      \* the records
          result   \* what a process was just told: <<operation, key, answer>>

vars == <<kv, result>>

Init == kv \in [Keys -> Data \cup {NONE}] /\ result = [p \in Procs |-> NONE]

Create == kv' = [k \in Keys |-> NONE] /\ UNCHANGED result

Answer(p, r) == result[p] = NONE /\ result' = [result EXCEPT ![p] = r]

Fetch(p, k) == Answer(p, <<"fetch", k, kv[k]>>) /\ UNCHANGED kv

Delete(p, k) ==
    /\ Answer(p, <<"delete", k, IF kv[k] = NONE THEN "ENOENT" ELSE "ok">>)
    /\ kv' = [kv EXCEPT ![k] = NONE]

Insert(p, k, d) ==
    IF kv[k] = NONE
    THEN Answer(p, <<"insert", k, "ok">>) /\ kv' = [kv EXCEPT ![k] = d]
    ELSE Answer(p, <<"insert", k, "exists">>) /\ UNCHANGED kv

Replace(p, k, d) ==
    IF kv[k] = NONE
    THEN Answer(p, <<"replace", k, "ENOENT">>) /\ UNCHANGED kv
    ELSE Answer(p, <<"replace", k, "ok">>) /\ kv' = [kv EXCEPT ![k] = d]

Store(p, k, d) ==
    Answer(p, <<"store", k, "ok">>) /\ kv' = [kv EXCEPT ![k] = d]

\* The caller goes on.
Return(p) == result' = [result EXCEPT ![p] = NONE] /\ UNCHANGED kv

\* The process dies; the record it was replacing may go with it.
Die(p) == /\ result' = [result EXCEPT ![p] = NONE]
          /\ \E k \in Keys : kv' \in {kv, [kv EXCEPT ![k] = NONE]}

Next ==
    \/ Create
    \/ \E p \in Procs :
          \/ Return(p) \/ Die(p)
          \/ \E k \in Keys : Fetch(p, k) \/ Delete(p, k)
          \/ \E k \in Keys, d \in Data :
                Insert(p, k, d) \/ Replace(p, k, d) \/ Store(p, k, d)

Spec == Init /\ [][Next]_vars
=============================================================================
