----------------------------- MODULE SortThreads -----------------------------
(* threads/barrier.c: NTHR threads sort a part of the numbers each, meet main *)
(* at a barrier, and main merges the parts, one number after the other.       *)
(* heapsort is the library's: it sorts its part in place.                     *)
EXTENDS Integers, Sequences, FiniteSets

CONSTANTS NTHR, TNUM,   \* parts, and numbers in a part
          Numbers,      \* the values of random()
          LONG_MAX

ASSUME SortAssumption == /\ NTHR \in Nat \ {0} /\ TNUM \in Nat \ {0} /\ LONG_MAX \in Nat
                         /\ \A n \in Numbers : n \in Nat /\ n < LONG_MAX

VARIABLES nums, snums,   \* the arrays
          given,         \* the numbers as they were made
          sorter,        \* sorter[i]: where the i-th thread is
          smain,         \* where main is
          merging        \* merge's locals: [idx, sidx, minidx]

sortVars == <<nums, snums, given, sorter, smain, merging>>

NUMNUM == NTHR * TNUM
Parts == 0..(NTHR - 1)
First(i) == i * TNUM

SortInit ==
    /\ nums = [n \in 0..(NUMNUM - 1) |-> 0] /\ given = nums
    /\ snums = <<>>
    /\ sorter = [i \in Parts |-> "none"]
    /\ smain = "start"
    /\ merging = [idx |-> [i \in Parts |-> First(i)], sidx |-> 0, minidx |-> 0]

\* main makes the numbers, the barrier, and then the threads one by one.
MakeNumbers ==
    /\ smain = "start"
    /\ nums' \in [0..(NUMNUM - 1) -> Numbers]
    /\ given' = nums'
    /\ smain' = "create"
    /\ UNCHANGED <<snums, sorter, merging>>

\* pthread_create; if it fails the process exits.
CreateSorter ==
    /\ smain = "create"
    /\ LET left == {i \in Parts : sorter[i] = "none"}
       IN  \/ /\ left # {}
              /\ sorter' = [sorter EXCEPT ![CHOOSE i \in left : \A j \in left : i <= j] = "sort"]
              /\ UNCHANGED smain
           \/ /\ left = {}
              /\ smain' = "barrier"
              /\ UNCHANGED sorter
           \/ /\ left # {}
              /\ smain' = "exit"
              /\ UNCHANGED sorter
    /\ UNCHANGED <<nums, snums, given, merging>>

Part(i) == First(i)..(First(i) + TNUM - 1)
Occurrences(a, dom, x) == Cardinality({n \in dom : a[n] = x})

complong(l1, l2) == IF l1 = l2 THEN 0 ELSE IF l1 < l2 THEN -1 ELSE 1

\* thr_fn: heapsort, then the barrier.
thr_sorts(i) ==
    /\ sorter[i] = "sort" /\ smain # "exit"
    /\ \E p \in [Part(i) -> Numbers] :
          /\ \A n \in Part(i) : n + 1 \in Part(i) => complong(p[n], p[n + 1]) <= 0
          /\ \A x \in Numbers : Occurrences(p, Part(i), x) = Occurrences(nums, Part(i), x)
          /\ nums' = [n \in DOMAIN nums |-> IF n \in Part(i) THEN p[n] ELSE nums[n]]
    /\ sorter' = [sorter EXCEPT ![i] = "barrier"]
    /\ UNCHANGED <<snums, given, smain, merging>>
\* Mutant: the barrier is made for NTHR threads, main among them.
MutBarrierShort ==
    /\ smain = "barrier" /\ Cardinality({i \in Parts : sorter[i] = "barrier"}) + 1 >= NTHR
    /\ smain' = "merge"
    /\ sorter' = [i \in Parts |-> IF sorter[i] = "barrier" THEN "end" ELSE sorter[i]]
    /\ UNCHANGED <<nums, snums, given, merging>>

\* pthread_barrier_wait returns when NTHR + 1 have called it.
BarrierOpens ==
    /\ smain = "barrier" /\ Cardinality({i \in Parts : sorter[i] = "barrier"}) = NTHR
    /\ smain' = "merge"
    /\ sorter' = [i \in Parts |-> "end"]
    /\ UNCHANGED <<nums, snums, given, merging>>

\* One turn of the outer loop of merge: the parts are gone through in order and
\* minidx is the last one that beat the smallest number so far; it keeps its old
\* value if none does.
MinIdx(m) ==
    LET beat[i \in 0..NTHR] ==
          IF i = 0 THEN [num |-> LONG_MAX, minidx |-> m.minidx]
          ELSE LET before == beat[i - 1]
                   k == m.idx[i - 1]
               IN  IF k < First(i) /\ nums[k] < before.num THEN [num |-> nums[k], minidx |-> i - 1] ELSE before
    IN  beat[NTHR].minidx

merge ==
    /\ smain = "merge"
    /\ IF merging.sidx < NUMNUM
         THEN LET i == MinIdx(merging)
              IN  /\ snums' = Append(snums, nums[merging.idx[i]])
                  /\ merging' = [idx |-> [merging.idx EXCEPT ![i] = @ + 1], sidx |-> merging.sidx + 1, minidx |-> i]
                  /\ UNCHANGED smain
         ELSE smain' = "exit" /\ UNCHANGED <<snums, merging>>
    /\ UNCHANGED <<nums, given, sorter>>

SortNext == MakeNumbers \/ CreateSorter \/ (\E i \in Parts : thr_sorts(i)) \/ BarrierOpens \/ merge

SortSpec == SortInit /\ [][SortNext]_sortVars

----------------------------------------------------------------------------
\* What is printed is the numbers, sorted: at every turn of merge the numbers
\* merged so far are the smallest ones, each as often as it was given.  It needs
\* the barrier (the parts are sorted) and numbers below LONG_MAX.
MergedAreTheSmallest ==
    /\ \A n \in 1..(Len(snums) - 1) : snums[n] <= snums[n + 1]
    /\ smain = "merge" => \A i \in Parts, k \in DOMAIN nums :
          (k \in Part(i) /\ k >= merging.idx[i] /\ snums # <<>>) => nums[k] >= snums[Len(snums)]
    /\ Len(snums) = NUMNUM => \A x \in Numbers : Occurrences(snums, DOMAIN snums, x) = Occurrences(given, DOMAIN given, x)

============================================================================
