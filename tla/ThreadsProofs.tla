--------------------------- MODULE ThreadsProofs ---------------------------
(***************************************************************************)
(* Proofs about the programs with threads: the retry timer (Timeout), the  *)
(* condition variables (Condvars), the job queue (JobQueue), the reference *)
(* counted objects (ObjectTable) and the parallel sort (SortThreads).  One *)
(* part per program: its lemmas, its inductive invariant, a lemma per      *)
(* step, and the theorem.                                                  *)
(***************************************************************************)
EXTENDS Timeout, Condvars, JobQueue, ObjectTable, SortThreads, SequenceTheorems, FiniteSetTheorems, WellFoundedInduction, TLAPS

-----------------------------------------------------------------------------
(* Timeout: timeout.c. *)

Timespec == [tv_sec : Int, tv_nsec : 0..(SECTONSEC - 1)]

\* A clock reading is a time, and loses nothing.
LEMMA ReadingIsExact ==
    ASSUME NEW ticks \in Nat
    PROVE  Ts(ticks) \in Timespec /\ Ticks(Ts(ticks)) = ticks
<1>1. /\ ticks \div SECTONSEC \in Int /\ ticks % SECTONSEC \in 0..(SECTONSEC - 1)
      /\ ticks = SECTONSEC * (ticks \div SECTONSEC) + (ticks % SECTONSEC)
    BY TimeoutAssumption
<1> QED
    BY <1>1, TimeoutAssumption DEF Ts, Ticks, Timespec

\* A product is as large as a factor when the other is at least one.
LEMMA AtLeastOnce == ASSUME NEW a \in Int, NEW b \in Nat, a >= 1 PROVE a * b >= b
<1>1. a * b = b + (a - 1) * b
    OBVIOUS
<1>2. (a - 1) * b >= 0
    OBVIOUS
<1>3. a * b \in Int /\ (a - 1) * b \in Int
    OBVIOUS
<1> QED
    BY <1>1, <1>2, <1>3

\* The subtraction of timeout, borrow included: the time to wait is a time,
\* is the difference of the two, and is not zero.
LEMMA WaitIsTheDifference ==
    ASSUME NEW w \in Timespec, NEW now \in Timespec, Later(w, now)
    PROVE  /\ ToWait(w, now) \in Timespec
           /\ Ticks(ToWait(w, now)) = Ticks(w) - Ticks(now)
           /\ Ticks(ToWait(w, now)) > 0
<1> DEFINE d == w.tv_sec - now.tv_sec
<1>1. /\ w.tv_sec \in Int /\ now.tv_sec \in Int /\ w.tv_nsec \in 0..(SECTONSEC - 1) /\ now.tv_nsec \in 0..(SECTONSEC - 1)
      /\ SECTONSEC \in Nat /\ SECTONSEC > 0 /\ d \in Int
    BY TimeoutAssumption DEF Timespec
<1>2. /\ w.tv_sec * SECTONSEC \in Int /\ now.tv_sec * SECTONSEC \in Int /\ d * SECTONSEC \in Int
      /\ d * SECTONSEC = w.tv_sec * SECTONSEC - now.tv_sec * SECTONSEC
      /\ (d - 1) * SECTONSEC = d * SECTONSEC - SECTONSEC
    BY <1>1
<1>3. d >= 1 \/ (d = 0 /\ w.tv_nsec > now.tv_nsec)
    BY <1>1 DEF Later
<1>4. d * SECTONSEC + w.tv_nsec - now.tv_nsec > 0
  <2>1. CASE d >= 1
    <3>1. d * SECTONSEC >= SECTONSEC
      BY <2>1, <1>1, AtLeastOnce
    <3> HIDE DEF d
    <3> QED
      BY <3>1, <1>1, <1>2
  <2>2. CASE d = 0 /\ w.tv_nsec > now.tv_nsec
    <3>1. d * SECTONSEC = 0
      BY <2>2, <1>1
    <3> HIDE DEF d
    <3> QED
      BY <3>1, <2>2, <1>1
  <2> QED
    BY <2>1, <2>2, <1>3
<1>5. CASE w.tv_nsec >= now.tv_nsec
  <2>1. ToWait(w, now) = [tv_sec |-> d, tv_nsec |-> w.tv_nsec - now.tv_nsec]
    BY <1>5 DEF ToWait
  <2>2. Ticks(ToWait(w, now)) = d * SECTONSEC + (w.tv_nsec - now.tv_nsec)
    BY <2>1 DEF Ticks
  <2> HIDE DEF d
  <2> QED
    BY <1>1, <1>2, <1>4, <1>5, <2>1, <2>2 DEF Ticks, Timespec
<1>6. CASE w.tv_nsec < now.tv_nsec
  <2>1. ToWait(w, now) = [tv_sec |-> d - 1, tv_nsec |-> SECTONSEC - now.tv_nsec + w.tv_nsec]
    BY <1>6, <1>1 DEF ToWait
  <2>2. Ticks(ToWait(w, now)) = (d - 1) * SECTONSEC + (SECTONSEC - now.tv_nsec + w.tv_nsec)
    BY <2>1 DEF Ticks
  <2> HIDE DEF d
  <2> QED
    BY <1>1, <1>2, <1>4, <1>6, <2>1, <2>2 DEF Ticks, Timespec
<1> QED
    BY <1>1, <1>5, <1>6

\* The comparison of timeout: what is not later has come.
LEMMA NotLaterHasCome ==
    ASSUME NEW w \in Timespec, NEW now \in Timespec, ~Later(w, now)
    PROVE  Ticks(w) <= Ticks(now)
<1> DEFINE d == now.tv_sec - w.tv_sec
<1>1. /\ w.tv_sec \in Int /\ now.tv_sec \in Int /\ w.tv_nsec \in 0..(SECTONSEC - 1) /\ now.tv_nsec \in 0..(SECTONSEC - 1)
      /\ SECTONSEC \in Nat /\ SECTONSEC > 0 /\ d \in Int
    BY TimeoutAssumption DEF Timespec
<1>2. /\ w.tv_sec * SECTONSEC \in Int /\ now.tv_sec * SECTONSEC \in Int /\ d * SECTONSEC \in Int
      /\ d * SECTONSEC = now.tv_sec * SECTONSEC - w.tv_sec * SECTONSEC
    BY <1>1
<1>3. d >= 1 \/ (d = 0 /\ w.tv_nsec <= now.tv_nsec)
    BY <1>1 DEF Later
<1>4. d * SECTONSEC >= SECTONSEC \/ (d * SECTONSEC = 0 /\ w.tv_nsec <= now.tv_nsec)
    BY <1>1, <1>3, AtLeastOnce
<1> DEFINE a == w.tv_sec * SECTONSEC
           b == now.tv_sec * SECTONSEC
           c == d * SECTONSEC
<1>5. /\ Ticks(w) = a + w.tv_nsec /\ Ticks(now) = b + now.tv_nsec
      /\ a \in Int /\ b \in Int /\ c \in Int /\ c = b - a
      /\ c >= SECTONSEC \/ (c = 0 /\ w.tv_nsec <= now.tv_nsec)
    BY <1>2, <1>4 DEF Ticks
<1> HIDE DEF a, b, c, d
<1> QED
    BY <1>1, <1>5

\* A timespec is a number of ticks.
LEMMA TicksAreIntegers == ASSUME NEW w \in Timespec PROVE Ticks(w) \in Int
BY TimeoutAssumption DEF Ticks, Timespec

TimeoutTypes ==
    /\ clock \in Nat
    /\ tmain \in {"idle", "locked", "timeout", "call", "retry", "unlock", "continue", "exit"}
    /\ when \in Timespec
    /\ helper \in [pc : {"none", "start", "sleep", "retry", "free", "end"}, to_wait : Timespec, left : Nat]
    /\ retries \in [number : Nat, early : BOOLEAN]
    /\ tip \in {"none", "allocated", "freed"}

\* One retry at most: main makes it or the helper does, and the structure is
\* allocated while the helper has it.
OneRetry ==
    /\ helper.pc # "none" => tmain \in {"unlock", "continue"}
    /\ tmain \in {"idle", "locked", "timeout", "call"} => retries.number = 0
    /\ tmain = "retry" => retries.number = 1
    /\ helper.pc \in {"start", "sleep"} => retries.number = 0
    /\ retries.number <= 1
    /\ tip = "allocated" => helper.pc \in {"start", "sleep", "retry", "free"} \/ tmain = "exit"

\* The time that has passed and the time still to wait reach the time asked for.
OnTime ==
    /\ tmain = "call" /\ ~retries.early => clock >= Ticks(when)
    /\ retries.number = 1 /\ ~retries.early => clock >= Ticks(when)
    /\ helper.pc # "none" => Ticks(helper.to_wait) > 0
    /\ helper.pc = "start" => clock + Ticks(helper.to_wait) >= Ticks(when)
    /\ helper.pc = "sleep" => clock + helper.left >= Ticks(when)

TimeoutInv == TimeoutTypes /\ OneRetry /\ OnTime

\* Every step of timeout, timeout_helper, retry and main keeps the retry single
\* and no earlier than it was asked for.
LEMMA TimeoutInvStep == TimeoutInv /\ [TimeoutNext]_timeoutVars => TimeoutInv'
<1> SUFFICES ASSUME TimeoutInv, [TimeoutNext]_timeoutVars PROVE TimeoutInv'
    OBVIOUS
<1> USE DEF TimeoutInv, TimeoutTypes
<1>0. Ticks(when) \in Int /\ Ticks(helper.to_wait) \in Int
    BY TicksAreIntegers
<1>1. CASE ClockTick
  <2>1. /\ clock' = clock + 1 /\ UNCHANGED <<tmain, when, retries, tip>>
        /\ helper' = [helper EXCEPT !.left = IF @ > 0 THEN @ - 1 ELSE 0]
    BY <1>1 DEF ClockTick
  <2>2. /\ helper' \in [pc : {"none", "start", "sleep", "retry", "free", "end"}, to_wait : Timespec, left : Nat]
        /\ helper'.pc = helper.pc /\ helper'.to_wait = helper.to_wait /\ helper'.left >= helper.left - 1
    BY <2>1
  <2>3. TimeoutTypes'
    BY <2>1, <2>2
  <2>4. OneRetry'
    BY <2>1, <2>2 DEF OneRetry
  <2>5. Ticks(when)' = Ticks(when) /\ Ticks(helper.to_wait)' = Ticks(helper.to_wait)
    BY <2>1, <2>2 DEF Ticks
  <2>6. OnTime'
    BY <2>1, <2>2, <2>5, <1>0 DEF OnTime
  <2> QED
    BY <2>3, <2>4, <2>6
<1>2. CASE MainLocks \/ NoRetry
  <2>1. /\ UNCHANGED <<clock, when, helper, retries, tip>> /\ tmain \in {"idle", "locked"}
        /\ tmain' \in {"locked", "unlock"}
    BY <1>2 DEF MainLocks, NoRetry
  <2>2. Ticks(when)' = Ticks(when) /\ Ticks(helper.to_wait)' = Ticks(helper.to_wait)
    BY <2>1 DEF Ticks
  <2>3. OneRetry' /\ TimeoutTypes'
    BY <2>1 DEF OneRetry
  <2>4. OnTime'
    BY <2>1, <2>2 DEF OnTime, OneRetry
  <2> QED
    BY <2>3, <2>4
<1>3. CASE SetWhen
  <2>1. /\ UNCHANGED <<clock, helper, retries, tip>> /\ tmain = "locked" /\ tmain' = "timeout"
        /\ when' = [Ts(clock) EXCEPT !.tv_sec = @ + Delay]
    BY <1>3 DEF SetWhen
  <2>2. when' \in Timespec
    BY <2>1, ReadingIsExact, TimeoutAssumption DEF Timespec
  <2>3. OneRetry' /\ TimeoutTypes'
    BY <2>1, <2>2 DEF OneRetry
  <2>4. OnTime'
    BY <2>1 DEF OnTime, OneRetry
  <2> QED
    BY <2>3, <2>4
<1>4. CASE timeout
  <2> DEFINE now == Ts(clock)
  <2>1. now \in Timespec /\ Ticks(now) = clock
    BY ReadingIsExact
  <2>2. /\ UNCHANGED <<clock, when>> /\ tmain = "timeout" /\ helper.pc = "none" /\ retries.number = 0 /\ tip # "allocated"
        /\ Ticks(when)' = Ticks(when)
    BY <1>4 DEF timeout, OneRetry, Ticks
  <2>3. CASE Later(when, now) /\ tip' = "allocated" /\ makethread(now) /\ tmain' = "unlock" /\ UNCHANGED retries
    <3>1. /\ helper'.pc = "start" /\ helper'.to_wait = ToWait(when, now)
          /\ helper' = [helper EXCEPT !.pc = "start", !.to_wait = ToWait(when, now)]
      BY <2>3 DEF makethread
    <3>2. /\ ToWait(when, now) \in Timespec /\ Ticks(ToWait(when, now)) = Ticks(when) - clock
          /\ Ticks(ToWait(when, now)) > 0
      BY <2>1, <2>3, WaitIsTheDifference
    <3>3. TimeoutTypes'
      BY <3>1, <3>2, <2>2, <2>3
    <3>4. OneRetry'
      BY <3>1, <2>2, <2>3 DEF OneRetry
    <3>5. Ticks(helper.to_wait)' = Ticks(ToWait(when, now))
      BY <3>1
    <3>6. OnTime'
      BY <3>1, <3>2, <3>5, <2>2, <2>3, <1>0 DEF OnTime
    <3> QED
      BY <3>3, <3>4, <3>6
  <2>4. CASE tmain' = "call" /\ UNCHANGED helper /\ tip' # "allocated"
    <3>1. /\ retries' \in [number : Nat, early : BOOLEAN] /\ retries'.number = 0
          /\ Later(when, now) => retries'.early
      BY <1>4, <2>2, <2>4 DEF timeout
    <3>2. tip' \in {"none", "freed"}
      BY <1>4, <2>2, <2>4 DEF timeout
    <3>3. TimeoutTypes'
      BY <3>1, <3>2, <2>2, <2>4
    <3>4. OneRetry'
      BY <3>1, <2>2, <2>4 DEF OneRetry
    <3>5. ~retries'.early => clock >= Ticks(when)
      BY <3>1, <2>1, <1>0, NotLaterHasCome
    <3>6. OnTime'
      BY <3>1, <3>5, <2>2, <2>4 DEF OnTime
    <3> QED
      BY <3>3, <3>4, <3>6
  <2> QED
    BY <1>4, <2>2, <2>3, <2>4 DEF timeout
<1>5. CASE tmain = "call" /\ RetryLocks("main", "retry")
  <2>1. /\ tmain' = "retry" /\ UNCHANGED <<helper, clock, when, tip>>
        /\ retries' = [retries EXCEPT !.number = @ + 1]
    BY <1>5 DEF RetryLocks
  <2>2. /\ helper.pc = "none" /\ retries.number = 0 /\ retries'.number = 1 /\ retries'.early = retries.early
        /\ retries' \in [number : Nat, early : BOOLEAN] /\ Ticks(when)' = Ticks(when)
    BY <2>1, <1>5 DEF OneRetry, Ticks
  <2>3. TimeoutTypes' /\ OneRetry'
    BY <2>1, <2>2, <1>5 DEF OneRetry
  <2>4. OnTime'
    BY <2>1, <2>2, <1>5 DEF OnTime
  <2> QED
    BY <2>3, <2>4
<1>6. CASE tmain \in {"retry", "unlock"} /\ tmain' = (IF tmain = "retry" THEN "unlock" ELSE "continue")
           /\ UNCHANGED <<clock, when, helper, retries, tip>>
  <2>1. Ticks(when)' = Ticks(when) /\ Ticks(helper.to_wait)' = Ticks(helper.to_wait)
    BY <1>6 DEF Ticks
  <2>2. tmain' \in {"unlock", "continue"}
    BY <1>6
  <2>3. TimeoutTypes' /\ OneRetry'
    BY <1>6, <2>2 DEF OneRetry
  <2>4. OnTime'
    BY <1>6, <2>1, <2>2 DEF OnTime
  <2> QED
    BY <2>3, <2>4
<1>7. CASE timeout_helper
  <2>1. /\ UNCHANGED <<clock, tmain, when>> /\ Ticks(when)' = Ticks(when) /\ helper.pc # "none"
    BY <1>7 DEF timeout_helper, RetryLocks, Ticks
  <2>2. CASE helper.pc = "start"
    <3>1. /\ helper' = [helper EXCEPT !.pc = "sleep", !.left = Ticks(helper.to_wait)] /\ UNCHANGED <<retries, tip>>
      BY <1>7, <2>2 DEF timeout_helper
    <3>2. Ticks(helper.to_wait) \in Nat
      BY <1>0, <2>2 DEF OnTime
    <3>3. /\ helper'.pc = "sleep" /\ helper'.left = Ticks(helper.to_wait) /\ helper'.to_wait = helper.to_wait
          /\ Ticks(helper.to_wait)' = Ticks(helper.to_wait)
      BY <3>1 DEF Ticks
    <3>4. TimeoutTypes' /\ OneRetry'
      BY <2>1, <2>2, <3>1, <3>2, <3>3 DEF OneRetry
    <3>5. OnTime'
      BY <2>1, <2>2, <3>1, <3>3 DEF OnTime
    <3> QED
      BY <3>4, <3>5
  <2>3. CASE helper.pc = "sleep"
    <3>1. /\ helper' = [helper EXCEPT !.pc = "retry"] /\ retries' = [retries EXCEPT !.number = @ + 1]
          /\ UNCHANGED tip /\ helper.left = 0
      BY <1>7, <2>3 DEF timeout_helper, RetryLocks
    <3>2. /\ helper'.pc = "retry" /\ helper'.to_wait = helper.to_wait
          /\ Ticks(helper.to_wait)' = Ticks(helper.to_wait)
          /\ retries' \in [number : Nat, early : BOOLEAN] /\ retries'.number = 1
      BY <3>1, <2>3 DEF Ticks, OneRetry
    <3>3. clock >= Ticks(when)
      BY <3>1, <2>3, <1>0 DEF OnTime
    <3>4. TimeoutTypes' /\ OneRetry'
      BY <2>1, <2>3, <3>1, <3>2 DEF OneRetry
    <3>5. OnTime'
      BY <2>1, <2>3, <3>1, <3>2, <3>3, <1>0 DEF OnTime
    <3> QED
      BY <3>4, <3>5
  <2>4. CASE helper.pc \in {"retry", "free"}
    <3>1. PICK pc \in {"free", "end"} :
             /\ helper' = [helper EXCEPT !.pc = pc] /\ UNCHANGED retries
             /\ (pc = "free" => UNCHANGED tip) /\ (pc = "end" => tip' = "freed")
      BY <1>7, <2>4 DEF timeout_helper, RetryLocks
    <3>2. /\ helper'.pc = pc /\ helper'.to_wait = helper.to_wait
          /\ Ticks(helper.to_wait)' = Ticks(helper.to_wait)
      BY <3>1 DEF Ticks
    <3>3. TimeoutTypes' /\ OneRetry'
      BY <2>1, <2>4, <3>1, <3>2 DEF OneRetry
    <3>4. OnTime'
      BY <2>1, <2>4, <3>1, <3>2 DEF OnTime
    <3> QED
      BY <3>3, <3>4
  <2> QED
    BY <1>7, <2>2, <2>3, <2>4 DEF timeout_helper
<1>8. CASE MainExits
  <2>1. /\ tmain = "continue" /\ tmain' = "exit" /\ UNCHANGED <<clock, when, retries, tip>>
        /\ helper' = [helper EXCEPT !.pc = "none", !.left = 0] /\ Ticks(when)' = Ticks(when)
    BY <1>8 DEF MainExits, Ticks
  <2>2. TimeoutTypes' /\ OneRetry'
    BY <2>1 DEF OneRetry
  <2>3. OnTime'
    BY <2>1 DEF OnTime
  <2> QED
    BY <2>2, <2>3
<1>9. CASE UNCHANGED timeoutVars
  <2>1. UNCHANGED <<clock, tmain, when, helper, retries, tip>>
    BY <1>9 DEF timeoutVars
  <2>2. Ticks(when)' = Ticks(when) /\ Ticks(helper.to_wait)' = Ticks(helper.to_wait)
    BY <2>1 DEF Ticks
  <2> QED
    BY <2>1, <2>2 DEF OneRetry, OnTime
<1> QED
    BY <1>1, <1>2, <1>3, <1>4, <1>5, <1>6, <1>7, <1>8, <1>9 DEF TimeoutNext, MainRetries

\* RetryOnceOnTime: the retry is made at most once and not before its time, for
\* every number of ticks in a second, delay, and pair of clock readings.
THEOREM TheRetryIsOnTime == TimeoutSpec => []RetryOnceOnTime
<1>1. TimeoutInit => TimeoutInv
  <2> SUFFICES ASSUME TimeoutInit PROVE TimeoutInv
    OBVIOUS
  <2>1. Ts(0) \in Timespec
    BY ReadingIsExact
  <2> QED
    BY <2>1 DEF TimeoutInit, TimeoutInv, TimeoutTypes, OneRetry, OnTime
<1>2. TimeoutInv => RetryOnceOnTime
    BY DEF TimeoutInv, TimeoutTypes, OneRetry, OnTime, RetryOnceOnTime, Timespec
<1> QED
    BY <1>1, <1>2, TimeoutInvStep, PTL DEF TimeoutSpec

-----------------------------------------------------------------------------
(* Condvars: condvar.c. *)

Elements(s) == {s[i] : i \in DOMAIN s}
Distinct(s) == \A i, j \in DOMAIN s : s[i] = s[j] => i = j

\* The first of a list is on it, and the rest are the others.
LEMMA TailIsTheRest ==
    ASSUME NEW s \in Seq(Nat), s # <<>>, Distinct(s)
    PROVE  /\ Tail(s) \in Seq(Nat) /\ Head(s) \in Nat /\ Distinct(Tail(s))
           /\ Elements(s) = {Head(s)} \cup Elements(Tail(s)) /\ Head(s) \notin Elements(Tail(s))
<1>1. /\ Len(s) \in Nat /\ Len(s) >= 1 /\ DOMAIN s = 1..Len(s) /\ Head(s) = s[1]
      /\ Tail(s) \in Seq(Nat) /\ Len(Tail(s)) = Len(s) - 1 /\ DOMAIN Tail(s) = 1..(Len(s) - 1)
      /\ \A i \in 1..(Len(s) - 1) : Tail(s)[i] = s[i + 1]
      /\ \A i \in 1..Len(s) : s[i] \in Nat
    OBVIOUS
<1>2. Distinct(Tail(s))
    BY <1>1, SMTT(30) DEF Distinct
<1>3. Head(s) \notin Elements(Tail(s))
    BY <1>1 DEF Distinct, Elements
<1>4. ASSUME NEW x \in Elements(s) PROVE x \in {Head(s)} \cup Elements(Tail(s))
  <2>1. PICK i \in 1..Len(s) : x = s[i]
    BY <1>1, <1>4 DEF Elements
  <2>2. CASE i # 1
    BY <1>1, <2>1, <2>2, i - 1 \in 1..(Len(s) - 1), Tail(s)[i - 1] = s[i] DEF Elements
  <2> QED
    BY <1>1, <2>1, <2>2
<1>5. ASSUME NEW x \in {Head(s)} \cup Elements(Tail(s)) PROVE x \in Elements(s)
    BY <1>1, <1>5 DEF Elements
<1> QED
    BY <1>1, <1>2, <1>3, <1>4, <1>5

\* A message that is put in front of a list.
LEMMA PutInFront ==
    ASSUME NEW s \in Seq(Nat), NEW x \in Nat, Distinct(s), x \notin Elements(s)
    PROVE  /\ <<x>> \o s \in Seq(Nat) /\ Distinct(<<x>> \o s)
           /\ Elements(<<x>> \o s) = {x} \cup Elements(s)
<1> DEFINE r == <<x>> \o s
<1>1. /\ r \in Seq(Nat) /\ Len(s) \in Nat /\ DOMAIN s = 1..Len(s) /\ DOMAIN r = 1..(Len(s) + 1)
      /\ r[1] = x /\ \A i \in 2..(Len(s) + 1) : r[i] = s[i - 1] /\ s[i - 1] = r[i]
    OBVIOUS
<1> HIDE DEF r
<1>2. \A i \in 1..Len(s) : s[i] # x
    BY <1>1 DEF Elements
<1>3. Distinct(r)
  <2> SUFFICES ASSUME NEW i \in DOMAIN r, NEW j \in DOMAIN r, r[i] = r[j] PROVE i = j
    BY DEF Distinct
  <2>1. CASE i = 1
    BY <1>1, <1>2, <2>1
  <2>2. CASE j = 1
    BY <1>1, <1>2, <2>2
  <2>3. CASE i # 1 /\ j # 1
    <3>1. i - 1 \in DOMAIN s /\ j - 1 \in DOMAIN s /\ s[i - 1] = s[j - 1]
      <4>1. i \in 2..(Len(s) + 1) /\ j \in 2..(Len(s) + 1)
        BY <1>1, <2>3
      <4>2. r[i] = s[i - 1] /\ r[j] = s[j - 1]
        BY <1>1, <4>1
      <4>3. Len(s) \in Nat /\ DOMAIN s = 1..Len(s)
        BY <1>1
      <4>4. i - 1 \in 1..Len(s) /\ j - 1 \in 1..Len(s)
        BY <4>1, <4>3
      <4> QED
        BY <4>2, <4>3, <4>4
    <3> QED
      BY <1>1, <3>1 DEF Distinct
  <2> QED
    BY <2>1, <2>2, <2>3
<1>4. ASSUME NEW y \in Elements(r) PROVE y \in {x} \cup Elements(s)
  <2>1. PICK i \in 1..(Len(s) + 1) : y = r[i]
    BY <1>1, <1>4 DEF Elements
  <2>2. i = 1 \/ (i - 1 \in DOMAIN s /\ y = s[i - 1])
    BY <1>1, <2>1
  <2> QED
    BY <1>1, <2>1, <2>2 DEF Elements
<1>5. ASSUME NEW y \in Elements(s) PROVE y \in Elements(r)
  <2>1. PICK i \in 1..Len(s) : y = s[i]
    BY <1>1, <1>5 DEF Elements
  <2>2. i + 1 \in DOMAIN r /\ r[i + 1] = s[(i + 1) - 1] /\ (i + 1) - 1 = i
    <3>1. i + 1 \in 2..(Len(s) + 1)
      BY <1>1, <2>1
    <3>2. i + 1 \in DOMAIN r
      BY <1>1, <3>1
    <3>3. r[i + 1] = s[(i + 1) - 1]
      BY <1>1, <3>1
    <3> QED
      BY <2>1, <3>2, <3>3
  <2> QED
    BY <2>1, <2>2 DEF Elements
<1>6. x \in Elements(r)
    BY <1>1 DEF Elements
<1> QED
    BY <1>1, <1>3, <1>4, <1>5, <1>6 DEF r

\* A message that is added to those a thread has processed.
LEMMA AddedLast ==
    ASSUME NEW s \in Seq(Nat), NEW x \in Nat
    PROVE  /\ Append(s, x) \in Seq(Nat) /\ Len(Append(s, x)) = Len(s) + 1
           /\ Elements(Append(s, x)) = Elements(s) \cup {x}
<1>1. /\ Len(s) \in Nat /\ DOMAIN s = 1..Len(s) /\ Append(s, x) \in Seq(Nat)
      /\ Len(Append(s, x)) = Len(s) + 1 /\ DOMAIN Append(s, x) = 1..(Len(s) + 1)
      /\ \A i \in 1..Len(s) : Append(s, x)[i] = s[i]
      /\ Append(s, x)[Len(s) + 1] = x
    OBVIOUS
<1> QED
    BY <1>1 DEF Elements

CondTypes == sent \in Nat /\ workq \in Seq(Nat) /\ took \in [Consumers -> Seq(Nat)] /\ Distinct(workq)

CondInv == CondTypes /\ EachMessageOnce

\* process_msg moves the first message to the thread, enqueue_msg puts a new one
\* in front, and no other step touches the list.
LEMMA CondInvStep == CondInv /\ [CondNext]_condVars => CondInv'
<1> SUFFICES ASSUME CondInv, [CondNext]_condVars PROVE CondInv'
    OBVIOUS
<1> USE DEF CondInv, CondTypes
<1>0. /\ OnList = Elements(workq) /\ OnList' = Elements(workq')
      /\ \A t \in Consumers : Taken(t) = Elements(took[t]) /\ Taken(t)' = Elements(took'[t])
    BY DEF OnList, Taken, Elements
<1>1. CASE UNCHANGED <<workq, took, sent>>
  <2>1. /\ OnList' = OnList /\ \A t \in Consumers : Taken(t)' = Taken(t)
        /\ UNION {Taken(t) : t \in Consumers}' = UNION {Taken(t) : t \in Consumers}
    BY <1>1 DEF OnList, Taken
  <2> QED
    BY <1>1, <2>1 DEF EachMessageOnce
<1>2. ASSUME NEW t \in Consumers, process_msg(t), workq # <<>> PROVE CondInv'
  <2> DEFINE m == Head(workq)
  <2>1. /\ workq' = Tail(workq) /\ took' = [took EXCEPT ![t] = Append(took[t], m)] /\ UNCHANGED sent
    BY <1>2 DEF process_msg
  <2>2. /\ workq' \in Seq(Nat) /\ m \in Nat /\ Distinct(workq') /\ OnList = {m} \cup OnList' /\ m \notin OnList'
    BY <1>0, <1>2, <2>1, TailIsTheRest
  <2>3. /\ took' \in [Consumers -> Seq(Nat)] /\ Len(took'[t]) = Len(took[t]) + 1
        /\ Taken(t)' = Taken(t) \cup {m} /\ \A u \in Consumers : u # t => took'[u] = took[u]
    BY <1>0, <2>1, <2>2, AddedLast
  <2>4. \A u \in Consumers : u # t => Taken(u)' = Taken(u)
    BY <2>3 DEF Taken
  <2>5. m \in OnList /\ \A u \in Consumers : m \notin Taken(u)
    BY <2>2 DEF EachMessageOnce
  <2>6. Cardinality(Taken(t)') = Len(took'[t])
    <3>1. Taken(t) \subseteq 1..sent
      BY DEF EachMessageOnce
    <3>2. IsFiniteSet(Taken(t))
      <4>1. IsFiniteSet(1..sent)
        BY FS_Interval
      <4> QED
        BY <3>1, <4>1, FS_Subset
    <3> QED
      BY <2>3, <2>5, <3>2, FS_AddElement DEF EachMessageOnce
  <2>7. OnList' \cup UNION {Taken(u)' : u \in Consumers} = 1..sent
    <3>1. OnList \cup UNION {Taken(u) : u \in Consumers} = 1..sent
      BY DEF EachMessageOnce
    <3>2. \A x : x \in OnList' \cup UNION {Taken(u)' : u \in Consumers} <=> x \in OnList \cup UNION {Taken(u) : u \in Consumers}
      BY <2>2, <2>3, <2>4
    <3> QED
      BY <3>1, <3>2
  <2>8. \A u \in Consumers : Taken(u)' \cap OnList' = {} /\ Cardinality(Taken(u)') = Len(took'[u])
    <3>1. \A u \in Consumers : Taken(u) \cap OnList = {} /\ Cardinality(Taken(u)) = Len(took[u])
      BY DEF EachMessageOnce
    <3>2. Taken(t)' \cap OnList' = {}
      BY <3>1, <2>2, <2>3
    <3>3. ASSUME NEW u \in Consumers, u # t
          PROVE  Taken(u)' \cap OnList' = {} /\ Cardinality(Taken(u)') = Len(took'[u])
      BY <3>1, <3>3, <2>2, <2>3, <2>4
    <3> QED
      BY <3>2, <3>3, <2>6
  <2>9. \A u, v \in Consumers : u # v => Taken(u)' \cap Taken(v)' = {}
    <3>1. \A u, v \in Consumers : u # v => Taken(u) \cap Taken(v) = {}
      BY DEF EachMessageOnce
    <3>2. ASSUME NEW u \in Consumers, NEW v \in Consumers, u # v PROVE Taken(u)' \cap Taken(v)' = {}
      <4>1. Taken(u)' \subseteq Taken(u) \cup (IF u = t THEN {m} ELSE {})
        BY <2>3, <2>4
      <4>2. Taken(v)' \subseteq Taken(v) \cup (IF v = t THEN {m} ELSE {})
        BY <2>3, <2>4
      <4> QED
        BY <3>1, <3>2, <4>1, <4>2, <2>5
    <3> QED
      BY <3>2
  <2> QED
    BY <2>1, <2>2, <2>3, <2>7, <2>8, <2>9 DEF EachMessageOnce
<1>3. ASSUME NEW t \in Producers, enqueue_msg(t) PROVE CondInv'
  <2>1. sent' = sent + 1 /\ workq' = <<sent + 1>> \o workq /\ UNCHANGED took
    BY <1>3 DEF enqueue_msg
  <2>2. sent + 1 \notin OnList /\ \A u \in Consumers : sent + 1 \notin Taken(u)
    BY DEF EachMessageOnce
  <2>3. workq' \in Seq(Nat) /\ Distinct(workq') /\ OnList' = {sent + 1} \cup OnList
    BY <1>0, <2>1, <2>2, PutInFront
  <2>4. \A u \in Consumers : Taken(u)' = Taken(u) /\ took'[u] = took[u]
    BY <2>1 DEF Taken
  <2>5. OnList' \cup UNION {Taken(u)' : u \in Consumers} = 1..sent'
    <3>1. OnList \cup UNION {Taken(u) : u \in Consumers} = 1..sent
      BY DEF EachMessageOnce
    <3>2. UNION {Taken(u)' : u \in Consumers} = UNION {Taken(u) : u \in Consumers}
      BY <2>4
    <3>3. 1..sent' = {sent + 1} \cup (1..sent)
      BY <2>1
    <3> QED
      BY <3>1, <3>2, <3>3, <2>3
  <2> QED
    BY <2>1, <2>2, <2>3, <2>4, <2>5 DEF EachMessageOnce
<1> QED
  <2>1. ASSUME NEW t \in Consumers, process_msg(t) PROVE CondInv'
    BY <2>1, <1>1, <1>2 DEF process_msg
  <2>2. CASE \/ StartCond \/ Suspend \/ UNCHANGED condVars
             \/ \E t \in Producers : EnqueueSignals(t)
             \/ \E s \in {"SIGINT", "SIGQUIT"} : SendSignal(s)
             \/ \E t \in CondThreads : SpuriousWakeup(t)
    <3>1. UNCHANGED <<workq, took, sent>>
      BY <2>2 DEF StartCond, Suspend, condVars, EnqueueSignals, SendSignal, SpuriousWakeup, thr_fn, ThreadSignals,
                  MainWaits, MainEnds
    <3> QED
      BY <3>1, <1>1
  <2> QED
    BY <2>1, <2>2, <1>3 DEF CondNext

\* EachMessageOnce: whatever the consumers, the producers and the wakeups do, no
\* message of condvar.c is lost and none is processed twice.
THEOREM MessagesAreProcessedOnce == CondSpec => []EachMessageOnce
<1>1. CondInit => CondInv
  <2> SUFFICES ASSUME CondInit PROVE CondInv
    OBVIOUS
  <2>1. OnList = {} /\ \A t \in Consumers : Taken(t) = {} /\ Len(took[t]) = 0
    BY DEF CondInit, OnList, Taken
  <2>2. UNION {Taken(t) : t \in Consumers} = {} /\ 1..sent = {}
    BY <2>1 DEF CondInit
  <2>3. CondTypes
    BY DEF CondInit, CondTypes, Distinct
  <2> QED
    BY <2>1, <2>2, <2>3, FS_EmptySet DEF CondInv, EachMessageOnce
<1> QED
    BY <1>1, CondInvStep, PTL DEF CondSpec, CondInv

-----------------------------------------------------------------------------
(* JobQueue: rwlock.c. *)

JobRec == [j_next : Nat, j_prev : Nat, j_id : JobWorkers]
Queue == [q_head : Nat, q_tail : Nat]
WithWrLock == {"insert", "append", "remove"}

JobTypes ==
    /\ q \in Queue
    /\ job \in Seq(JobRec)
    /\ q_lock \in [writer : JobThreads \cup {NoWriter}, readers : SUBSET JobThreads]
    /\ jthr \in [JobThreads -> [pc : WithWrLock \cup {"idle", "find", "found"}, jp : Nat]]
    /\ queued \in SUBSET (1..Len(job))

\* The lock is held by those who are in the functions that take it, and keeps
\* writers alone.
Locks ==
    /\ \A t \in JobThreads : q_lock.writer = t <=> jthr[t].pc \in WithWrLock
    /\ \A t \in JobThreads : t \in q_lock.readers <=> jthr[t].pc = "find"
    /\ q_lock.writer # NoWriter => q_lock.readers = {}

\* A job that is being put in has its own pointers set and is not yet in the
\* list; one that a worker has found is there, and is the worker's.
InHand ==
    \A t \in JobThreads : LET jp == jthr[t].jp
                          IN
       /\ jthr[t].pc \in {"insert", "append"} => jp \in (1..Len(job)) \ queued
       /\ jthr[t].pc = "insert" => job[jp].j_next = q.q_head /\ job[jp].j_prev = NULL
       /\ jthr[t].pc = "append" => job[jp].j_next = NULL /\ job[jp].j_prev = q.q_tail
       /\ jthr[t].pc \in {"found", "remove"} => jp \in queued /\ job[jp].j_id = t

\* w lists the n elements of Q, from head to tail, by the pointers of the jobs.
ListOf(qq, jj, Q, n, w) ==
    /\ w \in [1..n -> Q]
    /\ \A i, j \in 1..n : w[i] = w[j] => i = j
    /\ \A j \in Q : \E i \in 1..n : w[i] = j
    /\ qq.q_head = AtPos(w, 1) /\ qq.q_tail = AtPos(w, n)
    /\ \A i \in 1..n : jj[w[i]].j_next = AtPos(w, i + 1) /\ jj[w[i]].j_prev = AtPos(w, i - 1)

HasList(qq, jj, Q) == \E n \in Nat : \E w : ListOf(qq, jj, Q, n, w)
Listed == HasList(q, job, queued)

\* What a worker that is looking has gone past is not its own.
Passed(t, n, w) ==
    \E k \in 1..(n + 1) : jthr[t].jp = AtPos(w, k) /\ \A i \in 1..(k - 1) : job[w[i]].j_id # t

Walking ==
    \A n \in Nat : \A w : ListOf(q, job, queued, n, w) =>
       \A t \in JobThreads : jthr[t].pc = "find" => Passed(t, n, w)

JobInv == JobTypes /\ Locks /\ InHand /\ Listed /\ Walking

\* job_insert into the list.
LEMMA ListInsert ==
    ASSUME NEW qq \in Queue, NEW jj \in Seq(JobRec), NEW Q \in SUBSET (1..Len(jj)),
           NEW n \in Nat, NEW w, ListOf(qq, jj, Q, n, w),
           NEW jp \in (1..Len(jj)) \ Q, jj[jp].j_next = qq.q_head, jj[jp].j_prev = NULL,
           NEW kk, NEW rr,
           IF qq.q_head # NULL
             THEN kk = [jj EXCEPT ![qq.q_head].j_prev = jp] /\ rr = [qq EXCEPT !.q_head = jp]
             ELSE kk = jj /\ rr = [q_head |-> jp, q_tail |-> jp]
    PROVE  \E v : ListOf(rr, kk, Q \cup {jp}, n + 1, v)
<1> DEFINE v == [i \in 1..(n + 1) |-> IF i = 1 THEN jp ELSE w[i - 1]]
<1>1. /\ w \in [1..n -> Q] /\ \A i, j \in 1..n : w[i] = w[j] => i = j
      /\ \A j \in Q : \E i \in 1..n : w[i] = j
      /\ qq.q_head = AtPos(w, 1) /\ qq.q_tail = AtPos(w, n)
      /\ \A i \in 1..n : jj[w[i]].j_next = AtPos(w, i + 1) /\ jj[w[i]].j_prev = AtPos(w, i - 1)
    BY DEF ListOf
<1>2. v \in [1..(n + 1) -> Q \cup {jp}] /\ v[1] = jp /\ \A i \in 1..n : v[i + 1] = w[i]
    BY <1>1
<1>3. \A i \in 1..(n + 1) : i = 1 \/ (i - 1 \in 1..n /\ v[i] = w[i - 1])
    BY <1>2
<1>4. \A i, j \in 1..(n + 1) : v[i] = v[j] => i = j
    BY <1>1, <1>2, <1>3
<1>5. \A j \in Q \cup {jp} : \E i \in 1..(n + 1) : v[i] = j
  <2>0. 1 \in 1..(n + 1)
    OBVIOUS
  <2> SUFFICES ASSUME NEW j \in Q PROVE \E i \in 1..(n + 1) : v[i] = j
    BY <1>2, <2>0
  <2>1. PICK i \in 1..n : w[i] = j
    BY <1>1
  <2>2. i + 1 \in 1..(n + 1)
    OBVIOUS
  <2> QED
    BY <2>1, <2>2, <1>2
<1>6. \A i \in 0..(n + 2) : AtPos(v, i) = IF i = 1 THEN jp ELSE AtPos(w, i - 1)
    BY <1>1, <1>2, <1>3 DEF AtPos
<1>7. \A i \in 1..n : w[i] \in DOMAIN jj /\ jj[w[i]] \in JobRec /\ w[i] # jp /\ w[i] # NULL
    BY <1>1 DEF NULL
<1>8. /\ n = 0 => qq.q_head = NULL
      /\ n > 0 => qq.q_head = w[1] /\ qq.q_head # NULL
    BY <1>1, <1>7 DEF AtPos
<1>9. rr.q_head = AtPos(v, 1) /\ rr.q_tail = AtPos(v, n + 1)
    BY <1>1, <1>2, <1>8 DEF AtPos, Queue
<1>10. /\ kk[jp] = jj[jp]
       /\ \A i \in 1..n : /\ kk[w[i]].j_next = jj[w[i]].j_next
                          /\ kk[w[i]].j_prev = IF i = 1 THEN jp ELSE jj[w[i]].j_prev
  <2>1. CASE n = 0
    BY <2>1, <1>8
  <2>2. CASE n > 0
    <3>0. qq.q_head = w[1] /\ qq.q_head # NULL /\ 1 \in 1..n
      BY <2>2, <1>8
    <3>1. 1 \in 1..n /\ kk = [jj EXCEPT ![w[1]].j_prev = jp] /\ w[1] \in DOMAIN jj
      BY <3>0, <1>7
    <3>2. \A x \in DOMAIN jj : kk[x] = IF x = w[1] THEN [jj[x] EXCEPT !.j_prev = jp] ELSE jj[x]
      BY <3>1
    <3>3. \A i \in 1..n : w[i] = w[1] <=> i = 1
      BY <3>1, <1>1
    <3>4. \A x \in DOMAIN jj : x # w[1] => kk[x] = jj[x]
      BY <3>2
    <3>5. jj[w[1]] \in JobRec /\ kk[w[1]] = [jj[w[1]] EXCEPT !.j_prev = jp]
      BY <3>1, <3>2, <1>7
    <3>6. kk[w[1]].j_next = jj[w[1]].j_next /\ kk[w[1]].j_prev = jp
      BY <3>5 DEF JobRec
    <3>7. jp \in DOMAIN jj /\ jp # w[1]
      BY <3>1, <1>7
    <3>8. ASSUME NEW i \in 1..n
          PROVE  kk[w[i]].j_next = jj[w[i]].j_next /\ kk[w[i]].j_prev = IF i = 1 THEN jp ELSE jj[w[i]].j_prev
      BY <3>3, <3>4, <3>6, <1>7
    <3> QED
      BY <3>4, <3>7, <3>8
  <2> QED
    BY <2>1, <2>2
<1>11. \A i \in 1..(n + 1) : kk[v[i]].j_next = AtPos(v, i + 1) /\ kk[v[i]].j_prev = AtPos(v, i - 1)
  <2> TAKE i \in 1..(n + 1)
  <2>1. CASE i = 1
    <3>1. AtPos(v, 2) = AtPos(w, 1) /\ AtPos(v, 0) = NULL
      BY <1>6 DEF AtPos
    <3> QED
      BY <2>1, <3>1, <1>1, <1>2, <1>10
  <2>2. CASE i # 1
    <3>1. i - 1 \in 1..n /\ v[i] = w[i - 1] /\ AtPos(v, i + 1) = AtPos(w, i)
          /\ AtPos(v, i - 1) = IF i - 1 = 1 THEN jp ELSE AtPos(w, i - 2)
      <4>1. i - 1 \in 0..(n + 2) /\ i + 1 \in 0..(n + 2) /\ i + 1 # 1 /\ (i + 1) - 1 = i /\ (i - 1) - 1 = i - 2
        BY <2>2, SMTT(30)
      <4> QED
        BY <4>1, <2>2, <1>3, <1>6
    <3>2. jj[w[i - 1]].j_next = AtPos(w, i) /\ jj[w[i - 1]].j_prev = AtPos(w, i - 2)
      BY <3>1, <1>1
    <3> QED
      BY <3>1, <3>2, <1>10
  <2> QED
    BY <2>1, <2>2
<1> HIDE DEF v
<1> QED
    BY <1>2, <1>4, <1>5, <1>9, <1>11 DEF ListOf

\* job_append to the list.
LEMMA ListAppend ==
    ASSUME NEW qq \in Queue, NEW jj \in Seq(JobRec), NEW Q \in SUBSET (1..Len(jj)),
           NEW n \in Nat, NEW w, ListOf(qq, jj, Q, n, w),
           NEW jp \in (1..Len(jj)) \ Q, jj[jp].j_next = NULL, jj[jp].j_prev = qq.q_tail,
           NEW kk, NEW rr,
           IF qq.q_tail # NULL
             THEN kk = [jj EXCEPT ![qq.q_tail].j_next = jp] /\ rr = [qq EXCEPT !.q_tail = jp]
             ELSE kk = jj /\ rr = [q_head |-> jp, q_tail |-> jp]
    PROVE  \E v : ListOf(rr, kk, Q \cup {jp}, n + 1, v)
<1> DEFINE v == [i \in 1..(n + 1) |-> IF i = n + 1 THEN jp ELSE w[i]]
<1>1. /\ w \in [1..n -> Q] /\ \A i, j \in 1..n : w[i] = w[j] => i = j
      /\ \A j \in Q : \E i \in 1..n : w[i] = j
      /\ qq.q_head = AtPos(w, 1) /\ qq.q_tail = AtPos(w, n)
      /\ \A i \in 1..n : jj[w[i]].j_next = AtPos(w, i + 1) /\ jj[w[i]].j_prev = AtPos(w, i - 1)
    BY DEF ListOf
<1>2. v \in [1..(n + 1) -> Q \cup {jp}] /\ v[n + 1] = jp /\ \A i \in 1..n : v[i] = w[i]
    BY <1>1
<1>3. \A i \in 1..(n + 1) : i = n + 1 \/ i \in 1..n
    OBVIOUS
<1>4. \A i, j \in 1..(n + 1) : v[i] = v[j] => i = j
    BY <1>1, <1>2, <1>3
<1>5. \A j \in Q \cup {jp} : \E i \in 1..(n + 1) : v[i] = j
  <2>0. n + 1 \in 1..(n + 1)
    OBVIOUS
  <2> SUFFICES ASSUME NEW j \in Q PROVE \E i \in 1..(n + 1) : v[i] = j
    BY <1>2, <2>0
  <2>1. PICK i \in 1..n : w[i] = j
    BY <1>1
  <2> QED
    BY <2>1, <1>2
<1>6. \A i \in 0..(n + 2) : AtPos(v, i) = IF i = n + 1 THEN jp ELSE AtPos(w, i)
    BY <1>1, <1>2, <1>3 DEF AtPos
<1>7. \A i \in 1..n : w[i] \in DOMAIN jj /\ jj[w[i]] \in JobRec /\ w[i] # jp /\ w[i] # NULL
    BY <1>1 DEF NULL
<1>8. /\ n = 0 => qq.q_tail = NULL
      /\ n > 0 => qq.q_tail = w[n] /\ qq.q_tail # NULL
    BY <1>1, <1>7 DEF AtPos
<1>9. rr.q_head = AtPos(v, 1) /\ rr.q_tail = AtPos(v, n + 1)
    BY <1>1, <1>2, <1>8 DEF AtPos, Queue
<1>10. /\ kk[jp] = jj[jp]
       /\ \A i \in 1..n : /\ kk[w[i]].j_prev = jj[w[i]].j_prev
                          /\ kk[w[i]].j_next = IF i = n THEN jp ELSE jj[w[i]].j_next
  <2>1. CASE n = 0
    BY <2>1, <1>8
  <2>2. CASE n > 0
    <3>0. qq.q_tail = w[n] /\ qq.q_tail # NULL /\ n \in 1..n
      BY <2>2, <1>8
    <3>1. kk = [jj EXCEPT ![w[n]].j_next = jp] /\ w[n] \in DOMAIN jj
      BY <3>0, <1>7
    <3>2. \A x \in DOMAIN jj : kk[x] = IF x = w[n] THEN [jj[x] EXCEPT !.j_next = jp] ELSE jj[x]
      BY <3>1
    <3>3. \A i \in 1..n : w[i] = w[n] <=> i = n
      BY <3>0, <1>1
    <3>4. \A x \in DOMAIN jj : x # w[n] => kk[x] = jj[x]
      BY <3>2
    <3>5. jj[w[n]] \in JobRec /\ kk[w[n]] = [jj[w[n]] EXCEPT !.j_next = jp]
      BY <3>0, <3>1, <3>2, <1>7
    <3>6. kk[w[n]].j_prev = jj[w[n]].j_prev /\ kk[w[n]].j_next = jp
      BY <3>5 DEF JobRec
    <3>7. jp \in DOMAIN jj /\ jp # w[n]
      BY <3>0, <1>7
    <3>8. ASSUME NEW i \in 1..n
          PROVE  kk[w[i]].j_prev = jj[w[i]].j_prev /\ kk[w[i]].j_next = IF i = n THEN jp ELSE jj[w[i]].j_next
      BY <3>3, <3>4, <3>6, <1>7
    <3> QED
      BY <3>4, <3>7, <3>8
  <2> QED
    BY <2>1, <2>2
<1>11. \A i \in 1..(n + 1) : kk[v[i]].j_next = AtPos(v, i + 1) /\ kk[v[i]].j_prev = AtPos(v, i - 1)
  <2> TAKE i \in 1..(n + 1)
  <2>0. i + 1 \in 0..(n + 2) /\ i - 1 \in 0..(n + 2) /\ i - 1 # n + 1
    OBVIOUS
  <2>1. CASE i = n + 1
    <3>1. AtPos(v, i + 1) = NULL /\ AtPos(v, i - 1) = AtPos(w, n)
      BY <2>0, <2>1, <1>1, <1>6 DEF AtPos
    <3> QED
      BY <2>1, <3>1, <1>1, <1>2, <1>10
  <2>2. CASE i # n + 1
    <3>1. i \in 1..n /\ v[i] = w[i] /\ AtPos(v, i - 1) = AtPos(w, i - 1)
          /\ AtPos(v, i + 1) = IF i = n THEN jp ELSE AtPos(w, i + 1)
      BY <2>0, <2>2, <1>2, <1>6
    <3>2. jj[w[i]].j_next = AtPos(w, i + 1) /\ jj[w[i]].j_prev = AtPos(w, i - 1)
      BY <3>1, <1>1
    <3> QED
      BY <3>1, <3>2, <1>10
  <2> QED
    BY <2>1, <2>2
<1> HIDE DEF v
<1> QED
    BY <1>2, <1>4, <1>5, <1>9, <1>11 DEF ListOf

\* job_remove of a job, at the head, at the tail or between.
Unlinks(qq, jj, jp, rr, kk) ==
  LET next == jj[jp].j_next
      prev == jj[jp].j_prev
  IN
    IF jp = qq.q_head
      THEN /\ rr = [q_head |-> next, q_tail |-> IF qq.q_tail = jp THEN NULL ELSE qq.q_tail]
           /\ kk = IF qq.q_tail = jp THEN jj ELSE [jj EXCEPT ![next].j_prev = prev]
      ELSE IF jp = qq.q_tail
        THEN rr = [qq EXCEPT !.q_tail = prev] /\ kk = [jj EXCEPT ![prev].j_next = next]
        ELSE kk = [jj EXCEPT ![prev].j_next = next, ![next].j_prev = prev] /\ rr = qq

\* What it leaves is the list without the job.
LEMMA ListRemove ==
    ASSUME NEW qq \in Queue, NEW jj \in Seq(JobRec), NEW Q \in SUBSET (1..Len(jj)),
           NEW n \in Nat, NEW w, ListOf(qq, jj, Q, n, w), NEW jp \in Q,
           NEW kk, NEW rr, Unlinks(qq, jj, jp, rr, kk)
    PROVE  /\ HasList(rr, kk, Q \ {jp})
           /\ rr \in Queue /\ kk \in Seq(JobRec) /\ Len(kk) = Len(jj)
           /\ \A j \in 1..Len(jj) : kk[j].j_id = jj[j].j_id
<1> DEFINE next == jj[jp].j_next
           prev == jj[jp].j_prev
<1>0. Unlinks(qq, jj, jp, rr, kk) <=>
      IF jp = qq.q_head
        THEN /\ rr = [q_head |-> next, q_tail |-> IF qq.q_tail = jp THEN NULL ELSE qq.q_tail]
             /\ kk = IF qq.q_tail = jp THEN jj ELSE [jj EXCEPT ![next].j_prev = prev]
        ELSE IF jp = qq.q_tail
          THEN rr = [qq EXCEPT !.q_tail = prev] /\ kk = [jj EXCEPT ![prev].j_next = next]
          ELSE kk = [jj EXCEPT ![prev].j_next = next, ![next].j_prev = prev] /\ rr = qq
    BY DEF Unlinks
<1>1. /\ w \in [1..n -> Q] /\ \A i, j \in 1..n : w[i] = w[j] => i = j
      /\ \A j \in Q : \E i \in 1..n : w[i] = j
      /\ qq.q_head = AtPos(w, 1) /\ qq.q_tail = AtPos(w, n)
      /\ \A i \in 1..n : jj[w[i]].j_next = AtPos(w, i + 1) /\ jj[w[i]].j_prev = AtPos(w, i - 1)
    BY DEF ListOf
<1>2. PICK p \in 1..n : w[p] = jp
    BY <1>1
<1>3. next = AtPos(w, p + 1) /\ prev = AtPos(w, p - 1)
    BY <1>1, <1>2
<1> HIDE DEF next, prev
<1>4. \A i \in 1..n : w[i] \in DOMAIN jj /\ jj[w[i]] \in JobRec /\ w[i] \in Nat /\ w[i] # NULL
  <2> TAKE i \in 1..n
  <2>1. w[i] \in 1..Len(jj)
    BY <1>1
  <2> QED
    BY <2>1 DEF NULL
<1>5. n \in 1..n /\ 1 \in 1..n /\ qq.q_head = w[1] /\ qq.q_tail = w[n]
    BY <1>1, <1>2 DEF AtPos
<1>6. (jp = qq.q_head <=> p = 1) /\ (jp = qq.q_tail <=> p = n)
  <2>1. \A i, j \in 1..n : w[i] = w[j] => i = j
    BY <1>1
  <2>2. (w[p] = w[1] <=> p = 1) /\ (w[p] = w[n] <=> p = n)
    BY <2>1, <1>2, <1>5
  <2> QED
    BY <2>2, <1>2, <1>5
<1>7. /\ p # 1 => p - 1 \in 1..n /\ prev = w[p - 1] /\ prev \in DOMAIN jj
      /\ p # n => p + 1 \in 1..n /\ next = w[p + 1] /\ next \in DOMAIN jj
      /\ p = 1 => prev = NULL
      /\ p = n => next = NULL
    BY <1>1, <1>2, <1>3, <1>4 DEF AtPos
<1>8. next \in Nat /\ prev \in Nat
    BY <1>7, <1>4 DEF NULL
<1>9. /\ rr.q_head = IF p = 1 THEN next ELSE qq.q_head
      /\ rr.q_tail = IF p = n THEN prev ELSE qq.q_tail
      /\ rr \in Queue
    BY <1>0, <1>6, <1>7, <1>8 DEF Queue, NULL
<1>10. \A x \in DOMAIN jj :
          kk[x] = [j_next |-> IF p # 1 /\ x = prev THEN next ELSE jj[x].j_next,
                   j_prev |-> IF p # n /\ x = next THEN prev ELSE jj[x].j_prev,
                   j_id |-> jj[x].j_id]
  <2> TAKE x \in DOMAIN jj
  <2>0. jj[x] \in JobRec
    OBVIOUS
  <2>00. jj[x] = [j_next |-> jj[x].j_next, j_prev |-> jj[x].j_prev, j_id |-> jj[x].j_id]
    BY <2>0 DEF JobRec
  <2>1. CASE p = 1 /\ p = n
    BY <2>00, <2>1, <1>6, <1>0
  <2>2. CASE p = 1 /\ p # n
    <3>1. kk = [jj EXCEPT ![next].j_prev = prev]
      BY <2>2, <1>6, <1>0
    <3>2. kk[x] = IF x = next THEN [jj[x] EXCEPT !.j_prev = prev] ELSE jj[x]
      BY <3>1
    <3>3. [jj[x] EXCEPT !.j_prev = prev] = [j_next |-> jj[x].j_next, j_prev |-> prev, j_id |-> jj[x].j_id]
      BY <2>00
    <3> QED
      BY <2>00, <2>2, <3>2, <3>3
  <2>3. CASE p # 1 /\ p = n
    <3>1. kk = [jj EXCEPT ![prev].j_next = next]
      BY <2>3, <1>6, <1>0
    <3>2. kk[x] = IF x = prev THEN [jj[x] EXCEPT !.j_next = next] ELSE jj[x]
      BY <3>1
    <3>3. [jj[x] EXCEPT !.j_next = next] = [j_next |-> next, j_prev |-> jj[x].j_prev, j_id |-> jj[x].j_id]
      BY <2>00
    <3> QED
      BY <2>00, <2>3, <3>2, <3>3
  <2>4. CASE p # 1 /\ p # n
    <3> DEFINE k1 == [jj EXCEPT ![prev].j_next = next]
    <3>1. kk = [k1 EXCEPT ![next].j_prev = prev]
      BY <2>4, <1>6, <1>0
    <3>2. DOMAIN k1 = DOMAIN jj /\ k1[x] = IF x = prev THEN [jj[x] EXCEPT !.j_next = next] ELSE jj[x]
      OBVIOUS
    <3>3. [jj[x] EXCEPT !.j_next = next] = [j_next |-> next, j_prev |-> jj[x].j_prev, j_id |-> jj[x].j_id]
      BY <2>00
    <3>4. k1[x] = [j_next |-> IF x = prev THEN next ELSE jj[x].j_next, j_prev |-> jj[x].j_prev, j_id |-> jj[x].j_id]
      BY <2>00, <3>2, <3>3
    <3>5. kk[x] = IF x = next THEN [k1[x] EXCEPT !.j_prev = prev] ELSE k1[x]
      BY <3>1, <3>2
    <3> HIDE DEF k1
    <3>6. [k1[x] EXCEPT !.j_prev = prev] = [j_next |-> IF x = prev THEN next ELSE jj[x].j_next, j_prev |-> prev, j_id |-> jj[x].j_id]
      BY <3>4
    <3> QED
      BY <2>4, <3>4, <3>5, <3>6
  <2> QED
    BY <2>1, <2>2, <2>3, <2>4
<1>11. DOMAIN kk = DOMAIN jj /\ kk \in [DOMAIN jj -> JobRec]
  <2>1. DOMAIN kk = DOMAIN jj /\ kk = [x \in DOMAIN jj |-> kk[x]]
    BY <1>6, <1>0
  <2>2. \A x \in DOMAIN jj : kk[x] \in JobRec
    <3> TAKE x \in DOMAIN jj
    <3>0. jj[x] \in JobRec
      OBVIOUS
    <3>1. jj[x].j_next \in Nat /\ jj[x].j_prev \in Nat /\ jj[x].j_id \in JobWorkers
      BY <3>0 DEF JobRec
    <3> DEFINE a == IF p # 1 /\ x = prev THEN next ELSE jj[x].j_next
               b == IF p # n /\ x = next THEN prev ELSE jj[x].j_prev
    <3>2. a \in Nat /\ b \in Nat
      BY <3>1, <1>8
    <3>3. kk[x] = [j_next |-> a, j_prev |-> b, j_id |-> jj[x].j_id]
      BY <1>10
    <3> HIDE DEF a, b
    <3> QED
      BY <3>1, <3>2, <3>3 DEF JobRec
  <2> QED
    BY <2>1, <2>2
<1>12. kk \in Seq(JobRec) /\ Len(kk) = Len(jj)
    BY <1>11
<1>13. \A j \in 1..Len(jj) : kk[j].j_id = jj[j].j_id
  <2>1. \A j \in 1..Len(jj) : j \in DOMAIN jj
    OBVIOUS
  <2>2. ASSUME NEW x \in DOMAIN jj PROVE kk[x].j_id = jj[x].j_id
    <3> DEFINE a == IF p # 1 /\ x = prev THEN next ELSE jj[x].j_next
               b == IF p # n /\ x = next THEN prev ELSE jj[x].j_prev
    <3>1. kk[x] = [j_next |-> a, j_prev |-> b, j_id |-> jj[x].j_id]
      BY <1>10
    <3> HIDE DEF a, b
    <3> QED
      BY <3>1
  <2> QED
    BY <2>1, <2>2
<1> DEFINE v == [i \in 1..(n - 1) |-> IF i < p THEN w[i] ELSE w[i + 1]]
<1>14. /\ \A i \in 1..(n - 1) : /\ i < p => i \in 1..n /\ v[i] = w[i]
                                /\ ~(i < p) => i + 1 \in 1..n /\ v[i] = w[i + 1]
       /\ DOMAIN v = 1..(n - 1) /\ n - 1 \in Nat
    OBVIOUS
<1>15. v \in [1..(n - 1) -> Q \ {jp}]
  <2>1. ASSUME NEW i \in 1..(n - 1) PROVE v[i] \in Q \ {jp}
    <3>1. CASE i < p
      <4>1. i \in 1..n /\ i # p /\ v[i] = w[i]
        BY <3>1, <1>2, <1>14
      <4> QED
        BY <4>1, <1>1, <1>2
    <3>2. CASE ~(i < p)
      <4>1. i + 1 \in 1..n /\ i + 1 # p /\ v[i] = w[i + 1]
        BY <3>2, <1>2, <1>14
      <4> QED
        BY <4>1, <1>1, <1>2
    <3> QED
      BY <3>1, <3>2
  <2> QED
    BY <2>1, <1>14
<1>16. \A i, j \in 1..(n - 1) : v[i] = v[j] => i = j
  <2> TAKE i, j \in 1..(n - 1)
  <2>1. CASE i < p /\ j < p
    BY <2>1, <1>1, <1>14
  <2>2. CASE i < p /\ ~(j < p)
    <3>1. i # j + 1
      BY <2>2
    <3> QED
      BY <2>2, <3>1, <1>1, <1>14
  <2>3. CASE ~(i < p) /\ j < p
    <3>1. i + 1 # j
      BY <2>3
    <3> QED
      BY <2>3, <3>1, <1>1, <1>14
  <2>4. CASE ~(i < p) /\ ~(j < p)
    <3>1. v[i] = v[j] => i + 1 = j + 1
      BY <2>4, <1>1, <1>14
    <3> QED
      BY <3>1
  <2> QED
    BY <2>1, <2>2, <2>3, <2>4
<1>17. \A j \in Q \ {jp} : \E i \in 1..(n - 1) : v[i] = j
  <2> TAKE j \in Q \ {jp}
  <2>1. PICK i \in 1..n : w[i] = j
    BY <1>1
  <2>2. i # p
    BY <2>1, <1>2
  <2>3. CASE i < p
    <3>1. i \in 1..(n - 1)
      BY <2>3
    <3> QED
      BY <2>1, <2>3, <3>1, <1>14
  <2>4. CASE i > p
    <3>1. i - 1 \in 1..(n - 1) /\ ~(i - 1 < p) /\ (i - 1) + 1 = i
      BY <2>4
    <3>2. v[i - 1] = w[i]
      BY <3>1
    <3> QED
      BY <2>1, <3>1, <3>2
  <2> QED
    BY <2>2, <2>3, <2>4
<1>18. \A i \in 0..n : AtPos(v, i) = IF i < p THEN AtPos(w, i) ELSE AtPos(w, i + 1)
  <2> TAKE i \in 0..n
  <2>1. CASE i \in 1..(n - 1)
    BY <2>1, <1>1, <1>14 DEF AtPos
  <2>2. CASE i = 0
    BY <2>2, <1>1, <1>14 DEF AtPos
  <2>3. CASE i = n
    BY <2>3, <1>1, <1>14 DEF AtPos
  <2> QED
    BY <2>1, <2>2, <2>3
<1> HIDE DEF v
<1>19. rr.q_head = AtPos(v, 1) /\ rr.q_tail = AtPos(v, n - 1)
  <2>1. AtPos(v, 1) = IF p = 1 THEN next ELSE qq.q_head
    <3>1. 1 \in 0..n /\ (1 < p <=> p # 1)
      BY <1>5
    <3> QED
      BY <3>1, <1>1, <1>3, <1>18
  <2>2. AtPos(v, n - 1) = IF p = n THEN prev ELSE qq.q_tail
    <3>1. n - 1 \in 0..n /\ (n - 1 < p <=> p = n) /\ (n - 1) + 1 = n
      BY <1>5
    <3> QED
      BY <3>1, <1>1, <1>3, <1>18
  <2> QED
    BY <2>1, <2>2, <1>9
<1>20. \A i \in 1..n : /\ (p # 1 /\ w[i] = prev) <=> i = p - 1
                       /\ (p # n /\ w[i] = next) <=> i = p + 1
  <2> TAKE i \in 1..n
  <2>1. (p # 1 /\ w[i] = prev) <=> i = p - 1
    <3>1. CASE p = 1
      BY <3>1
    <3>2. CASE p # 1
      <4>1. p - 1 \in 1..n /\ prev = w[p - 1]
        BY <3>2, <1>7
      <4>2. w[i] = w[p - 1] => i = p - 1
        BY <4>1, <1>1
      <4> QED
        BY <3>2, <4>1, <4>2
    <3> QED
      BY <3>1, <3>2
  <2>2. (p # n /\ w[i] = next) <=> i = p + 1
    <3>1. CASE p = n
      BY <3>1
    <3>2. CASE p # n
      <4>1. p + 1 \in 1..n /\ next = w[p + 1]
        BY <3>2, <1>7
      <4>2. w[i] = w[p + 1] => i = p + 1
        BY <4>1, <1>1
      <4> QED
        BY <3>2, <4>1, <4>2
    <3> QED
      BY <3>1, <3>2
  <2> QED
    BY <2>1, <2>2
<1>21. \A i \in 1..n : /\ kk[w[i]].j_next = IF i = p - 1 THEN next ELSE AtPos(w, i + 1)
                       /\ kk[w[i]].j_prev = IF i = p + 1 THEN prev ELSE AtPos(w, i - 1)
  <2> TAKE i \in 1..n
  <2>1. w[i] \in DOMAIN jj
    BY <1>4
  <2>2. kk[w[i]].j_next = (IF p # 1 /\ w[i] = prev THEN next ELSE jj[w[i]].j_next)
        /\ kk[w[i]].j_prev = (IF p # n /\ w[i] = next THEN prev ELSE jj[w[i]].j_prev)
    <3> DEFINE x == w[i]
               a == IF p # 1 /\ x = prev THEN next ELSE jj[x].j_next
               b == IF p # n /\ x = next THEN prev ELSE jj[x].j_prev
    <3>1. kk[x] = [j_next |-> a, j_prev |-> b, j_id |-> jj[x].j_id]
      BY <2>1, <1>10
    <3> HIDE DEF a, b
    <3>2. kk[x].j_next = a /\ kk[x].j_prev = b
      BY <3>1
    <3> QED
      BY <3>2 DEF a, b
  <2> QED
    BY <2>2, <1>1, <1>20
<1>22. \A i \in 1..(n - 1) : kk[v[i]].j_next = AtPos(v, i + 1) /\ kk[v[i]].j_prev = AtPos(v, i - 1)
  <2> TAKE i \in 1..(n - 1)
  <2>0. i + 1 \in 0..n /\ i - 1 \in 0..n
    OBVIOUS
  <2>1. CASE i < p
    <3>1. i \in 1..n /\ v[i] = w[i] /\ i # p + 1 /\ i - 1 < p /\ (i + 1 < p <=> i # p - 1)
      BY <2>1, <1>14
    <3>2. AtPos(v, i - 1) = AtPos(w, i - 1) /\ AtPos(v, i + 1) = IF i = p - 1 THEN AtPos(w, i + 2) ELSE AtPos(w, i + 1)
      BY <2>0, <3>1, <1>18
    <3>3. i = p - 1 => i + 2 = p + 1
      OBVIOUS
    <3> QED
      BY <3>1, <3>2, <3>3, <1>3, <1>21
  <2>2. CASE ~(i < p)
    <3>0. i + 1 \in 1..n /\ v[i] = w[i + 1]
      BY <2>2, <1>14
    <3>a. i \in Int /\ p \in Int
      OBVIOUS
    <3>b. i + 1 # p - 1 /\ ~(i + 1 < p) /\ (i - 1 < p <=> i = p)
      BY <2>2, <3>a
    <3>d. (i + 1) - 1 = i
      BY <3>a
    <3>e. (i - 1) + 1 = i
      BY <3>a
    <3>f. i + 1 = p + 1 <=> i = p
      BY <3>a
    <3>g. (i + 1) + 1 = i + 2
      BY <3>a
    <3>c. (i + 1) - 1 = i /\ (i - 1) + 1 = i /\ (i + 1 = p + 1 <=> i = p) /\ (i + 1) + 1 = i + 2
      BY <3>d, <3>e, <3>f, <3>g
    <3>1. i + 1 \in 1..n /\ v[i] = w[i + 1] /\ i + 1 # p - 1 /\ ~(i + 1 < p) /\ (i - 1 < p <=> i = p)
          /\ (i + 1) - 1 = i /\ (i - 1) + 1 = i /\ (i + 1 = p + 1 <=> i = p) /\ (i + 1) + 1 = i + 2
      BY <3>0, <3>b, <3>c
    <3>2. AtPos(v, i + 1) = AtPos(w, i + 2) /\ AtPos(v, i - 1) = IF i = p THEN AtPos(w, i - 1) ELSE AtPos(w, i)
      BY <2>0, <3>1, <1>18
    <3> QED
      BY <3>1, <3>2, <1>3, <1>21
  <2> QED
    BY <2>1, <2>2
<1>23. ListOf(rr, kk, Q \ {jp}, n - 1, v)
    BY <1>15, <1>16, <1>17, <1>19, <1>22 DEF ListOf
<1> QED
    BY <1>23, <1>14, <1>9, <1>12, <1>13 DEF HasList

\* Steps that leave the list alone keep it, and keep those where they are who
\* walk along it; a call that a thread goes on with is its own affair.
LEMMA QuietListKeeps ==
    ASSUME JobInv, NEW t \in JobThreads, UNCHANGED <<q, job, queued>>,
           \A u \in JobThreads : u # t => jthr'[u] = jthr[u],
           jthr'[t].pc = "find" =>
              \A n \in Nat : \A w : ListOf(q, job, queued, n, w) => Passed(t, n, w)'
    PROVE  Listed' /\ Walking'
<1>1. Listed'
  <2>1a. PICK n \in Nat : \E w : ListOf(q, job, queued, n, w)
    BY DEF JobInv, Listed, HasList
  <2>1. PICK w : ListOf(q, job, queued, n, w)
    BY <2>1a
  <2>2. ListOf(q', job', queued', n, w)
    BY <2>1
  <2> QED
    BY <2>2 DEF Listed, HasList
<1>2. Walking'
  <2> SUFFICES ASSUME NEW n \in Nat, NEW w, ListOf(q', job', queued', n, w),
                      NEW u \in JobThreads, jthr'[u].pc = "find"
               PROVE  Passed(u, n, w)'
    BY DEF Walking
  <2>1. ListOf(q, job, queued, n, w)
    OBVIOUS
  <2>2. CASE u = t
    BY <2>1, <2>2
  <2>3. CASE u # t
    <3>1. jthr'[u] = jthr[u]
      BY <2>3
    <3>2. Passed(u, n, w)
      BY <2>1, <3>1 DEF JobInv, Walking
    <3> QED
      BY <3>1, <3>2 DEF Passed
  <2> QED
    BY <2>2, <2>3
<1> QED
    BY <1>1, <1>2

\* A change of the list, by the one who has the write lock: nobody walks.
LEMMA ListChangeKeeps ==
    ASSUME Listed', \A t \in JobThreads : jthr'[t].pc # "find"
    PROVE  Listed' /\ Walking'
BY DEF Walking

\* pthread_rwlock_wrlock and pthread_rwlock_unlock: a writer is alone.
LEMMA WriterComes ==
    ASSUME JobTypes, Locks, NEW t \in JobThreads, WrLock(t),
           NEW pc \in WithWrLock, NEW jp \in Nat, Call1(t, pc, jp)
    PROVE  /\ Locks'
           /\ jthr'[t] = [pc |-> pc, jp |-> jp] /\ \A u \in JobThreads : u # t => jthr'[u] = jthr[u]
           /\ \A u \in JobThreads : u # t => jthr'[u].pc \in {"idle", "found"}
           /\ q_lock' \in [writer : JobThreads \cup {NoWriter}, readers : SUBSET JobThreads]
           /\ jthr' \in [JobThreads -> [pc : WithWrLock \cup {"idle", "find", "found"}, jp : Nat]]
<1>1. jthr'[t] = [pc |-> pc, jp |-> jp] /\ \A u \in JobThreads : u # t => jthr'[u] = jthr[u]
    BY DEF Call1, JobTypes
<1>2. q_lock.writer = NoWriter /\ q_lock.readers = {} /\ q_lock' = [writer |-> t, readers |-> {}]
  <2>1. q_lock.writer = NoWriter /\ q_lock.readers = {} /\ q_lock' = [q_lock EXCEPT !.writer = t]
    BY DEF WrLock, CanWrite
  <2> QED
    BY <2>1 DEF JobTypes
<1>3. \A u \in JobThreads : jthr[u].pc \notin WithWrLock /\ jthr[u].pc # "find"
    BY <1>2, JobQueueAssumption DEF Locks, JobThreads, NoWriter
<1>4. \A u \in JobThreads : u # t => jthr'[u].pc \in {"idle", "found"}
    BY <1>1, <1>3 DEF JobTypes
<1>5. Locks'
    BY <1>1, <1>2, <1>4 DEF Locks, WithWrLock
<1>6. q_lock' \in [writer : JobThreads \cup {NoWriter}, readers : SUBSET JobThreads]
    BY <1>2
<1>7. jthr' \in [JobThreads -> [pc : WithWrLock \cup {"idle", "find", "found"}, jp : Nat]]
    BY DEF Call1, JobTypes
<1> QED
    BY <1>1, <1>4, <1>5, <1>6, <1>7

\* The functions that write return and give the lock back.
LEMMA WriterGoes ==
    ASSUME JobTypes, Locks, NEW t \in JobThreads, jthr[t].pc \in WithWrLock, Unlock1(t), Return1(t)
    PROVE  /\ Locks'
           /\ jthr'[t] = NoCall /\ \A u \in JobThreads : u # t => jthr'[u] = jthr[u]
           /\ \A u \in JobThreads : jthr'[u].pc \in {"idle", "found"}
           /\ q_lock' \in [writer : JobThreads \cup {NoWriter}, readers : SUBSET JobThreads]
           /\ jthr' \in [JobThreads -> [pc : WithWrLock \cup {"idle", "find", "found"}, jp : Nat]]
<1>1. jthr'[t] = NoCall /\ \A u \in JobThreads : u # t => jthr'[u] = jthr[u]
    BY DEF Return1, JobTypes
<1>2. q_lock.writer = t /\ q_lock.readers = {}
    BY JobQueueAssumption DEF Locks, JobThreads, NoWriter
<1>3. q_lock' = [writer |-> NoWriter, readers |-> {}]
    BY <1>2 DEF Unlock1
<1>4. \A u \in JobThreads : u # t => jthr[u].pc \notin WithWrLock /\ jthr[u].pc # "find"
    BY <1>2 DEF Locks
<1>5. \A u \in JobThreads : jthr'[u].pc \in {"idle", "found"}
    BY <1>1, <1>4 DEF JobTypes, NoCall
<1>6. Locks'
    BY <1>3, <1>5, JobQueueAssumption DEF Locks, WithWrLock, JobThreads, NoWriter
<1>7. q_lock' \in [writer : JobThreads \cup {NoWriter}, readers : SUBSET JobThreads]
    BY <1>3
<1>8. jthr' \in [JobThreads -> [pc : WithWrLock \cup {"idle", "find", "found"}, jp : Nat]]
    BY DEF Return1, JobTypes, NoCall, NULL
<1> QED
    BY <1>1, <1>5, <1>6, <1>7, <1>8

\* job_insert and job_append up to the list's pointers.
LEMMA PutLinksJobKeeps ==
    ASSUME JobInv, NEW t \in JobMasters, NEW id \in JobWorkers, NEW how \in {"insert", "append"}, PutLinksJob(t, id, how)
    PROVE  JobInv'
<1> DEFINE new == IF how = "insert" THEN [j_next |-> q.q_head, j_prev |-> NULL, j_id |-> id]
                                    ELSE [j_next |-> NULL, j_prev |-> q.q_tail, j_id |-> id]
           jp == Len(job) + 1
<1>0. JobTypes /\ Locks /\ InHand /\ t \in JobThreads /\ how \in WithWrLock /\ jp \in Nat
    BY DEF JobInv, JobThreads, WithWrLock, JobTypes
<1>1. WrLock(t) /\ job' = Append(job, new) /\ Call1(t, how, jp) /\ UNCHANGED <<q, queued>>
    BY DEF PutLinksJob
<1>2. /\ Locks'
      /\ jthr'[t] = [pc |-> how, jp |-> jp] /\ \A u \in JobThreads : u # t => jthr'[u] = jthr[u]
      /\ \A u \in JobThreads : u # t => jthr'[u].pc \in {"idle", "found"}
      /\ q_lock' \in [writer : JobThreads \cup {NoWriter}, readers : SUBSET JobThreads]
      /\ jthr' \in [JobThreads -> [pc : WithWrLock \cup {"idle", "find", "found"}, jp : Nat]]
    BY <1>0, <1>1, WriterComes
<1>3. new \in JobRec
    BY <1>0 DEF JobTypes, Queue, JobRec, NULL
<1>4. /\ new.j_next = IF how = "insert" THEN q.q_head ELSE NULL
      /\ new.j_prev = IF how = "insert" THEN NULL ELSE q.q_tail
    OBVIOUS
<1> HIDE DEF new
<1>5. job \in Seq(JobRec) /\ queued \in SUBSET (1..Len(job)) /\ Len(job) \in Nat
    BY <1>0 DEF JobTypes
<1>6. /\ job' \in Seq(JobRec) /\ Len(job') = jp /\ job'[jp] = new
      /\ \A j \in 1..Len(job) : job'[j] = job[j]
    BY <1>1, <1>3, <1>5
<1>7. JobTypes'
    BY <1>0, <1>1, <1>2, <1>5, <1>6 DEF JobTypes
<1>8. jp \in (1..Len(job')) \ queued
    BY <1>5, <1>6
<1>9. InHand'
  <2> SUFFICES ASSUME NEW u \in JobThreads
               PROVE  LET p == jthr'[u].jp
                      IN /\ jthr'[u].pc \in {"insert", "append"} => p \in (1..Len(job')) \ queued'
                         /\ jthr'[u].pc = "insert" => job'[p].j_next = q'.q_head /\ job'[p].j_prev = NULL
                         /\ jthr'[u].pc = "append" => job'[p].j_next = NULL /\ job'[p].j_prev = q'.q_tail
                         /\ jthr'[u].pc \in {"found", "remove"} => p \in queued' /\ job'[p].j_id = u
    BY DEF InHand
  <2>1. CASE u = t
    <3>1. jthr'[u].pc = how /\ jthr'[u].jp = jp
      BY <2>1, <1>2
    <3> HIDE DEF jp
    <3> QED
      BY <3>1, <1>1, <1>4, <1>6, <1>8
  <2>2. CASE u # t
    <3>1. jthr'[u].pc \in {"idle", "found"} /\ jthr'[u] = jthr[u]
      BY <2>2, <1>2
    <3>2. jthr[u].pc = "found" => jthr[u].jp \in queued /\ job[jthr[u].jp].j_id = u
      BY <1>0 DEF InHand
    <3> QED
      BY <3>1, <3>2, <1>1, <1>5, <1>6
  <2> QED
    BY <2>1, <2>2
<1>10. Listed'
  <2>1a. PICK n \in Nat : \E w : ListOf(q, job, queued, n, w)
    BY DEF JobInv, Listed, HasList
  <2>1. PICK w : ListOf(q, job, queued, n, w)
    BY <2>1a
  <2>2. \A i \in 1..n : w[i] \in 1..Len(job)
    BY <2>1, <1>5 DEF ListOf
  <2>3. \A i \in 1..n : job'[w[i]] = job[w[i]]
    BY <2>2, <1>6
  <2>4. ListOf(q', job', queued', n, w)
    BY <2>1, <2>3, <1>1 DEF ListOf
  <2> QED
    BY <2>4 DEF Listed, HasList
<1>11. Listed' /\ Walking'
  <2>1. \A u \in JobThreads : jthr'[u].pc # "find"
    BY <1>2, <1>0 DEF WithWrLock
  <2> QED
    BY <2>1, <1>10, ListChangeKeeps
<1> QED
    BY <1>2, <1>7, <1>9, <1>11 DEF JobInv

\* The rest of job_insert and job_append: the job joins the list at one end.
LEMMA PutKeeps ==
    ASSUME JobInv, NEW t \in JobThreads, job_insert(t) \/ job_append(t)
    PROVE  JobInv'
<1> DEFINE jp == jthr[t].jp
<1>0. JobTypes /\ Locks /\ InHand /\ jthr[t].pc \in WithWrLock
    BY DEF JobInv, WithWrLock, job_insert, job_append
<1>1. Unlock1(t) /\ Return1(t) /\ queued' = queued \cup {jp}
    BY DEF job_insert, job_append
<1>2. /\ Locks'
      /\ jthr'[t] = NoCall /\ \A u \in JobThreads : u # t => jthr'[u] = jthr[u]
      /\ \A u \in JobThreads : jthr'[u].pc \in {"idle", "found"}
      /\ q_lock' \in [writer : JobThreads \cup {NoWriter}, readers : SUBSET JobThreads]
      /\ jthr' \in [JobThreads -> [pc : WithWrLock \cup {"idle", "find", "found"}, jp : Nat]]
    BY <1>0, <1>1, WriterGoes
<1>3. q \in Queue /\ job \in Seq(JobRec) /\ queued \in SUBSET (1..Len(job)) /\ jp \in (1..Len(job)) \ queued
    BY <1>0 DEF JobTypes, InHand, job_insert, job_append
<1>4a. PICK n \in Nat : \E w : ListOf(q, job, queued, n, w)
    BY DEF JobInv, Listed, HasList
<1>4. PICK w : ListOf(q, job, queued, n, w)
    BY <1>4a
<1>5. /\ Listed'
      /\ q' \in Queue /\ job' \in Seq(JobRec) /\ Len(job') = Len(job)
      /\ \A j \in 1..Len(job) : job'[j].j_id = job[j].j_id
  <2>0. /\ q.q_head = AtPos(w, 1) /\ q.q_tail = AtPos(w, n) /\ q.q_head \in Nat /\ q.q_tail \in Nat /\ jp \in Nat
        /\ \A i \in 1..n : w[i] \in DOMAIN job
        /\ DOMAIN w = 1..n
    <3>1. w \in [1..n -> queued] /\ q.q_head = AtPos(w, 1) /\ q.q_tail = AtPos(w, n)
      BY <1>4 DEF ListOf
    <3>2. q.q_head \in Nat /\ q.q_tail \in Nat
      BY <1>3 DEF Queue
    <3>3. jp \in Nat /\ queued \subseteq DOMAIN job
      BY <1>3
    <3> QED
      BY <3>1, <3>2, <3>3
  <2>1. CASE job_insert(t)
    <3>1. IF q.q_head # NULL
            THEN job' = [job EXCEPT ![q.q_head].j_prev = jp] /\ q' = [q EXCEPT !.q_head = jp]
            ELSE job' = job /\ q' = [q_head |-> jp, q_tail |-> jp]
      BY <2>1 DEF job_insert
    <3>2. job[jp].j_next = q.q_head /\ job[jp].j_prev = NULL
      BY <2>1, <1>0 DEF InHand, job_insert
    <3> HIDE DEF jp
    <3>3. \E v : ListOf(q', job', queued', n + 1, v)
      BY <1>1, <1>3, <1>4, <3>1, <3>2, ListInsert
    <3>4. q' \in Queue
      BY <3>1, <1>3, <2>0 DEF Queue
    <3>5. CASE q.q_head = NULL
      <4>1. Listed'
        BY <3>3 DEF Listed, HasList
      <4>2. job' = job
        BY <3>1, <3>5
      <4> QED
        BY <4>1, <4>2, <3>4, <1>3
    <3>6. CASE q.q_head # NULL
      <4>1. q.q_head \in DOMAIN job /\ job' = [job EXCEPT ![q.q_head].j_prev = jp]
        BY <2>0, <3>1, <3>6 DEF AtPos
      <4>2. job[q.q_head] \in JobRec
        BY <4>1, <1>3
      <4>3. [job[q.q_head] EXCEPT !.j_prev = jp] \in JobRec /\ [job[q.q_head] EXCEPT !.j_prev = jp].j_id = job[q.q_head].j_id
        BY <4>2, <2>0 DEF JobRec
      <4>4. job' = [job EXCEPT ![q.q_head] = [job[q.q_head] EXCEPT !.j_prev = jp]]
        BY <4>1
      <4>5. job' \in Seq(JobRec) /\ Len(job') = Len(job)
        BY <4>1, <4>3, <4>4, <1>3
      <4>6. \A j \in 1..Len(job) : job'[j].j_id = job[j].j_id
        BY <4>1, <4>3, <4>4, <1>3
      <4> QED
        BY <3>3, <3>4, <4>5, <4>6 DEF Listed, HasList
    <3> QED
      BY <3>5, <3>6
  <2>2. CASE job_append(t)
    <3>1. IF q.q_tail # NULL
            THEN job' = [job EXCEPT ![q.q_tail].j_next = jp] /\ q' = [q EXCEPT !.q_tail = jp]
            ELSE job' = job /\ q' = [q_head |-> jp, q_tail |-> jp]
      BY <2>2 DEF job_append
    <3>2. job[jp].j_next = NULL /\ job[jp].j_prev = q.q_tail
      BY <2>2, <1>0 DEF InHand, job_append
    <3> HIDE DEF jp
    <3>3. \E v : ListOf(q', job', queued', n + 1, v)
      BY <1>1, <1>3, <1>4, <3>1, <3>2, ListAppend
    <3>4. q' \in Queue
      BY <3>1, <1>3, <2>0 DEF Queue
    <3>5. CASE q.q_tail = NULL
      <4>1. Listed'
        BY <3>3 DEF Listed, HasList
      <4>2. job' = job
        BY <3>1, <3>5
      <4> QED
        BY <4>1, <4>2, <3>4, <1>3
    <3>6. CASE q.q_tail # NULL
      <4>1. q.q_tail \in DOMAIN job /\ job' = [job EXCEPT ![q.q_tail].j_next = jp]
        BY <2>0, <3>1, <3>6 DEF AtPos
      <4>2. job[q.q_tail] \in JobRec
        BY <4>1, <1>3
      <4>3. [job[q.q_tail] EXCEPT !.j_next = jp] \in JobRec /\ [job[q.q_tail] EXCEPT !.j_next = jp].j_id = job[q.q_tail].j_id
        BY <4>2, <2>0 DEF JobRec
      <4>4. job' = [job EXCEPT ![q.q_tail] = [job[q.q_tail] EXCEPT !.j_next = jp]]
        BY <4>1
      <4>5. job' \in Seq(JobRec) /\ Len(job') = Len(job)
        BY <4>1, <4>3, <4>4, <1>3
      <4>6. \A j \in 1..Len(job) : job'[j].j_id = job[j].j_id
        BY <4>1, <4>3, <4>4, <1>3
      <4> QED
        BY <3>3, <3>4, <4>5, <4>6 DEF Listed, HasList
    <3> QED
      BY <3>5, <3>6
  <2> QED
    BY <2>1, <2>2
<1>6. queued' \in SUBSET (1..Len(job'))
    BY <1>1, <1>3, <1>5
<1>7. JobTypes'
    BY <1>2, <1>5, <1>6 DEF JobTypes
<1>8. InHand'
  <2>1. \A u \in JobThreads : jthr'[u].pc = "found" => jthr'[u].jp \in queued' /\ job'[jthr'[u].jp].j_id = u
    <3> TAKE u \in JobThreads
    <3> HAVE jthr'[u].pc = "found"
    <3>1. jthr'[u] = jthr[u]
      BY <1>2 DEF NoCall
    <3>2. jthr[u].jp \in queued /\ job[jthr[u].jp].j_id = u
      BY <3>1, <1>0 DEF InHand
    <3> QED
      BY <3>1, <3>2, <1>1, <1>3, <1>5
  <2> QED
    BY <2>1, <1>2 DEF InHand
<1>9. Listed' /\ Walking'
    BY <1>2, <1>5, ListChangeKeeps
<1> QED
    BY <1>2, <1>7, <1>8, <1>9 DEF JobInv

\* job_remove: only the worker that found the job takes it out.
LEMMA job_removeKeeps ==
    ASSUME JobInv, NEW t \in JobThreads, job_remove(t)
    PROVE  JobInv'
<1> DEFINE jp == jthr[t].jp
<1>0. JobTypes /\ Locks /\ InHand /\ jthr[t].pc \in WithWrLock /\ jthr[t].pc = "remove"
    BY DEF JobInv, WithWrLock, job_remove
<1>1. Unlock1(t) /\ Return1(t) /\ queued' = queued \ {jp}
    BY DEF job_remove
<1>2. /\ Locks'
      /\ jthr'[t] = NoCall /\ \A u \in JobThreads : u # t => jthr'[u] = jthr[u]
      /\ \A u \in JobThreads : jthr'[u].pc \in {"idle", "found"}
      /\ q_lock' \in [writer : JobThreads \cup {NoWriter}, readers : SUBSET JobThreads]
      /\ jthr' \in [JobThreads -> [pc : WithWrLock \cup {"idle", "find", "found"}, jp : Nat]]
    BY <1>0, <1>1, WriterGoes
<1>3. q \in Queue /\ job \in Seq(JobRec) /\ queued \in SUBSET (1..Len(job)) /\ jp \in queued /\ job[jp].j_id = t
    BY <1>0 DEF JobTypes, InHand
<1>4a. PICK n \in Nat : \E w : ListOf(q, job, queued, n, w)
    BY DEF JobInv, Listed, HasList
<1>4. PICK w : ListOf(q, job, queued, n, w)
    BY <1>4a
<1>5. Unlinks(q, job, jp, q', job')
    BY DEF job_remove, Unlinks
<1> HIDE DEF jp
<1>6. /\ HasList(q', job', queued \ {jp})
      /\ q' \in Queue /\ job' \in Seq(JobRec) /\ Len(job') = Len(job)
      /\ \A j \in 1..Len(job) : job'[j].j_id = job[j].j_id
    BY <1>3, <1>4, <1>5, ListRemove
<1>7. JobTypes'
    BY <1>1, <1>2, <1>3, <1>6 DEF JobTypes
<1>8. InHand'
  <2>1. \A u \in JobThreads : jthr'[u].pc = "found" => jthr'[u].jp \in queued' /\ job'[jthr'[u].jp].j_id = u
    <3> TAKE u \in JobThreads
    <3> HAVE jthr'[u].pc = "found"
    <3>1. jthr'[u] = jthr[u] /\ u # t
      BY <1>2 DEF NoCall
    <3>2. jthr[u].jp \in queued /\ job[jthr[u].jp].j_id = u
      BY <3>1, <1>0 DEF InHand
    <3> QED
      BY <3>1, <3>2, <1>1, <1>3, <1>6
  <2> QED
    BY <2>1, <1>2 DEF InHand
<1>9. Listed' /\ Walking'
    BY <1>1, <1>2, <1>6, ListChangeKeeps DEF Listed, HasList
<1> QED
    BY <1>2, <1>7, <1>8, <1>9 DEF JobInv

\* job_find: it starts at the head, steps to the next job, and finds its own.
LEMMA FindKeeps ==
    ASSUME JobInv, NEW t \in JobThreads, (t \in JobWorkers /\ FindLocks(t)) \/ job_find(t)
    PROVE  JobInv'
<1> DEFINE jp == jthr[t].jp
<1>0. JobTypes /\ Locks /\ InHand /\ Walking /\ UNCHANGED <<q, job, queued>>
    BY DEF JobInv, FindLocks, job_find
<1>1. q \in Queue /\ job \in Seq(JobRec) /\ queued \in SUBSET (1..Len(job)) /\ jthr[t].jp \in Nat
    BY <1>0 DEF JobTypes
<1>2a. PICK n \in Nat : \E w : ListOf(q, job, queued, n, w)
    BY DEF JobInv, Listed, HasList
<1>2. PICK w : ListOf(q, job, queued, n, w)
    BY <1>2a
<1>3. \A m \in Nat : \A v : ListOf(q, job, queued, m, v) =>
         /\ DOMAIN v = 1..m /\ \A i \in 1..m : v[i] \in queued /\ v[i] # NULL
         /\ q.q_head = AtPos(v, 1) /\ \A i \in 1..m : job[v[i]].j_next = AtPos(v, i + 1)
  <2> SUFFICES ASSUME NEW m \in Nat, NEW v, ListOf(q, job, queued, m, v)
               PROVE  /\ DOMAIN v = 1..m /\ \A i \in 1..m : v[i] \in queued /\ v[i] # NULL
                      /\ q.q_head = AtPos(v, 1) /\ \A i \in 1..m : job[v[i]].j_next = AtPos(v, i + 1)
    OBVIOUS
  <2>1. v \in [1..m -> queued]
    BY DEF ListOf
  <2>2. \A i \in 1..m : v[i] \in 1..Len(job)
    BY <2>1, <1>1
  <2>3. DOMAIN v = 1..m /\ \A i \in 1..m : v[i] \in queued
    BY <2>1
  <2>4. \A i \in 1..m : v[i] # NULL
    BY <2>2 DEF NULL
  <2>5. q.q_head = AtPos(v, 1) /\ \A i \in 1..m : job[v[i]].j_next = AtPos(v, i + 1)
    BY DEF ListOf
  <2> QED
    BY <2>3, <2>4, <2>5
<1> DEFINE Goes(pc, p) == /\ jthr' = [jthr EXCEPT ![t] = [pc |-> pc, jp |-> p]]
                          /\ q_lock' = [q_lock EXCEPT !.readers = IF pc = "find" THEN @ \cup {t} ELSE @ \ {t}]
<1>4. ASSUME NEW pc \in {"idle", "find", "found"}, NEW p \in Nat, Goes(pc, p),
             q_lock.writer = NoWriter, jthr[t].pc \in {"idle", "find"},
             pc = "found" => p \in queued /\ job[p].j_id = t,
             pc = "find" => \A m \in Nat : \A v : ListOf(q, job, queued, m, v) =>
                               \E k \in 1..(m + 1) : p = AtPos(v, k) /\ \A i \in 1..(k - 1) : job[v[i]].j_id # t
      PROVE  JobInv'
  <2>1. jthr'[t] = [pc |-> pc, jp |-> p] /\ \A u \in JobThreads : u # t => jthr'[u] = jthr[u]
    BY <1>0, <1>4 DEF JobTypes
  <2>2. q_lock' = [writer |-> NoWriter, readers |-> IF pc = "find" THEN q_lock.readers \cup {t} ELSE q_lock.readers \ {t}]
    BY <1>0, <1>4 DEF JobTypes
  <2>3. jthr' \in [JobThreads -> [pc : WithWrLock \cup {"idle", "find", "found"}, jp : Nat]]
    BY <1>0, <1>4 DEF JobTypes
  <2>4. q_lock' \in [writer : JobThreads \cup {NoWriter}, readers : SUBSET JobThreads]
    BY <1>0, <2>2 DEF JobTypes
  <2>5. JobTypes'
    BY <1>0, <2>3, <2>4 DEF JobTypes
  <2>6. \A u \in JobThreads : NoWriter # u
    BY JobQueueAssumption DEF NoWriter, JobThreads
  <2>7. \A u \in JobThreads : jthr'[u].pc \notin WithWrLock
    BY <1>0, <1>4, <2>1, <2>6 DEF Locks, WithWrLock
  <2>8. \A u \in JobThreads : u \in q_lock'.readers <=> jthr'[u].pc = "find"
    BY <1>0, <2>1, <2>2 DEF Locks
  <2>9. Locks'
    BY <2>2, <2>6, <2>7, <2>8 DEF Locks
  <2>10. InHand'
    <3>1. \A u \in JobThreads : jthr'[u].pc = "found" => jthr'[u].jp \in queued /\ job[jthr'[u].jp].j_id = u
      <4> TAKE u \in JobThreads
      <4>1. CASE u = t
        BY <4>1, <2>1, <1>4
      <4>2. CASE u # t
        BY <4>2, <2>1, <1>0 DEF InHand
      <4> QED
        BY <4>1, <4>2
    <3> QED
      BY <3>1, <2>7, <1>0 DEF InHand, WithWrLock
  <2>11. jthr'[t].pc = "find" => \A m \in Nat : \A v : ListOf(q, job, queued, m, v) => Passed(t, m, v)'
    <3> SUFFICES ASSUME pc = "find", NEW m \in Nat, NEW v, ListOf(q, job, queued, m, v) PROVE Passed(t, m, v)'
      BY <2>1
    <3>1. \E k \in 1..(m + 1) : p = AtPos(v, k) /\ \A i \in 1..(k - 1) : job[v[i]].j_id # t
      BY <1>4
    <3> QED
      BY <3>1, <2>1, <1>0 DEF Passed
  <2>12. Listed' /\ Walking'
    BY <1>0, <2>1, <2>11, QuietListKeeps
  <2> QED
    BY <2>5, <2>9, <2>10, <2>12 DEF JobInv
<1>5. CASE t \in JobWorkers /\ FindLocks(t)
  <2>1. q_lock.writer = NoWriter /\ q_lock' = [q_lock EXCEPT !.readers = @ \cup {t}] /\ jthr[t] = NoCall
        /\ jthr' = [jthr EXCEPT ![t] = [pc |-> "find", jp |-> q.q_head]]
    BY <1>5 DEF FindLocks, RdLock, Call1
  <2>2. jthr[t].pc = "idle" /\ q.q_head \in Nat
    BY <2>1, <1>1 DEF NoCall, Queue
  <2>3. ASSUME NEW m \in Nat, NEW v, ListOf(q, job, queued, m, v)
        PROVE  \E k \in 1..(m + 1) : q.q_head = AtPos(v, k) /\ \A i \in 1..(k - 1) : job[v[i]].j_id # t
    <3>1. 1 \in 1..(m + 1) /\ q.q_head = AtPos(v, 1) /\ \A i \in 1..(1 - 1) : job[v[i]].j_id # t
      BY <2>3, <1>3
    <3> QED
      BY <3>1
  <2>4. Goes("find", q.q_head)
    BY <2>1
  <2> HIDE DEF Goes
  <2> QED
    BY <2>1, <2>2, <2>3, <2>4, <1>4
<1>6. CASE job_find(t)
  <2>1. jthr[t].pc = "find" /\ t \in q_lock.readers /\ q_lock.writer = NoWriter
    BY <1>6, <1>0 DEF job_find, Locks
  <2>2. q_lock = [writer |-> NoWriter, readers |-> q_lock.readers] /\ q_lock.writer # t
    BY <2>1, <1>0, JobQueueAssumption DEF JobTypes, NoWriter, JobThreads
  <2>3. PICK k \in 1..(n + 1) : jp = AtPos(w, k) /\ \A i \in 1..(k - 1) : job[w[i]].j_id # t
    BY <2>1, <1>0, <1>2 DEF Walking, Passed
  <2>4. jp # NULL => jp \in queued
    BY <2>3, <1>2, <1>3 DEF AtPos
  <2>5. CASE jp = NULL \/ job[jp].j_id = t
    <3>1. Unlock1(t) /\ (IF jp = NULL THEN Return1(t) ELSE Call1(t, "found", jp))
      BY <1>6, <2>5 DEF job_find
    <3>2. q_lock' = [writer |-> NoWriter, readers |-> q_lock.readers \ {t}]
      BY <3>1, <2>1, <2>2 DEF Unlock1
    <3>3. q_lock' = [q_lock EXCEPT !.readers = @ \ {t}]
      BY <3>2, <2>2
    <3>4. CASE jp = NULL
      <4>1. Goes("idle", NULL)
        BY <3>1, <3>3, <3>4 DEF Return1, NoCall
      <4>2. NULL \in Nat
        BY DEF NULL
      <4> HIDE DEF Goes
      <4> QED
        BY <4>1, <4>2, <2>1, <1>4
    <3>5. CASE jp # NULL
      <4>1. Goes("found", jp)
        BY <3>1, <3>3, <3>5 DEF Call1
      <4>2. jp \in queued /\ job[jp].j_id = t /\ jp \in Nat
        BY <3>5, <2>4, <2>5, <1>1
      <4> HIDE DEF Goes, jp
      <4> QED
        BY <4>1, <4>2, <2>1, <1>4
    <3> QED
      BY <3>4, <3>5
  <2>6. CASE jp # NULL /\ job[jp].j_id # t
    <3> DEFINE p == job[jp].j_next
    <3>1. Call1(t, "find", p) /\ UNCHANGED q_lock
      BY <1>6, <2>6 DEF job_find
    <3>2. q_lock.readers = q_lock.readers \cup {t}
      BY <2>1
    <3>3. q_lock' = [q_lock EXCEPT !.readers = @ \cup {t}]
      BY <3>1, <3>2, <2>2
    <3>4. Goes("find", p)
      BY <3>1, <3>3 DEF Call1
    <3>5. p \in Nat
      <4>1. job[jp] \in JobRec
        BY <2>4, <2>6, <1>1
      <4> QED
        BY <4>1 DEF JobRec
    <3>6. ASSUME NEW m \in Nat, NEW v, ListOf(q, job, queued, m, v)
          PROVE  \E h \in 1..(m + 1) : p = AtPos(v, h) /\ \A i \in 1..(h - 1) : job[v[i]].j_id # t
      <4>1. PICK h \in 1..(m + 1) : jp = AtPos(v, h) /\ \A i \in 1..(h - 1) : job[v[i]].j_id # t
        BY <3>6, <2>1, <1>0 DEF Walking, Passed
      <4>2. h \in 1..m /\ jp = v[h]
        BY <4>1, <2>6, <3>6, <1>3 DEF AtPos
      <4>3. p = AtPos(v, h + 1)
        BY <4>2, <3>6, <1>3
      <4>4. h + 1 \in 1..(m + 1) /\ \A i \in 1..((h + 1) - 1) : i \in 1..(h - 1) \/ i = h
        BY <4>2
      <4>5. \A i \in 1..((h + 1) - 1) : job[v[i]].j_id # t
        BY <4>1, <4>2, <4>4, <2>6
      <4> QED
        BY <4>3, <4>4, <4>5
    <3> HIDE DEF Goes, p
    <3> QED
      BY <3>4, <3>5, <3>6, <2>1, <1>4
  <2> QED
    BY <2>5, <2>6
<1> QED
    BY <1>5, <1>6

\* Between finding its job and removing it a worker has no lock.
LEMMA RemoveLocksKeeps ==
    ASSUME JobInv, NEW t \in JobThreads, RemoveLocks(t)
    PROVE  JobInv'
<1> DEFINE jp == jthr[t].jp
<1>0. JobTypes /\ Locks /\ InHand /\ UNCHANGED <<q, job, queued>> /\ jthr[t].pc = "found" /\ jp \in Nat
    BY DEF JobInv, RemoveLocks, JobTypes
<1>1. WrLock(t) /\ Call1(t, "remove", jp) /\ "remove" \in WithWrLock
    BY DEF RemoveLocks, WithWrLock
<1>2. /\ Locks'
      /\ jthr'[t] = [pc |-> "remove", jp |-> jp] /\ \A u \in JobThreads : u # t => jthr'[u] = jthr[u]
      /\ \A u \in JobThreads : u # t => jthr'[u].pc \in {"idle", "found"}
      /\ q_lock' \in [writer : JobThreads \cup {NoWriter}, readers : SUBSET JobThreads]
      /\ jthr' \in [JobThreads -> [pc : WithWrLock \cup {"idle", "find", "found"}, jp : Nat]]
    BY <1>0, <1>1, WriterComes
<1>3. JobTypes'
    BY <1>0, <1>2 DEF JobTypes
<1>4. InHand'
  <2>1. jp \in queued /\ job[jp].j_id = t
    BY <1>0 DEF InHand
  <2>2. \A u \in JobThreads : jthr'[u].pc \in {"found", "remove"} => jthr'[u].jp \in queued /\ job[jthr'[u].jp].j_id = u
    <3> TAKE u \in JobThreads
    <3>1. CASE u = t
      BY <3>1, <2>1, <1>2
    <3>2. CASE u # t
      BY <3>2, <1>0, <1>2 DEF InHand
    <3> QED
      BY <3>1, <3>2
  <2>3. \A u \in JobThreads : jthr'[u].pc \notin {"insert", "append"}
    BY <1>2
  <2> QED
    BY <2>2, <2>3, <1>0 DEF InHand
<1>5. Listed' /\ Walking'
  <2>1. \A u \in JobThreads : u # t => jthr'[u] = jthr[u]
    BY <1>2
  <2>2. jthr'[t].pc # "find"
    BY <1>2
  <2> QED
    BY <2>1, <2>2, <1>0, QuietListKeeps
<1> QED
    BY <1>2, <1>3, <1>4, <1>5 DEF JobInv

\* Every step of the masters and of the workers keeps the list, the lock and what
\* the workers know.
LEMMA JobInvStep == JobInv /\ [JobNext]_jobVars => JobInv'
<1> SUFFICES ASSUME JobInv, [JobNext]_jobVars PROVE JobInv'
    OBVIOUS
<1>1. CASE \E t \in JobMasters, id \in JobWorkers, how \in {"insert", "append"} : PutLinksJob(t, id, how)
    BY <1>1, PutLinksJobKeeps
<1>2. CASE \E t \in JobWorkers : FindLocks(t)
    BY <1>2, FindKeeps DEF JobThreads
<1>3. CASE \E t \in JobThreads : JobGoesOn(t)
    BY <1>3, PutKeeps, FindKeeps, RemoveLocksKeeps, job_removeKeeps DEF JobGoesOn
<1>4. CASE UNCHANGED jobVars
  <2>1. JobTypes' /\ Locks' /\ InHand'
    BY <1>4 DEF JobInv, jobVars, JobTypes, Locks, InHand
  <2>2. Listed'
    BY <1>4 DEF JobInv, jobVars, Listed
  <2>3. Walking'
    BY <1>4 DEF JobInv, jobVars, Walking, Passed
  <2> QED
    BY <2>1, <2>2, <2>3 DEF JobInv
<1> QED
    BY <1>1, <1>2, <1>3, <1>4 DEF JobNext

\* rwlock.c: the queue is whole whenever nobody writes, a job that a worker found
\* stays until that worker removes it, and a search passes no job by, for any
\* threads and jobs.
THEOREM TheQueueIsKept == JobSpec => []QueueIsSound
<1>1. JobInit => JobInv
  <2> SUFFICES ASSUME JobInit PROVE JobInv
    OBVIOUS
  <2>1. q = [q_head |-> NULL, q_tail |-> NULL] /\ job = <<>> /\ queued = {} /\ NULL \in Nat
        /\ q_lock = [writer |-> NoWriter, readers |-> {}] /\ jthr = [t \in JobThreads |-> NoCall]
    BY DEF JobInit, NULL
  <2>2. \A t \in JobThreads : jthr[t].pc = "idle" /\ NoWriter # t
    BY <2>1, JobQueueAssumption DEF NoCall, NoWriter, JobThreads
  <2>3. JobTypes
    BY <2>1 DEF JobTypes, NoCall, Queue
  <2>4. Locks /\ InHand /\ Walking
    BY <2>1, <2>2 DEF Locks, InHand, Walking, WithWrLock
  <2>5. ListOf(q, job, queued, 0, <<>>)
    BY <2>1 DEF ListOf, AtPos
  <2> QED
    BY <2>3, <2>4, <2>5 DEF JobInv, Listed, HasList
<1>2. JobInv => QueueIsSound
  <2> SUFFICES ASSUME JobInv PROVE QueueIsSound
    OBVIOUS
  <2>0. JobTypes /\ Locks /\ InHand /\ Listed /\ Walking
    BY DEF JobInv
  <2>1a. PICK n \in Nat : \E w : ListOf(q, job, queued, n, w)
    BY <2>0 DEF Listed, HasList
  <2>1. PICK w : ListOf(q, job, queued, n, w)
    BY <2>1a
  <2>2. Cardinality(queued) = n
    <3>1. ExistsBijection(1..n, queued)
      <4>1. w \in Bijection(1..n, queued)
        BY <2>1 DEF ListOf, Bijection, Injection, Surjection, IsInjective
      <4> QED
        BY <4>1 DEF ExistsBijection
    <3> QED
      BY <3>1, FS_CountingElements
  <2>3. w \in Orders /\ IsList(w)
    BY <2>1, <2>2 DEF Orders, IsList, ListOf
  <2>4. ListIsWhole
    BY <2>3 DEF ListIsWhole
  <2>5. FoundStaysQueued
    BY <2>0 DEF FoundStaysQueued, InHand, JobThreads
  <2>6. WalkMissesNothing
    <3> SUFFICES ASSUME NEW t \in JobWorkers, jthr[t].pc = "find"
                 PROVE  \E k \in 1..(n + 1) : jthr[t].jp = AtPos(w, k) /\ \A i \in 1..(k - 1) : job[w[i]].j_id # t
      BY <2>2, <2>3 DEF WalkMissesNothing
    <3> QED
      BY <2>0, <2>1 DEF Walking, Passed, JobThreads
  <2> QED
    BY <2>4, <2>5, <2>6 DEF QueueIsSound
<1> QED
    BY <1>1, <1>2, JobInvStep, PTL DEF JobSpec

-----------------------------------------------------------------------------
(* ObjectTable: mutex1.c, mutex2.c and mutex3.c.                            *)

Makers == {"insert", "initialize"}
Releasers == {"hashlock", "recheck"}
FooPcs == Makers \cup Releasers \cup {"idle", "find", "free"}
Object == [f_id : FooIds, f_count : Nat, f_lock : FooThreads \cup {Nobody}, live : BOOLEAN, ready : BOOLEAN]
Places == [pc : FooPcs, fp : Nat]
MaxRefs == MaxFooCalls + MaxFoos

\* How many threads are at P with object o; how many references r counts.
Number(f, o, P) == Cardinality({t \in FooThreads : f[t].fp = o /\ f[t].pc \in P})
RefPairs(r) == {p \in FooThreads \X (1..MaxRefs) : p[2] <= r[p[1]]}
Refs(r) == Cardinality(RefPairs(r))
Counts == [FooThreads -> 0..MaxRefs]

\* Where one thread is, as a number.
Is(place, o, P) == IF place.fp = o /\ place.pc \in P THEN 1 ELSE 0
ThreadMoves(f, g, t, place) == f \in [FooThreads -> Places] /\ t \in FooThreads /\ place \in Places /\ g = [f EXCEPT ![t] = place]

NumberFollows(f, g, t, place, o, P) ==
    /\ Number(f, o, P) \in Nat /\ Number(g, o, P) \in Nat
    /\ Number(g, o, P) = Number(f, o, P) - Is(f[t], o, P) + Is(place, o, P)
    /\ Is(f[t], o, P) <= Number(f, o, P) /\ Is(place, o, P) <= Number(g, o, P)

\* One thread moves: the numbers follow.
LEMMA NumberMoves ==
    ASSUME NEW f, NEW g, NEW t, NEW place, NEW o, NEW P, ThreadMoves(f, g, t, place)
    PROVE  NumberFollows(f, g, t, place, o, P)
<1> DEFINE S == {u \in FooThreads : u # t /\ f[u].fp = o /\ f[u].pc \in P}
           X == {u \in FooThreads : f[u].fp = o /\ f[u].pc \in P}
           Y == {u \in FooThreads : g[u].fp = o /\ g[u].pc \in P}
<1>0. f \in [FooThreads -> Places] /\ t \in FooThreads /\ place \in Places /\ g = [f EXCEPT ![t] = place]
    BY DEF ThreadMoves
<1>1. IsFiniteSet(FooThreads)
    BY ObjectTableAssumption
<1>2. IsFiniteSet(S)
    BY <1>1, FS_Subset
<1>3. Cardinality(S) \in Nat /\ t \notin S
    BY <1>2, FS_CardinalityType
<1>4. Cardinality(S \cup {t}) = Cardinality(S) + 1
    BY <1>2, <1>3, FS_AddElement
<1>5. X = IF Is(f[t], o, P) = 1 THEN S \cup {t} ELSE S
    BY <1>0 DEF Is
<1>6. Y = IF Is(place, o, P) = 1 THEN S \cup {t} ELSE S
  <2>1. g[t] = place /\ \A u \in FooThreads : u # t => g[u] = f[u]
    BY <1>0
  <2> QED
    BY <2>1, <1>0 DEF Is
<1>7. Is(f[t], o, P) \in {0, 1} /\ Is(place, o, P) \in {0, 1}
    BY DEF Is
<1>8. Number(f, o, P) = Cardinality(X) /\ Number(g, o, P) = Cardinality(Y)
    BY DEF Number
<1> HIDE DEF S, X, Y
<1>9. Cardinality(X) = Cardinality(S) + Is(f[t], o, P)
    BY <1>3, <1>4, <1>5, <1>7
<1>10. Cardinality(Y) = Cardinality(S) + Is(place, o, P)
    BY <1>3, <1>4, <1>6, <1>7
<1> QED
    BY <1>3, <1>7, <1>8, <1>9, <1>10 DEF NumberFollows

\* A number is positive when somebody is there.
LEMMA NumberIsPositive ==
    ASSUME NEW f, NEW o, NEW P
    PROVE  /\ Number(f, o, P) \in Nat
           /\ Number(f, o, P) > 0 <=> \E t \in FooThreads : f[t].fp = o /\ f[t].pc \in P
<1> DEFINE X == {u \in FooThreads : f[u].fp = o /\ f[u].pc \in P}
<1>1. IsFiniteSet(X)
    BY ObjectTableAssumption, FS_Subset
<1>2. Cardinality(X) \in Nat
    BY <1>1, FS_CardinalityType
<1>3. Cardinality(X) = 0 <=> X = {}
    BY <1>1, FS_EmptySet
<1>4. Number(f, o, P) = Cardinality(X)
    BY DEF Number
<1>5. X # {} <=> \E t \in FooThreads : f[t].fp = o /\ f[t].pc \in P
    OBVIOUS
<1> HIDE DEF X
<1> QED
    BY <1>2, <1>3, <1>4, <1>5

\* A number of at most one is one thread.
LEMMA NumberIsOne ==
    ASSUME NEW f, NEW o, NEW P, Number(f, o, P) <= 1,
           NEW t \in FooThreads, NEW u \in FooThreads,
           f[t].fp = o, f[t].pc \in P, f[u].fp = o, f[u].pc \in P
    PROVE  t = u
<1> DEFINE X == {v \in FooThreads : f[v].fp = o /\ f[v].pc \in P}
<1>1. IsFiniteSet(X) /\ IsFiniteSet(X \ {t})
    BY ObjectTableAssumption, FS_Subset
<1>2. Cardinality(X) \in Nat /\ Cardinality(X \ {t}) \in Nat
    BY <1>1, FS_CardinalityType
<1>3. Number(f, o, P) = Cardinality(X) /\ t \in X /\ u \in X
    BY DEF Number
<1> HIDE DEF X
<1>4. Cardinality(X \ {t}) = Cardinality(X) - 1
    BY <1>1, <1>3, FS_RemoveElement
<1>5. Cardinality(X \ {t}) = 0
    BY <1>2, <1>3, <1>4
<1>6. X \ {t} = {}
    BY <1>1, <1>5, FS_EmptySet
<1> QED
    BY <1>3, <1>6

\* What is counted is finite.
LEMMA RefPairsFinite ==
    ASSUME NEW r PROVE IsFiniteSet(RefPairs(r)) /\ Refs(r) \in Nat
<1>1. IsFiniteSet(FooThreads) /\ IsFiniteSet(1..MaxRefs)
    BY ObjectTableAssumption, FS_Interval DEF MaxRefs
<1>2. IsFiniteSet(FooThreads \X (1..MaxRefs))
    BY <1>1, FS_Product
<1>3. IsFiniteSet(RefPairs(r))
    BY <1>2, FS_Subset DEF RefPairs
<1>4. Cardinality(RefPairs(r)) \in Nat
    BY <1>3, FS_CardinalityType
<1> QED
    BY <1>3, <1>4 DEF Refs

\* One more reference of a thread is one more reference.
LEMMA RefsGrow ==
    ASSUME NEW r \in Counts, NEW t \in FooThreads, r[t] < MaxRefs,
           NEW s, s = [r EXCEPT ![t] = r[t] + 1]
    PROVE  s \in Counts /\ Refs(s) = Refs(r) + 1
<1>0. MaxRefs \in Nat /\ r[t] \in 0..MaxRefs
    BY ObjectTableAssumption DEF MaxRefs, Counts
<1>1. s[t] = r[t] + 1 /\ \A u \in FooThreads : u # t => s[u] = r[u]
    BY DEF Counts
<1> DEFINE new == <<t, r[t] + 1>>
<1>2. new \in FooThreads \X (1..MaxRefs) /\ new[1] = t /\ new[2] = r[t] + 1
    BY <1>0
<1>3. new \notin RefPairs(r)
    BY <1>0, <1>2 DEF RefPairs
<1>4. RefPairs(s) = RefPairs(r) \cup {new}
  <2>1. ASSUME NEW p \in FooThreads \X (1..MaxRefs)
        PROVE  p \in RefPairs(s) <=> p \in RefPairs(r) \/ p = new
    <3>0. p = <<p[1], p[2]>> /\ p[1] \in FooThreads /\ p[2] \in 1..MaxRefs
      OBVIOUS
    <3>1. CASE p[1] # t
      BY <3>0, <3>1, <1>1, <1>2 DEF RefPairs
    <3>2. CASE p[1] = t
      <4>1. p \in RefPairs(s) <=> p[2] <= r[t] + 1
        BY <3>2, <1>1 DEF RefPairs
      <4>2. p \in RefPairs(r) <=> p[2] <= r[t]
        BY <3>2 DEF RefPairs
      <4>3. p = new <=> p[2] = r[t] + 1
        BY <3>0, <3>2, <1>2
      <4> HIDE DEF new
      <4> QED
        BY <4>1, <4>2, <4>3, <3>0, <1>0
    <3> QED
      BY <3>1, <3>2
  <2>2. RefPairs(s) \subseteq FooThreads \X (1..MaxRefs) /\ RefPairs(r) \subseteq FooThreads \X (1..MaxRefs)
    BY DEF RefPairs
  <2> HIDE DEF new
  <2> QED
    BY <2>1, <2>2, <1>2
<1> HIDE DEF new
<1>5. Cardinality(RefPairs(s)) = Cardinality(RefPairs(r)) + 1
    BY <1>3, <1>4, RefPairsFinite, FS_AddElement
<1>6. s \in Counts
    BY <1>0 DEF Counts
<1> QED
    BY <1>5, <1>6 DEF Refs

\* One less is one less.
LEMMA RefsShrink ==
    ASSUME NEW r \in Counts, NEW t \in FooThreads, r[t] > 0,
           NEW s, s = [r EXCEPT ![t] = r[t] - 1]
    PROVE  s \in Counts /\ Refs(s) = Refs(r) - 1 /\ Refs(r) > 0
<1>0. MaxRefs \in Nat /\ r[t] \in 0..MaxRefs
    BY ObjectTableAssumption DEF MaxRefs, Counts
<1>1. s \in Counts /\ s[t] = r[t] - 1 /\ s[t] < MaxRefs /\ s[t] + 1 = r[t]
    BY <1>0 DEF Counts
<1>2. r = [s EXCEPT ![t] = s[t] + 1]
    BY <1>1 DEF Counts
<1>3. Refs(r) = Refs(s) + 1
    BY <1>1, <1>2, RefsGrow
<1>4. Refs(r) \in Nat /\ Refs(s) \in Nat
    BY RefPairsFinite
<1> QED
    BY <1>1, <1>3, <1>4

\* No thread has more references than there are.
LEMMA RefsBound ==
    ASSUME NEW r \in Counts, NEW t \in FooThreads
    PROVE  r[t] <= Refs(r)
<1>0. MaxRefs \in Nat /\ r[t] \in 0..MaxRefs
    BY ObjectTableAssumption DEF MaxRefs, Counts
<1> DEFINE own == {<<t, i>> : i \in 1..r[t]}
           f == [i \in 1..r[t] |-> <<t, i>>]
<1>1. ExistsBijection(1..r[t], own)
  <2>1. f \in Bijection(1..r[t], own)
    BY DEF Bijection, Injection, Surjection, IsInjective
  <2> QED
    BY <2>1 DEF ExistsBijection
<1>2. Cardinality(own) = r[t]
    BY <1>0, <1>1, FS_CountingElements
<1>3. own \subseteq RefPairs(r)
    BY <1>0 DEF RefPairs
<1> HIDE DEF own
<1>4. Cardinality(own) <= Cardinality(RefPairs(r))
    BY <1>3, RefPairsFinite, FS_Subset
<1> QED
    BY <1>2, <1>4 DEF Refs

\* No references at all.
LEMMA NoRefs ==
    ASSUME NEW r \in Counts, \A t \in FooThreads : r[t] = 0 PROVE Refs(r) = 0
<1>1. RefPairs(r) = {}
    BY DEF RefPairs
<1> QED
    BY <1>1, FS_EmptySet DEF Refs

\* The books of one object: how its flags, its count and its place in the table go
\* with the numbers of threads that make it (after and before they put it
\* into the table), release it, free it and find it, and with the references to it.
Books(ver, x, ini, ins, rl, fr, fi, refs, linked, calls) ==
    /\ x.live => \/ fr = 0 /\ x.f_count = rl + refs + ini + ins /\ x.f_count > 0
                 \/ fr = 1 /\ rl + refs + ini + ins = 0
    /\ ~x.live => rl + refs + ini + ins + fr = 0
    /\ linked <=> (ver # "mutex1" /\ x.live /\ ins = 0 /\ fr = 0)
    /\ fi > 0 => linked /\ ver = "mutex2"
    /\ ~x.ready => ini + ins > 0
    /\ ver = "mutex2" /\ ini + ins > 0 => refs = 0
    /\ ini + ins <= 1
    /\ x.f_lock = Nobody => ini = 0
    /\ x.f_count + fi <= 1 + calls

Linked(s, o) == \E i \in 1..Len(s) : s[i] = o
RefsTo(fr, o) == [t \in FooThreads |-> fr[t][o]]

\* An object is sound when its books are right.
Sound(ver, x, o, f, r, linked, calls) ==
    Books(ver, x, Number(f, o, {"initialize"}), Number(f, o, {"insert"}), Number(f, o, Releasers),
          Number(f, o, {"free"}), Number(f, o, {"find"}), Refs(r), linked, calls)

FooTypes ==
    /\ version \in {"none", "mutex1", "mutex2", "mutex3"}
    /\ foo \in Seq(Object) /\ Len(foo) <= MaxFoos
    /\ hashlock \in FooThreads \cup {Nobody}
    /\ fthr \in [FooThreads -> Places]
    /\ frefs \in [FooThreads -> [Foos -> 0..MaxRefs]]
    /\ fcalls \in 0..MaxFooCalls

\* The table has objects, each once.
Chain(s, n) == s \in Seq(1..n) /\ \A i, j \in 1..Len(s) : s[i] = s[j] => i = j

\* Where a thread may be in which version, with which object.
PlaceIsRight(ver, n, place) ==
    /\ place.pc = "idle" <=> place.fp = 0
    /\ place.fp <= n
    /\ place.pc \in {"find", "hashlock", "recheck"} => ver = "mutex2"
    /\ place.pc \in Makers => ver \in {"mutex2", "mutex3"}

FooPlaces ==
    /\ \A t \in FooThreads : /\ PlaceIsRight(version, Len(foo), fthr[t])
                             /\ \A o \in Foos : o > Len(foo) => frefs[t][o] = 0
    /\ version = "none" => foo = <<>>

HashLocked == \A t \in FooThreads : fthr[t].pc \in {"find", "recheck"} => hashlock = t

Objects == \A o \in 1..Len(foo) :
              Sound(version, foo[o], o, fthr, RefsTo(frefs, o), Linked(fh, o), fcalls)

FooInv == FooTypes /\ Chain(fh, Len(foo)) /\ FooPlaces /\ HashLocked /\ Objects

\* A step that is about another object.
LEMMA Untouched ==
    ASSUME NEW f \in [FooThreads -> Places], NEW t \in FooThreads, NEW place \in Places,
           NEW g, g = [f EXCEPT ![t] = place], NEW o, f[t].fp # o, place.fp # o,
           NEW ver, NEW x \in Object, NEW r, NEW linked, NEW c \in Nat, NEW d \in Nat, c <= d,
           Sound(ver, x, o, f, r, linked, c)
    PROVE  Sound(ver, x, o, g, r, linked, d)
<1>1. ASSUME NEW P PROVE Number(g, o, P) = Number(f, o, P) /\ Number(g, o, P) \in Nat
  <2>1. Is(f[t], o, P) = 0 /\ Is(place, o, P) = 0
    BY DEF Is
  <2>2. /\ Number(f, o, P) \in Nat /\ Number(g, o, P) \in Nat
        /\ Number(g, o, P) = Number(f, o, P) - Is(f[t], o, P) + Is(place, o, P)
    <3>1. ThreadMoves(f, g, t, place)
      BY DEF ThreadMoves
    <3>2. NumberFollows(f, g, t, place, o, P)
      BY <3>1, NumberMoves
    <3> QED
      BY <3>2 DEF NumberFollows
  <2> QED
    BY <2>1, <2>2
<1>4. x.f_count \in Nat
    BY DEF Object
<1>5. Books(ver, x, Number(f, o, {"initialize"}), Number(f, o, {"insert"}), Number(f, o, Releasers),
            Number(f, o, {"free"}), Number(f, o, {"find"}), Refs(r), linked, c)
    BY DEF Sound
<1>6. /\ Number(g, o, {"initialize"}) = Number(f, o, {"initialize"}) /\ Number(g, o, {"insert"}) = Number(f, o, {"insert"})
      /\ Number(g, o, Releasers) = Number(f, o, Releasers) /\ Number(g, o, {"free"}) = Number(f, o, {"free"})
      /\ Number(g, o, {"find"}) = Number(f, o, {"find"}) /\ Number(g, o, {"find"}) \in Nat
    BY <1>1
<1>7. Books(ver, x, Number(g, o, {"initialize"}), Number(g, o, {"insert"}), Number(g, o, Releasers),
            Number(g, o, {"free"}), Number(g, o, {"find"}), Refs(r), linked, d)
  <2> DEFINE fi == Number(g, o, {"find"})
  <2>1. fi \in Nat
    BY <1>6
  <2>2. ASSUME NEW ini, NEW ins, NEW rl, NEW fr, NEW n \in Nat, NEW refs,
               Books(ver, x, ini, ins, rl, fr, n, refs, linked, c)
        PROVE  Books(ver, x, ini, ins, rl, fr, n, refs, linked, d)
    <3>1. x.f_count + n <= 1 + c
      BY <2>2 DEF Books
    <3>2. x.f_count + n <= 1 + d
      BY <3>1, <1>4
    <3> QED
      BY <2>2, <3>2 DEF Books
  <2> QED
    BY <2>1, <2>2, <1>5, <1>6
<1> QED
    BY <1>7 DEF Sound

\* One thread goes on, with one object: what has to be shown for the invariant is
\* the soundness of this object and what becomes of the table and its lock.
FooStepOf(t, place, o, x) ==
    /\ fthr' = [fthr EXCEPT ![t] = place]
    /\ fthr[t].fp \in {0, o} /\ place.fp \in {0, o} /\ PlaceIsRight(version, Len(foo), place)
    /\ foo' = [foo EXCEPT ![o] = x]
    /\ version' = version /\ fcalls' \in 0..MaxFooCalls /\ fcalls <= fcalls'
    /\ frefs' \in [FooThreads -> [Foos -> 0..MaxRefs]]
    /\ \A u \in FooThreads : \A p \in Foos \ {o} : frefs'[u][p] = frefs[u][p]
    /\ hashlock' \in FooThreads \cup {Nobody}
    /\ Chain(fh', Len(foo)) /\ \A p \in 1..Len(foo) : p # o => (Linked(fh', p) <=> Linked(fh, p))

\* Then the invariant is kept: the other objects have the same books.
LEMMA FooStep ==
    ASSUME FooInv, NEW t \in FooThreads, NEW place \in Places, NEW o \in 1..Len(foo), NEW x \in Object,
           FooStepOf(t, place, o, x), HashLocked',
           Sound(version, x, o, fthr', RefsTo(frefs', o), Linked(fh', o), fcalls')
    PROVE  FooInv'
<1>0. FooTypes /\ FooPlaces /\ Objects
    BY DEF FooInv
<1>1. foo \in Seq(Object) /\ Len(foo) \in Nat /\ Len(foo) <= MaxFoos /\ fthr \in [FooThreads -> Places] /\ fcalls \in Nat
      /\ MaxFoos \in Nat /\ MaxFooCalls \in Nat
    BY <1>0, ObjectTableAssumption DEF FooTypes
<1>2. foo' = [foo EXCEPT ![o] = x] /\ version' = version /\ fthr' = [fthr EXCEPT ![t] = place]
    BY DEF FooStepOf
<1>3. foo' \in Seq(Object) /\ Len(foo') = Len(foo) /\ foo'[o] = x
      /\ \A p \in 1..Len(foo) : p # o => foo'[p] = foo[p]
    BY <1>1, <1>2
<1>4. fthr' \in [FooThreads -> Places] /\ fthr'[t] = place /\ \A u \in FooThreads : u # t => fthr'[u] = fthr[u]
    BY <1>1, <1>2
<1>5. FooTypes'
    BY <1>0, <1>1, <1>3, <1>4 DEF FooStepOf, FooTypes
<1>6. Chain(fh', Len(foo'))
    BY <1>3 DEF FooStepOf
<1>7. FooPlaces'
  <2>1. \A u \in FooThreads : PlaceIsRight(version', Len(foo'), fthr'[u])
    BY <1>0, <1>2, <1>3, <1>4 DEF FooPlaces, FooStepOf
  <2>2. \A u \in FooThreads : \A p \in Foos : p > Len(foo') => frefs'[u][p] = 0
    <3> SUFFICES ASSUME NEW u \in FooThreads, NEW p \in Foos, p > Len(foo) PROVE frefs'[u][p] = 0
      BY <1>3
    <3>1. p # o
      BY <1>1 DEF Foos
    <3> QED
      BY <3>1, <1>0 DEF FooPlaces, FooStepOf
  <2>3. version' # "none"
    BY <1>0, <1>1, <1>2 DEF FooPlaces
  <2> QED
    BY <2>1, <2>2, <2>3 DEF FooPlaces
<1>8. Objects'
  <2> SUFFICES ASSUME NEW p \in 1..Len(foo)
               PROVE  Sound(version', foo'[p], p, fthr', RefsTo(frefs', p), Linked(fh', p), fcalls')
    BY <1>3 DEF Objects
  <2>1. CASE p = o
    BY <2>1, <1>2, <1>3
  <2>2. CASE p # o
    <3>1. Sound(version, foo[p], p, fthr, RefsTo(frefs, p), Linked(fh, p), fcalls)
      BY <1>0 DEF Objects
    <3>2. p \in Foos \ {o} /\ p # 0
      BY <2>2, <1>1 DEF Foos
    <3>3. RefsTo(frefs', p) = RefsTo(frefs, p)
      BY <3>2 DEF FooStepOf, RefsTo
    <3>4. Linked(fh', p) <=> Linked(fh, p)
      BY <2>2 DEF FooStepOf
    <3>5. fthr[t].fp # p /\ place.fp # p
      BY <2>2, <3>2 DEF FooStepOf
    <3>6. foo[p] \in Object /\ fcalls' \in Nat /\ fcalls <= fcalls'
      BY <1>1 DEF FooStepOf
    <3>7. Sound(version, foo[p], p, fthr', RefsTo(frefs, p), Linked(fh, p), fcalls')
      BY <3>1, <3>5, <3>6, <1>1, <1>2, Untouched
    <3>8. foo'[p] = foo[p]
      BY <2>2, <1>3
    <3>9. Linked(fh', p) = Linked(fh, p)
      BY <3>4 DEF Linked
    <3> QED
      BY <3>3, <3>7, <3>8, <3>9, <1>2
  <2> QED
    BY <2>1, <2>2
<1> QED
    BY <1>5, <1>6, <1>7, <1>8 DEF FooInv

\* What the books of o become when one thread moves from place p to place p2: the
\* numbers are those of the other threads.
BooksFollow(ver, x, y, o, p, p2, refs, refs2, linked, linked2, calls, calls2, nofinder) ==
    \A ini, ins, rl, fr, fi \in Nat :
       /\ nofinder => fi + Is(p, o, {"find"}) = 0
       /\ Books(ver, x, ini + Is(p, o, {"initialize"}), ins + Is(p, o, {"insert"}), rl + Is(p, o, Releasers),
                fr + Is(p, o, {"free"}), fi + Is(p, o, {"find"}), refs, linked, calls)
       => Books(ver, y, ini + Is(p2, o, {"initialize"}), ins + Is(p2, o, {"insert"}), rl + Is(p2, o, Releasers),
                fr + Is(p2, o, {"free"}), fi + Is(p2, o, {"find"}), refs2, linked2, calls2)

\* The other threads at P.
Others(f, t, o, P) == Number(f, o, P) - Is(f[t], o, P)

OthersStay(f, g, t, place, o, P) ==
    /\ Others(f, t, o, P) \in Nat
    /\ Number(f, o, P) = Others(f, t, o, P) + Is(f[t], o, P)
    /\ Number(g, o, P) = Others(f, t, o, P) + Is(place, o, P)

\* The numbers before and after a move, with that of the others.
LEMMA NumbersOfOthers ==
    ASSUME NEW f, NEW g, NEW t, NEW place, NEW o, NEW P, ThreadMoves(f, g, t, place)
    PROVE  OthersStay(f, g, t, place, o, P)
<1>1. NumberFollows(f, g, t, place, o, P)
    BY NumberMoves
<1>2. Is(f[t], o, P) \in {0, 1} /\ Is(place, o, P) \in {0, 1}
    BY DEF Is
<1> QED
    BY <1>1, <1>2 DEF NumberFollows, Others, OthersStay

\* The object of a step is sound when its books follow.
LEMMA SoundFollows ==
    ASSUME NEW f, NEW g, NEW t, NEW place, NEW o, ThreadMoves(f, g, t, place), NEW ver, NEW x, NEW y, NEW r, NEW s,
           NEW linked, NEW linked2, NEW calls, NEW calls2, NEW nofinder,
           Sound(ver, x, o, f, r, linked, calls), nofinder => Number(f, o, {"find"}) = 0,
           BooksFollow(ver, x, y, o, f[t], place, Refs(r), Refs(s), linked, linked2, calls, calls2, nofinder)
    PROVE  Sound(ver, y, o, g, s, linked2, calls2)
<1> DEFINE ini == Others(f, t, o, {"initialize"})
           ins == Others(f, t, o, {"insert"})
           rl == Others(f, t, o, Releasers)
           fr == Others(f, t, o, {"free"})
           fi == Others(f, t, o, {"find"})
<1>0. \A P : OthersStay(f, g, t, place, o, P)
    BY NumbersOfOthers
<1>1. ini \in Nat /\ Number(f, o, {"initialize"}) = ini + Is(f[t], o, {"initialize"}) /\ Number(g, o, {"initialize"}) = ini + Is(place, o, {"initialize"})
  <2>1. OthersStay(f, g, t, place, o, {"initialize"})
    BY <1>0
  <2> QED
    BY <2>1 DEF OthersStay
<1>2. ins \in Nat /\ Number(f, o, {"insert"}) = ins + Is(f[t], o, {"insert"})
      /\ Number(g, o, {"insert"}) = ins + Is(place, o, {"insert"})
  <2>1. OthersStay(f, g, t, place, o, {"insert"})
    BY <1>0
  <2> QED
    BY <2>1 DEF OthersStay
<1>3. rl \in Nat /\ Number(f, o, Releasers) = rl + Is(f[t], o, Releasers)
      /\ Number(g, o, Releasers) = rl + Is(place, o, Releasers)
  <2>1. OthersStay(f, g, t, place, o, Releasers)
    BY <1>0
  <2> QED
    BY <2>1 DEF OthersStay
<1>4. fr \in Nat /\ Number(f, o, {"free"}) = fr + Is(f[t], o, {"free"})
      /\ Number(g, o, {"free"}) = fr + Is(place, o, {"free"})
  <2>1. OthersStay(f, g, t, place, o, {"free"})
    BY <1>0
  <2> QED
    BY <2>1 DEF OthersStay
<1>5. fi \in Nat /\ Number(f, o, {"find"}) = fi + Is(f[t], o, {"find"})
      /\ Number(g, o, {"find"}) = fi + Is(place, o, {"find"})
  <2>1. OthersStay(f, g, t, place, o, {"find"})
    BY <1>0
  <2> QED
    BY <2>1 DEF OthersStay
<1> HIDE DEF ini, ins, rl, fr, fi
<1>6. Books(ver, x, ini + Is(f[t], o, {"initialize"}), ins + Is(f[t], o, {"insert"}), rl + Is(f[t], o, Releasers),
            fr + Is(f[t], o, {"free"}), fi + Is(f[t], o, {"find"}), Refs(r), linked, calls)
    BY <1>1, <1>2, <1>3, <1>4, <1>5 DEF Sound
<1>7. nofinder => fi + Is(f[t], o, {"find"}) = 0
    BY <1>5
<1>8. Books(ver, y, ini + Is(place, o, {"initialize"}), ins + Is(place, o, {"insert"}), rl + Is(place, o, Releasers),
            fr + Is(place, o, {"free"}), fi + Is(place, o, {"find"}), Refs(s), linked2, calls2)
    BY <1>1, <1>2, <1>3, <1>4, <1>5, <1>6, <1>7 DEF BooksFollow
<1> QED
    BY <1>1, <1>2, <1>3, <1>4, <1>5, <1>8 DEF Sound

\* One thread goes on, with one object, and the books of this object follow.
LEMMA FooMove ==
    ASSUME FooInv, NEW t \in FooThreads, NEW place \in Places, NEW o \in 1..Len(foo), NEW x \in Object,
           FooStepOf(t, place, o, x), HashLocked',
           NEW nofinder, nofinder => Number(fthr, o, {"find"}) = 0,
           BooksFollow(version, foo[o], x, o, fthr[t], place, Refs(RefsTo(frefs, o)), Refs(RefsTo(frefs', o)),
                       Linked(fh, o), Linked(fh', o), fcalls, fcalls', nofinder)
    PROVE  FooInv'
<1>1. fthr \in [FooThreads -> Places] /\ Sound(version, foo[o], o, fthr, RefsTo(frefs, o), Linked(fh, o), fcalls)
    BY DEF FooInv, FooTypes, Objects
<1>2. ThreadMoves(fthr, fthr', t, place)
    BY <1>1 DEF FooStepOf, ThreadMoves
<1>3. Sound(version, x, o, fthr', RefsTo(frefs', o), Linked(fh', o), fcalls')
    BY <1>1, <1>2, SoundFollows
<1> QED
    BY <1>3, FooStep

\* foo_hold: one more reference, and one more counted.
LEMMA BooksOfHold ==
    ASSUME NEW ver, NEW o, o # 0, NEW x \in Object, NEW refs \in Nat, NEW linked \in BOOLEAN, NEW calls \in Nat,
           refs > 0
    PROVE  BooksFollow(ver, x, [x EXCEPT !.f_count = x.f_count + 1], o, Idle,
                       Idle, refs, refs + 1, linked, linked, calls, calls + 1, FALSE)
<1> DEFINE y == [x EXCEPT !.f_count = x.f_count + 1]
           p == Idle
           p2 == Idle
<1>1. Is(p, o, {"initialize"}) = 0 /\ Is(p, o, {"insert"}) = 0 /\ Is(p, o, Releasers) = 0 /\ Is(p, o, {"free"}) = 0 /\ Is(p, o, {"find"}) = 0
    BY DEF Is, Idle, Releasers
<1>2. Is(p2, o, {"initialize"}) = 0 /\ Is(p2, o, {"insert"}) = 0 /\ Is(p2, o, Releasers) = 0 /\ Is(p2, o, {"free"}) = 0 /\ Is(p2, o, {"find"}) = 0
    BY DEF Is, Idle, Releasers
<1>3. /\ x.f_count \in Nat /\ x.live \in BOOLEAN /\ x.ready \in BOOLEAN
      /\ y.f_count = x.f_count + 1 /\ y.f_lock = x.f_lock /\ y.live = x.live /\ y.ready = x.ready
    BY DEF Object
<1> HIDE DEF y, p, p2
<1>4. ASSUME NEW ini \in Nat, NEW ins \in Nat, NEW rl \in Nat, NEW fr \in Nat, NEW fi \in Nat,
             Books(ver, x, ini, ins, rl, fr, fi, refs, linked, calls)
      PROVE  Books(ver, y, ini, ins, rl, fr, fi, refs + 1, linked, calls + 1)
    BY <1>3, <1>4 DEF Books, Nobody
<1>5. BooksFollow(ver, x, y, o, p, p2, refs, refs + 1, linked, linked, calls, calls + 1, FALSE)
  <2> SUFFICES ASSUME NEW ini \in Nat, NEW ins \in Nat, NEW rl \in Nat, NEW fr \in Nat, NEW fi \in Nat,
                      Books(ver, x, ini + Is(p, o, {"initialize"}), ins + Is(p, o, {"insert"}), rl + Is(p, o, Releasers), fr + Is(p, o, {"free"}), fi + Is(p, o, {"find"}), refs, linked, calls)
               PROVE  Books(ver, y, ini + Is(p2, o, {"initialize"}), ins + Is(p2, o, {"insert"}), rl + Is(p2, o, Releasers), fr + Is(p2, o, {"free"}), fi + Is(p2, o, {"find"}), refs + 1, linked, calls + 1)
    BY DEF BooksFollow
  <2>1. ini + Is(p, o, {"initialize"}) = ini /\ ins + Is(p, o, {"insert"}) = ins /\ rl + Is(p, o, Releasers) = rl /\ fr + Is(p, o, {"free"}) = fr /\ fi + Is(p, o, {"find"}) = fi
    BY <1>1
  <2>2. ini + Is(p2, o, {"initialize"}) = ini /\ ins + Is(p2, o, {"insert"}) = ins /\ rl + Is(p2, o, Releasers) = rl /\ fr + Is(p2, o, {"free"}) = fr /\ fi + Is(p2, o, {"find"}) = fi
    BY <1>2
  <2>3. Books(ver, x, ini, ins, rl, fr, fi, refs, linked, calls)
    BY <2>1
  <2>4. Books(ver, y, ini, ins, rl, fr, fi, refs + 1, linked, calls + 1)
    BY <1>4, <2>3
  <2> QED
    BY <2>2, <2>4
<1> QED
    BY <1>5 DEF y, p, p2

\* A reference is handed over: nothing is counted.
LEMMA BooksOfHandOver ==
    ASSUME NEW ver, NEW o, o # 0, NEW x \in Object, NEW refs \in Nat, NEW linked \in BOOLEAN, NEW calls \in Nat
    PROVE  BooksFollow(ver, x, x, o, Idle,
                       Idle, refs, refs, linked, linked, calls, calls, FALSE)
<1> DEFINE y == x
           p == Idle
           p2 == Idle
<1>1. Is(p, o, {"initialize"}) = 0 /\ Is(p, o, {"insert"}) = 0 /\ Is(p, o, Releasers) = 0 /\ Is(p, o, {"free"}) = 0 /\ Is(p, o, {"find"}) = 0
    BY DEF Is, Idle, Releasers
<1>2. Is(p2, o, {"initialize"}) = 0 /\ Is(p2, o, {"insert"}) = 0 /\ Is(p2, o, Releasers) = 0 /\ Is(p2, o, {"free"}) = 0 /\ Is(p2, o, {"find"}) = 0
    BY DEF Is, Idle, Releasers
<1>3. /\ x.f_count \in Nat /\ x.live \in BOOLEAN /\ x.ready \in BOOLEAN
      /\ y.f_count = x.f_count /\ y.f_lock = x.f_lock /\ y.live = x.live /\ y.ready = x.ready
    BY DEF Object
<1> HIDE DEF y, p, p2
<1>4. ASSUME NEW ini \in Nat, NEW ins \in Nat, NEW rl \in Nat, NEW fr \in Nat, NEW fi \in Nat,
             Books(ver, x, ini, ins, rl, fr, fi, refs, linked, calls)
      PROVE  Books(ver, y, ini, ins, rl, fr, fi, refs, linked, calls)
    BY <1>3, <1>4 DEF Books, Nobody
<1>5. BooksFollow(ver, x, y, o, p, p2, refs, refs, linked, linked, calls, calls, FALSE)
  <2> SUFFICES ASSUME NEW ini \in Nat, NEW ins \in Nat, NEW rl \in Nat, NEW fr \in Nat, NEW fi \in Nat,
                      Books(ver, x, ini + Is(p, o, {"initialize"}), ins + Is(p, o, {"insert"}), rl + Is(p, o, Releasers), fr + Is(p, o, {"free"}), fi + Is(p, o, {"find"}), refs, linked, calls)
               PROVE  Books(ver, y, ini + Is(p2, o, {"initialize"}), ins + Is(p2, o, {"insert"}), rl + Is(p2, o, Releasers), fr + Is(p2, o, {"free"}), fi + Is(p2, o, {"find"}), refs, linked, calls)
    BY DEF BooksFollow
  <2>1. ini + Is(p, o, {"initialize"}) = ini /\ ins + Is(p, o, {"insert"}) = ins /\ rl + Is(p, o, Releasers) = rl /\ fr + Is(p, o, {"free"}) = fr /\ fi + Is(p, o, {"find"}) = fi
    BY <1>1
  <2>2. ini + Is(p2, o, {"initialize"}) = ini /\ ins + Is(p2, o, {"insert"}) = ins /\ rl + Is(p2, o, Releasers) = rl /\ fr + Is(p2, o, {"free"}) = fr /\ fi + Is(p2, o, {"find"}) = fi
    BY <1>2
  <2>3. Books(ver, x, ini, ins, rl, fr, fi, refs, linked, calls)
    BY <2>1
  <2>4. Books(ver, y, ini, ins, rl, fr, fi, refs, linked, calls)
    BY <1>4, <2>3
  <2> QED
    BY <2>2, <2>4
<1> QED
    BY <1>5 DEF y, p, p2

\* foo_find finds nothing: only the call counts.
LEMMA BooksOfCall ==
    ASSUME NEW ver, NEW o, o # 0, NEW x \in Object, NEW refs \in Nat, NEW linked \in BOOLEAN, NEW calls \in Nat
    PROVE  BooksFollow(ver, x, x, o, Idle,
                       Idle, refs, refs, linked, linked, calls, calls + 1, FALSE)
<1> DEFINE y == x
           p == Idle
           p2 == Idle
<1>1. Is(p, o, {"initialize"}) = 0 /\ Is(p, o, {"insert"}) = 0 /\ Is(p, o, Releasers) = 0 /\ Is(p, o, {"free"}) = 0 /\ Is(p, o, {"find"}) = 0
    BY DEF Is, Idle, Releasers
<1>2. Is(p2, o, {"initialize"}) = 0 /\ Is(p2, o, {"insert"}) = 0 /\ Is(p2, o, Releasers) = 0 /\ Is(p2, o, {"free"}) = 0 /\ Is(p2, o, {"find"}) = 0
    BY DEF Is, Idle, Releasers
<1>3. /\ x.f_count \in Nat /\ x.live \in BOOLEAN /\ x.ready \in BOOLEAN
      /\ y.f_count = x.f_count /\ y.f_lock = x.f_lock /\ y.live = x.live /\ y.ready = x.ready
    BY DEF Object
<1> HIDE DEF y, p, p2
<1>4. ASSUME NEW ini \in Nat, NEW ins \in Nat, NEW rl \in Nat, NEW fr \in Nat, NEW fi \in Nat,
             Books(ver, x, ini, ins, rl, fr, fi, refs, linked, calls)
      PROVE  Books(ver, y, ini, ins, rl, fr, fi, refs, linked, calls + 1)
    BY <1>3, <1>4 DEF Books, Nobody
<1>5. BooksFollow(ver, x, y, o, p, p2, refs, refs, linked, linked, calls, calls + 1, FALSE)
  <2> SUFFICES ASSUME NEW ini \in Nat, NEW ins \in Nat, NEW rl \in Nat, NEW fr \in Nat, NEW fi \in Nat,
                      Books(ver, x, ini + Is(p, o, {"initialize"}), ins + Is(p, o, {"insert"}), rl + Is(p, o, Releasers), fr + Is(p, o, {"free"}), fi + Is(p, o, {"find"}), refs, linked, calls)
               PROVE  Books(ver, y, ini + Is(p2, o, {"initialize"}), ins + Is(p2, o, {"insert"}), rl + Is(p2, o, Releasers), fr + Is(p2, o, {"free"}), fi + Is(p2, o, {"find"}), refs, linked, calls + 1)
    BY DEF BooksFollow
  <2>1. ini + Is(p, o, {"initialize"}) = ini /\ ins + Is(p, o, {"insert"}) = ins /\ rl + Is(p, o, Releasers) = rl /\ fr + Is(p, o, {"free"}) = fr /\ fi + Is(p, o, {"find"}) = fi
    BY <1>1
  <2>2. ini + Is(p2, o, {"initialize"}) = ini /\ ins + Is(p2, o, {"insert"}) = ins /\ rl + Is(p2, o, Releasers) = rl /\ fr + Is(p2, o, {"free"}) = fr /\ fi + Is(p2, o, {"find"}) = fi
    BY <1>2
  <2>3. Books(ver, x, ini, ins, rl, fr, fi, refs, linked, calls)
    BY <2>1
  <2>4. Books(ver, y, ini, ins, rl, fr, fi, refs, linked, calls + 1)
    BY <1>4, <2>3
  <2> QED
    BY <2>2, <2>4
<1> QED
    BY <1>5 DEF y, p, p2

\* foo_alloc puts the object into the table, locked.
LEMMA BooksOfInsert ==
    ASSUME NEW ver, NEW o, o # 0, NEW x \in Object, NEW refs \in Nat, NEW linked \in BOOLEAN, NEW calls \in Nat,
           ver # "mutex1", NEW u, u # Nobody
    PROVE  BooksFollow(ver, x, [x EXCEPT !.f_lock = u], o, [pc |-> "insert", fp |-> o],
                       [pc |-> "initialize", fp |-> o], refs, refs, linked, TRUE, calls, calls, FALSE)
<1> DEFINE y == [x EXCEPT !.f_lock = u]
           p == [pc |-> "insert", fp |-> o]
           p2 == [pc |-> "initialize", fp |-> o]
<1>1. Is(p, o, {"initialize"}) = 0 /\ Is(p, o, {"insert"}) = 1 /\ Is(p, o, Releasers) = 0 /\ Is(p, o, {"free"}) = 0 /\ Is(p, o, {"find"}) = 0
    BY DEF Is, Idle, Releasers
<1>2. Is(p2, o, {"initialize"}) = 1 /\ Is(p2, o, {"insert"}) = 0 /\ Is(p2, o, Releasers) = 0 /\ Is(p2, o, {"free"}) = 0 /\ Is(p2, o, {"find"}) = 0
    BY DEF Is, Idle, Releasers
<1>3. /\ x.f_count \in Nat /\ x.live \in BOOLEAN /\ x.ready \in BOOLEAN
      /\ y.f_count = x.f_count /\ y.f_lock = u /\ y.live = x.live /\ y.ready = x.ready
    BY DEF Object
<1> HIDE DEF y, p, p2
<1>4. ASSUME NEW ini \in Nat, NEW ins \in Nat, NEW rl \in Nat, NEW fr \in Nat, NEW fi \in Nat,
             Books(ver, x, ini, ins + 1, rl, fr, fi, refs, linked, calls)
      PROVE  Books(ver, y, ini + 1, ins, rl, fr, fi, refs, TRUE, calls)
    BY <1>3, <1>4 DEF Books, Nobody
<1>5. BooksFollow(ver, x, y, o, p, p2, refs, refs, linked, TRUE, calls, calls, FALSE)
  <2> SUFFICES ASSUME NEW ini \in Nat, NEW ins \in Nat, NEW rl \in Nat, NEW fr \in Nat, NEW fi \in Nat,
                      Books(ver, x, ini + Is(p, o, {"initialize"}), ins + Is(p, o, {"insert"}), rl + Is(p, o, Releasers), fr + Is(p, o, {"free"}), fi + Is(p, o, {"find"}), refs, linked, calls)
               PROVE  Books(ver, y, ini + Is(p2, o, {"initialize"}), ins + Is(p2, o, {"insert"}), rl + Is(p2, o, Releasers), fr + Is(p2, o, {"free"}), fi + Is(p2, o, {"find"}), refs, TRUE, calls)
    BY DEF BooksFollow
  <2>1. ini + Is(p, o, {"initialize"}) = ini /\ ins + Is(p, o, {"insert"}) = ins + 1 /\ rl + Is(p, o, Releasers) = rl /\ fr + Is(p, o, {"free"}) = fr /\ fi + Is(p, o, {"find"}) = fi
    BY <1>1
  <2>2. ini + Is(p2, o, {"initialize"}) = ini + 1 /\ ins + Is(p2, o, {"insert"}) = ins /\ rl + Is(p2, o, Releasers) = rl /\ fr + Is(p2, o, {"free"}) = fr /\ fi + Is(p2, o, {"find"}) = fi
    BY <1>2
  <2>3. Books(ver, x, ini, ins + 1, rl, fr, fi, refs, linked, calls)
    BY <2>1
  <2>4. Books(ver, y, ini + 1, ins, rl, fr, fi, refs, TRUE, calls)
    BY <1>4, <2>3
  <2> QED
    BY <2>2, <2>4
<1> QED
    BY <1>5 DEF y, p, p2

\* foo_alloc returns the object: who made it has the reference.
LEMMA BooksOfInitialized ==
    ASSUME NEW ver, NEW o, o # 0, NEW x \in Object, NEW refs \in Nat, NEW linked \in BOOLEAN, NEW calls \in Nat
    PROVE  BooksFollow(ver, x, [x EXCEPT !.ready = TRUE, !.f_lock = Nobody], o, [pc |-> "initialize", fp |-> o],
                       Idle, refs, refs + 1, linked, linked, calls, calls, FALSE)
<1> DEFINE y == [x EXCEPT !.ready = TRUE, !.f_lock = Nobody]
           p == [pc |-> "initialize", fp |-> o]
           p2 == Idle
<1>1. Is(p, o, {"initialize"}) = 1 /\ Is(p, o, {"insert"}) = 0 /\ Is(p, o, Releasers) = 0 /\ Is(p, o, {"free"}) = 0 /\ Is(p, o, {"find"}) = 0
    BY DEF Is, Idle, Releasers
<1>2. Is(p2, o, {"initialize"}) = 0 /\ Is(p2, o, {"insert"}) = 0 /\ Is(p2, o, Releasers) = 0 /\ Is(p2, o, {"free"}) = 0 /\ Is(p2, o, {"find"}) = 0
    BY DEF Is, Idle, Releasers
<1>3. /\ x.f_count \in Nat /\ x.live \in BOOLEAN /\ x.ready \in BOOLEAN
      /\ y.f_count = x.f_count /\ y.f_lock = Nobody /\ y.live = x.live /\ y.ready = TRUE
    BY DEF Object
<1> HIDE DEF y, p, p2
<1>4. ASSUME NEW ini \in Nat, NEW ins \in Nat, NEW rl \in Nat, NEW fr \in Nat, NEW fi \in Nat,
             Books(ver, x, ini + 1, ins, rl, fr, fi, refs, linked, calls)
      PROVE  Books(ver, y, ini, ins, rl, fr, fi, refs + 1, linked, calls)
    BY <1>3, <1>4 DEF Books, Nobody
<1>5. BooksFollow(ver, x, y, o, p, p2, refs, refs + 1, linked, linked, calls, calls, FALSE)
  <2> SUFFICES ASSUME NEW ini \in Nat, NEW ins \in Nat, NEW rl \in Nat, NEW fr \in Nat, NEW fi \in Nat,
                      Books(ver, x, ini + Is(p, o, {"initialize"}), ins + Is(p, o, {"insert"}), rl + Is(p, o, Releasers), fr + Is(p, o, {"free"}), fi + Is(p, o, {"find"}), refs, linked, calls)
               PROVE  Books(ver, y, ini + Is(p2, o, {"initialize"}), ins + Is(p2, o, {"insert"}), rl + Is(p2, o, Releasers), fr + Is(p2, o, {"free"}), fi + Is(p2, o, {"find"}), refs + 1, linked, calls)
    BY DEF BooksFollow
  <2>1. ini + Is(p, o, {"initialize"}) = ini + 1 /\ ins + Is(p, o, {"insert"}) = ins /\ rl + Is(p, o, Releasers) = rl /\ fr + Is(p, o, {"free"}) = fr /\ fi + Is(p, o, {"find"}) = fi
    BY <1>1
  <2>2. ini + Is(p2, o, {"initialize"}) = ini /\ ins + Is(p2, o, {"insert"}) = ins /\ rl + Is(p2, o, Releasers) = rl /\ fr + Is(p2, o, {"free"}) = fr /\ fi + Is(p2, o, {"find"}) = fi
    BY <1>2
  <2>3. Books(ver, x, ini + 1, ins, rl, fr, fi, refs, linked, calls)
    BY <2>1
  <2>4. Books(ver, y, ini, ins, rl, fr, fi, refs + 1, linked, calls)
    BY <1>4, <2>3
  <2> QED
    BY <2>2, <2>4
<1> QED
    BY <1>5 DEF y, p, p2

\* foo_find of mutex2 finds the object in the table.
LEMMA BooksOfFind ==
    ASSUME NEW ver, NEW o, o # 0, NEW x \in Object, NEW refs \in Nat, NEW linked \in BOOLEAN, NEW calls \in Nat,
           ver = "mutex2", linked
    PROVE  BooksFollow(ver, x, x, o, Idle,
                       [pc |-> "find", fp |-> o], refs, refs, linked, linked, calls, calls + 1, FALSE)
<1> DEFINE y == x
           p == Idle
           p2 == [pc |-> "find", fp |-> o]
<1>1. Is(p, o, {"initialize"}) = 0 /\ Is(p, o, {"insert"}) = 0 /\ Is(p, o, Releasers) = 0 /\ Is(p, o, {"free"}) = 0 /\ Is(p, o, {"find"}) = 0
    BY DEF Is, Idle, Releasers
<1>2. Is(p2, o, {"initialize"}) = 0 /\ Is(p2, o, {"insert"}) = 0 /\ Is(p2, o, Releasers) = 0 /\ Is(p2, o, {"free"}) = 0 /\ Is(p2, o, {"find"}) = 1
    BY DEF Is, Idle, Releasers
<1>3. /\ x.f_count \in Nat /\ x.live \in BOOLEAN /\ x.ready \in BOOLEAN
      /\ y.f_count = x.f_count /\ y.f_lock = x.f_lock /\ y.live = x.live /\ y.ready = x.ready
    BY DEF Object
<1> HIDE DEF y, p, p2
<1>4. ASSUME NEW ini \in Nat, NEW ins \in Nat, NEW rl \in Nat, NEW fr \in Nat, NEW fi \in Nat,
             Books(ver, x, ini, ins, rl, fr, fi, refs, linked, calls)
      PROVE  Books(ver, y, ini, ins, rl, fr, fi + 1, refs, linked, calls + 1)
    BY <1>3, <1>4 DEF Books, Nobody
<1>5. BooksFollow(ver, x, y, o, p, p2, refs, refs, linked, linked, calls, calls + 1, FALSE)
  <2> SUFFICES ASSUME NEW ini \in Nat, NEW ins \in Nat, NEW rl \in Nat, NEW fr \in Nat, NEW fi \in Nat,
                      Books(ver, x, ini + Is(p, o, {"initialize"}), ins + Is(p, o, {"insert"}), rl + Is(p, o, Releasers), fr + Is(p, o, {"free"}), fi + Is(p, o, {"find"}), refs, linked, calls)
               PROVE  Books(ver, y, ini + Is(p2, o, {"initialize"}), ins + Is(p2, o, {"insert"}), rl + Is(p2, o, Releasers), fr + Is(p2, o, {"free"}), fi + Is(p2, o, {"find"}), refs, linked, calls + 1)
    BY DEF BooksFollow
  <2>1. ini + Is(p, o, {"initialize"}) = ini /\ ins + Is(p, o, {"insert"}) = ins /\ rl + Is(p, o, Releasers) = rl /\ fr + Is(p, o, {"free"}) = fr /\ fi + Is(p, o, {"find"}) = fi
    BY <1>1
  <2>2. ini + Is(p2, o, {"initialize"}) = ini /\ ins + Is(p2, o, {"insert"}) = ins /\ rl + Is(p2, o, Releasers) = rl /\ fr + Is(p2, o, {"free"}) = fr /\ fi + Is(p2, o, {"find"}) = fi + 1
    BY <1>2
  <2>3. Books(ver, x, ini, ins, rl, fr, fi, refs, linked, calls)
    BY <2>1
  <2>4. Books(ver, y, ini, ins, rl, fr, fi + 1, refs, linked, calls + 1)
    BY <1>4, <2>3
  <2> QED
    BY <2>2, <2>4
<1> QED
    BY <1>5 DEF y, p, p2

\* foo_find of mutex3 finds and counts at once.
LEMMA BooksOfFind3 ==
    ASSUME NEW ver, NEW o, o # 0, NEW x \in Object, NEW refs \in Nat, NEW linked \in BOOLEAN, NEW calls \in Nat,
           ver = "mutex3", linked
    PROVE  BooksFollow(ver, x, [x EXCEPT !.f_count = x.f_count + 1], o, Idle,
                       Idle, refs, refs + 1, linked, linked, calls, calls + 1, FALSE)
<1> DEFINE y == [x EXCEPT !.f_count = x.f_count + 1]
           p == Idle
           p2 == Idle
<1>1. Is(p, o, {"initialize"}) = 0 /\ Is(p, o, {"insert"}) = 0 /\ Is(p, o, Releasers) = 0 /\ Is(p, o, {"free"}) = 0 /\ Is(p, o, {"find"}) = 0
    BY DEF Is, Idle, Releasers
<1>2. Is(p2, o, {"initialize"}) = 0 /\ Is(p2, o, {"insert"}) = 0 /\ Is(p2, o, Releasers) = 0 /\ Is(p2, o, {"free"}) = 0 /\ Is(p2, o, {"find"}) = 0
    BY DEF Is, Idle, Releasers
<1>3. /\ x.f_count \in Nat /\ x.live \in BOOLEAN /\ x.ready \in BOOLEAN
      /\ y.f_count = x.f_count + 1 /\ y.f_lock = x.f_lock /\ y.live = x.live /\ y.ready = x.ready
    BY DEF Object
<1> HIDE DEF y, p, p2
<1>4. ASSUME NEW ini \in Nat, NEW ins \in Nat, NEW rl \in Nat, NEW fr \in Nat, NEW fi \in Nat,
             Books(ver, x, ini, ins, rl, fr, fi, refs, linked, calls)
      PROVE  Books(ver, y, ini, ins, rl, fr, fi, refs + 1, linked, calls + 1)
    BY <1>3, <1>4 DEF Books, Nobody
<1>5. BooksFollow(ver, x, y, o, p, p2, refs, refs + 1, linked, linked, calls, calls + 1, FALSE)
  <2> SUFFICES ASSUME NEW ini \in Nat, NEW ins \in Nat, NEW rl \in Nat, NEW fr \in Nat, NEW fi \in Nat,
                      Books(ver, x, ini + Is(p, o, {"initialize"}), ins + Is(p, o, {"insert"}), rl + Is(p, o, Releasers), fr + Is(p, o, {"free"}), fi + Is(p, o, {"find"}), refs, linked, calls)
               PROVE  Books(ver, y, ini + Is(p2, o, {"initialize"}), ins + Is(p2, o, {"insert"}), rl + Is(p2, o, Releasers), fr + Is(p2, o, {"free"}), fi + Is(p2, o, {"find"}), refs + 1, linked, calls + 1)
    BY DEF BooksFollow
  <2>1. ini + Is(p, o, {"initialize"}) = ini /\ ins + Is(p, o, {"insert"}) = ins /\ rl + Is(p, o, Releasers) = rl /\ fr + Is(p, o, {"free"}) = fr /\ fi + Is(p, o, {"find"}) = fi
    BY <1>1
  <2>2. ini + Is(p2, o, {"initialize"}) = ini /\ ins + Is(p2, o, {"insert"}) = ins /\ rl + Is(p2, o, Releasers) = rl /\ fr + Is(p2, o, {"free"}) = fr /\ fi + Is(p2, o, {"find"}) = fi
    BY <1>2
  <2>3. Books(ver, x, ini, ins, rl, fr, fi, refs, linked, calls)
    BY <2>1
  <2>4. Books(ver, y, ini, ins, rl, fr, fi, refs + 1, linked, calls + 1)
    BY <1>4, <2>3
  <2> QED
    BY <2>2, <2>4
<1> QED
    BY <1>5 DEF y, p, p2

\* foo_find of mutex2 counts: nobody makes an object that is in the table and not locked.
LEMMA BooksOfFound ==
    ASSUME NEW ver, NEW o, o # 0, NEW x \in Object, NEW refs \in Nat, NEW linked \in BOOLEAN, NEW calls \in Nat,
           x.f_lock = Nobody
    PROVE  BooksFollow(ver, x, [x EXCEPT !.f_count = x.f_count + 1], o, [pc |-> "find", fp |-> o],
                       Idle, refs, refs + 1, linked, linked, calls, calls, FALSE)
<1> DEFINE y == [x EXCEPT !.f_count = x.f_count + 1]
           p == [pc |-> "find", fp |-> o]
           p2 == Idle
<1>1. Is(p, o, {"initialize"}) = 0 /\ Is(p, o, {"insert"}) = 0 /\ Is(p, o, Releasers) = 0 /\ Is(p, o, {"free"}) = 0 /\ Is(p, o, {"find"}) = 1
    BY DEF Is, Idle, Releasers
<1>2. Is(p2, o, {"initialize"}) = 0 /\ Is(p2, o, {"insert"}) = 0 /\ Is(p2, o, Releasers) = 0 /\ Is(p2, o, {"free"}) = 0 /\ Is(p2, o, {"find"}) = 0
    BY DEF Is, Idle, Releasers
<1>3. /\ x.f_count \in Nat /\ x.live \in BOOLEAN /\ x.ready \in BOOLEAN
      /\ y.f_count = x.f_count + 1 /\ y.f_lock = x.f_lock /\ y.live = x.live /\ y.ready = x.ready
    BY DEF Object
<1> HIDE DEF y, p, p2
<1>4. ASSUME NEW ini \in Nat, NEW ins \in Nat, NEW rl \in Nat, NEW fr \in Nat, NEW fi \in Nat,
             Books(ver, x, ini, ins, rl, fr, fi + 1, refs, linked, calls)
      PROVE  Books(ver, y, ini, ins, rl, fr, fi, refs + 1, linked, calls)
    BY <1>3, <1>4 DEF Books, Nobody
<1>5. BooksFollow(ver, x, y, o, p, p2, refs, refs + 1, linked, linked, calls, calls, FALSE)
  <2> SUFFICES ASSUME NEW ini \in Nat, NEW ins \in Nat, NEW rl \in Nat, NEW fr \in Nat, NEW fi \in Nat,
                      Books(ver, x, ini + Is(p, o, {"initialize"}), ins + Is(p, o, {"insert"}), rl + Is(p, o, Releasers), fr + Is(p, o, {"free"}), fi + Is(p, o, {"find"}), refs, linked, calls)
               PROVE  Books(ver, y, ini + Is(p2, o, {"initialize"}), ins + Is(p2, o, {"insert"}), rl + Is(p2, o, Releasers), fr + Is(p2, o, {"free"}), fi + Is(p2, o, {"find"}), refs + 1, linked, calls)
    BY DEF BooksFollow
  <2>1. ini + Is(p, o, {"initialize"}) = ini /\ ins + Is(p, o, {"insert"}) = ins /\ rl + Is(p, o, Releasers) = rl /\ fr + Is(p, o, {"free"}) = fr /\ fi + Is(p, o, {"find"}) = fi + 1
    BY <1>1
  <2>2. ini + Is(p2, o, {"initialize"}) = ini /\ ins + Is(p2, o, {"insert"}) = ins /\ rl + Is(p2, o, Releasers) = rl /\ fr + Is(p2, o, {"free"}) = fr /\ fi + Is(p2, o, {"find"}) = fi
    BY <1>2
  <2>3. Books(ver, x, ini, ins, rl, fr, fi + 1, refs, linked, calls)
    BY <2>1
  <2>4. Books(ver, y, ini, ins, rl, fr, fi, refs + 1, linked, calls)
    BY <1>4, <2>3
  <2> QED
    BY <2>2, <2>4
<1> QED
    BY <1>5 DEF y, p, p2

\* foo_rele where others have references too.
LEMMA BooksOfDown ==
    ASSUME NEW ver, NEW o, o # 0, NEW x \in Object, NEW refs \in Nat, NEW linked \in BOOLEAN, NEW calls \in Nat,
           refs > 0, x.f_count # 1
    PROVE  BooksFollow(ver, x, [x EXCEPT !.f_count = x.f_count - 1], o, Idle,
                       Idle, refs, refs - 1, linked, linked, calls, calls, FALSE)
<1> DEFINE y == [x EXCEPT !.f_count = x.f_count - 1]
           p == Idle
           p2 == Idle
<1>1. Is(p, o, {"initialize"}) = 0 /\ Is(p, o, {"insert"}) = 0 /\ Is(p, o, Releasers) = 0 /\ Is(p, o, {"free"}) = 0 /\ Is(p, o, {"find"}) = 0
    BY DEF Is, Idle, Releasers
<1>2. Is(p2, o, {"initialize"}) = 0 /\ Is(p2, o, {"insert"}) = 0 /\ Is(p2, o, Releasers) = 0 /\ Is(p2, o, {"free"}) = 0 /\ Is(p2, o, {"find"}) = 0
    BY DEF Is, Idle, Releasers
<1>3. /\ x.f_count \in Nat /\ x.live \in BOOLEAN /\ x.ready \in BOOLEAN
      /\ y.f_count = x.f_count - 1 /\ y.f_lock = x.f_lock /\ y.live = x.live /\ y.ready = x.ready
    BY DEF Object
<1> HIDE DEF y, p, p2
<1>4. ASSUME NEW ini \in Nat, NEW ins \in Nat, NEW rl \in Nat, NEW fr \in Nat, NEW fi \in Nat,
             Books(ver, x, ini, ins, rl, fr, fi, refs, linked, calls)
      PROVE  Books(ver, y, ini, ins, rl, fr, fi, refs - 1, linked, calls)
    BY <1>3, <1>4 DEF Books, Nobody
<1>5. BooksFollow(ver, x, y, o, p, p2, refs, refs - 1, linked, linked, calls, calls, FALSE)
  <2> SUFFICES ASSUME NEW ini \in Nat, NEW ins \in Nat, NEW rl \in Nat, NEW fr \in Nat, NEW fi \in Nat,
                      Books(ver, x, ini + Is(p, o, {"initialize"}), ins + Is(p, o, {"insert"}), rl + Is(p, o, Releasers), fr + Is(p, o, {"free"}), fi + Is(p, o, {"find"}), refs, linked, calls)
               PROVE  Books(ver, y, ini + Is(p2, o, {"initialize"}), ins + Is(p2, o, {"insert"}), rl + Is(p2, o, Releasers), fr + Is(p2, o, {"free"}), fi + Is(p2, o, {"find"}), refs - 1, linked, calls)
    BY DEF BooksFollow
  <2>1. ini + Is(p, o, {"initialize"}) = ini /\ ins + Is(p, o, {"insert"}) = ins /\ rl + Is(p, o, Releasers) = rl /\ fr + Is(p, o, {"free"}) = fr /\ fi + Is(p, o, {"find"}) = fi
    BY <1>1
  <2>2. ini + Is(p2, o, {"initialize"}) = ini /\ ins + Is(p2, o, {"insert"}) = ins /\ rl + Is(p2, o, Releasers) = rl /\ fr + Is(p2, o, {"free"}) = fr /\ fi + Is(p2, o, {"find"}) = fi
    BY <1>2
  <2>3. Books(ver, x, ini, ins, rl, fr, fi, refs, linked, calls)
    BY <2>1
  <2>4. Books(ver, y, ini, ins, rl, fr, fi, refs - 1, linked, calls)
    BY <1>4, <2>3
  <2> QED
    BY <2>2, <2>4
<1> QED
    BY <1>5 DEF y, p, p2

\* foo_rele of mutex1 gives the last reference up.
LEMMA BooksOfLast1 ==
    ASSUME NEW ver, NEW o, o # 0, NEW x \in Object, NEW refs \in Nat, NEW linked \in BOOLEAN, NEW calls \in Nat,
           ver = "mutex1", refs > 0, x.f_count = 1
    PROVE  BooksFollow(ver, x, [x EXCEPT !.f_count = x.f_count - 1], o, Idle,
                       [pc |-> "free", fp |-> o], refs, refs - 1, linked, linked, calls, calls, FALSE)
<1> DEFINE y == [x EXCEPT !.f_count = x.f_count - 1]
           p == Idle
           p2 == [pc |-> "free", fp |-> o]
<1>1. Is(p, o, {"initialize"}) = 0 /\ Is(p, o, {"insert"}) = 0 /\ Is(p, o, Releasers) = 0 /\ Is(p, o, {"free"}) = 0 /\ Is(p, o, {"find"}) = 0
    BY DEF Is, Idle, Releasers
<1>2. Is(p2, o, {"initialize"}) = 0 /\ Is(p2, o, {"insert"}) = 0 /\ Is(p2, o, Releasers) = 0 /\ Is(p2, o, {"free"}) = 1 /\ Is(p2, o, {"find"}) = 0
    BY DEF Is, Idle, Releasers
<1>3. /\ x.f_count \in Nat /\ x.live \in BOOLEAN /\ x.ready \in BOOLEAN
      /\ y.f_count = x.f_count - 1 /\ y.f_lock = x.f_lock /\ y.live = x.live /\ y.ready = x.ready
    BY DEF Object
<1> HIDE DEF y, p, p2
<1>4. ASSUME NEW ini \in Nat, NEW ins \in Nat, NEW rl \in Nat, NEW fr \in Nat, NEW fi \in Nat,
             Books(ver, x, ini, ins, rl, fr, fi, refs, linked, calls)
      PROVE  Books(ver, y, ini, ins, rl, fr + 1, fi, refs - 1, linked, calls)
    BY <1>3, <1>4 DEF Books, Nobody
<1>5. BooksFollow(ver, x, y, o, p, p2, refs, refs - 1, linked, linked, calls, calls, FALSE)
  <2> SUFFICES ASSUME NEW ini \in Nat, NEW ins \in Nat, NEW rl \in Nat, NEW fr \in Nat, NEW fi \in Nat,
                      Books(ver, x, ini + Is(p, o, {"initialize"}), ins + Is(p, o, {"insert"}), rl + Is(p, o, Releasers), fr + Is(p, o, {"free"}), fi + Is(p, o, {"find"}), refs, linked, calls)
               PROVE  Books(ver, y, ini + Is(p2, o, {"initialize"}), ins + Is(p2, o, {"insert"}), rl + Is(p2, o, Releasers), fr + Is(p2, o, {"free"}), fi + Is(p2, o, {"find"}), refs - 1, linked, calls)
    BY DEF BooksFollow
  <2>1. ini + Is(p, o, {"initialize"}) = ini /\ ins + Is(p, o, {"insert"}) = ins /\ rl + Is(p, o, Releasers) = rl /\ fr + Is(p, o, {"free"}) = fr /\ fi + Is(p, o, {"find"}) = fi
    BY <1>1
  <2>2. ini + Is(p2, o, {"initialize"}) = ini /\ ins + Is(p2, o, {"insert"}) = ins /\ rl + Is(p2, o, Releasers) = rl /\ fr + Is(p2, o, {"free"}) = fr + 1 /\ fi + Is(p2, o, {"find"}) = fi
    BY <1>2
  <2>3. Books(ver, x, ini, ins, rl, fr, fi, refs, linked, calls)
    BY <2>1
  <2>4. Books(ver, y, ini, ins, rl, fr + 1, fi, refs - 1, linked, calls)
    BY <1>4, <2>3
  <2> QED
    BY <2>2, <2>4
<1> QED
    BY <1>5 DEF y, p, p2

\* foo_rele of mutex3 gives the last reference up and unlinks the object.
LEMMA BooksOfLast3 ==
    ASSUME NEW ver, NEW o, o # 0, NEW x \in Object, NEW refs \in Nat, NEW linked \in BOOLEAN, NEW calls \in Nat,
           ver = "mutex3", refs > 0, x.f_count = 1
    PROVE  BooksFollow(ver, x, [x EXCEPT !.f_count = x.f_count - 1], o, Idle,
                       [pc |-> "free", fp |-> o], refs, refs - 1, linked, FALSE, calls, calls, FALSE)
<1> DEFINE y == [x EXCEPT !.f_count = x.f_count - 1]
           p == Idle
           p2 == [pc |-> "free", fp |-> o]
<1>1. Is(p, o, {"initialize"}) = 0 /\ Is(p, o, {"insert"}) = 0 /\ Is(p, o, Releasers) = 0 /\ Is(p, o, {"free"}) = 0 /\ Is(p, o, {"find"}) = 0
    BY DEF Is, Idle, Releasers
<1>2. Is(p2, o, {"initialize"}) = 0 /\ Is(p2, o, {"insert"}) = 0 /\ Is(p2, o, Releasers) = 0 /\ Is(p2, o, {"free"}) = 1 /\ Is(p2, o, {"find"}) = 0
    BY DEF Is, Idle, Releasers
<1>3. /\ x.f_count \in Nat /\ x.live \in BOOLEAN /\ x.ready \in BOOLEAN
      /\ y.f_count = x.f_count - 1 /\ y.f_lock = x.f_lock /\ y.live = x.live /\ y.ready = x.ready
    BY DEF Object
<1> HIDE DEF y, p, p2
<1>4. ASSUME NEW ini \in Nat, NEW ins \in Nat, NEW rl \in Nat, NEW fr \in Nat, NEW fi \in Nat,
             Books(ver, x, ini, ins, rl, fr, fi, refs, linked, calls)
      PROVE  Books(ver, y, ini, ins, rl, fr + 1, fi, refs - 1, FALSE, calls)
    BY <1>3, <1>4 DEF Books, Nobody
<1>5. BooksFollow(ver, x, y, o, p, p2, refs, refs - 1, linked, FALSE, calls, calls, FALSE)
  <2> SUFFICES ASSUME NEW ini \in Nat, NEW ins \in Nat, NEW rl \in Nat, NEW fr \in Nat, NEW fi \in Nat,
                      Books(ver, x, ini + Is(p, o, {"initialize"}), ins + Is(p, o, {"insert"}), rl + Is(p, o, Releasers), fr + Is(p, o, {"free"}), fi + Is(p, o, {"find"}), refs, linked, calls)
               PROVE  Books(ver, y, ini + Is(p2, o, {"initialize"}), ins + Is(p2, o, {"insert"}), rl + Is(p2, o, Releasers), fr + Is(p2, o, {"free"}), fi + Is(p2, o, {"find"}), refs - 1, FALSE, calls)
    BY DEF BooksFollow
  <2>1. ini + Is(p, o, {"initialize"}) = ini /\ ins + Is(p, o, {"insert"}) = ins /\ rl + Is(p, o, Releasers) = rl /\ fr + Is(p, o, {"free"}) = fr /\ fi + Is(p, o, {"find"}) = fi
    BY <1>1
  <2>2. ini + Is(p2, o, {"initialize"}) = ini /\ ins + Is(p2, o, {"insert"}) = ins /\ rl + Is(p2, o, Releasers) = rl /\ fr + Is(p2, o, {"free"}) = fr + 1 /\ fi + Is(p2, o, {"find"}) = fi
    BY <1>2
  <2>3. Books(ver, x, ini, ins, rl, fr, fi, refs, linked, calls)
    BY <2>1
  <2>4. Books(ver, y, ini, ins, rl, fr + 1, fi, refs - 1, FALSE, calls)
    BY <1>4, <2>3
  <2> QED
    BY <2>2, <2>4
<1> QED
    BY <1>5 DEF y, p, p2

\* foo_rele of mutex2 lets go of the last reference, still counted.
LEMMA BooksOfLast ==
    ASSUME NEW ver, NEW o, o # 0, NEW x \in Object, NEW refs \in Nat, NEW linked \in BOOLEAN, NEW calls \in Nat,
           ver = "mutex2", refs > 0
    PROVE  BooksFollow(ver, x, x, o, Idle,
                       [pc |-> "hashlock", fp |-> o], refs, refs - 1, linked, linked, calls, calls, FALSE)
<1> DEFINE y == x
           p == Idle
           p2 == [pc |-> "hashlock", fp |-> o]
<1>1. Is(p, o, {"initialize"}) = 0 /\ Is(p, o, {"insert"}) = 0 /\ Is(p, o, Releasers) = 0 /\ Is(p, o, {"free"}) = 0 /\ Is(p, o, {"find"}) = 0
    BY DEF Is, Idle, Releasers
<1>2. Is(p2, o, {"initialize"}) = 0 /\ Is(p2, o, {"insert"}) = 0 /\ Is(p2, o, Releasers) = 1 /\ Is(p2, o, {"free"}) = 0 /\ Is(p2, o, {"find"}) = 0
    BY DEF Is, Idle, Releasers
<1>3. /\ x.f_count \in Nat /\ x.live \in BOOLEAN /\ x.ready \in BOOLEAN
      /\ y.f_count = x.f_count /\ y.f_lock = x.f_lock /\ y.live = x.live /\ y.ready = x.ready
    BY DEF Object
<1> HIDE DEF y, p, p2
<1>4. ASSUME NEW ini \in Nat, NEW ins \in Nat, NEW rl \in Nat, NEW fr \in Nat, NEW fi \in Nat,
             Books(ver, x, ini, ins, rl, fr, fi, refs, linked, calls)
      PROVE  Books(ver, y, ini, ins, rl + 1, fr, fi, refs - 1, linked, calls)
    BY <1>3, <1>4 DEF Books, Nobody
<1>5. BooksFollow(ver, x, y, o, p, p2, refs, refs - 1, linked, linked, calls, calls, FALSE)
  <2> SUFFICES ASSUME NEW ini \in Nat, NEW ins \in Nat, NEW rl \in Nat, NEW fr \in Nat, NEW fi \in Nat,
                      Books(ver, x, ini + Is(p, o, {"initialize"}), ins + Is(p, o, {"insert"}), rl + Is(p, o, Releasers), fr + Is(p, o, {"free"}), fi + Is(p, o, {"find"}), refs, linked, calls)
               PROVE  Books(ver, y, ini + Is(p2, o, {"initialize"}), ins + Is(p2, o, {"insert"}), rl + Is(p2, o, Releasers), fr + Is(p2, o, {"free"}), fi + Is(p2, o, {"find"}), refs - 1, linked, calls)
    BY DEF BooksFollow
  <2>1. ini + Is(p, o, {"initialize"}) = ini /\ ins + Is(p, o, {"insert"}) = ins /\ rl + Is(p, o, Releasers) = rl /\ fr + Is(p, o, {"free"}) = fr /\ fi + Is(p, o, {"find"}) = fi
    BY <1>1
  <2>2. ini + Is(p2, o, {"initialize"}) = ini /\ ins + Is(p2, o, {"insert"}) = ins /\ rl + Is(p2, o, Releasers) = rl + 1 /\ fr + Is(p2, o, {"free"}) = fr /\ fi + Is(p2, o, {"find"}) = fi
    BY <1>2
  <2>3. Books(ver, x, ini, ins, rl, fr, fi, refs, linked, calls)
    BY <2>1
  <2>4. Books(ver, y, ini, ins, rl + 1, fr, fi, refs - 1, linked, calls)
    BY <1>4, <2>3
  <2> QED
    BY <2>2, <2>4
<1> QED
    BY <1>5 DEF y, p, p2

\* foo_rele of mutex2 gets the lock of the table.
LEMMA BooksOfLocks ==
    ASSUME NEW ver, NEW o, o # 0, NEW x \in Object, NEW refs \in Nat, NEW linked \in BOOLEAN, NEW calls \in Nat
    PROVE  BooksFollow(ver, x, x, o, [pc |-> "hashlock", fp |-> o],
                       [pc |-> "recheck", fp |-> o], refs, refs, linked, linked, calls, calls, FALSE)
<1> DEFINE y == x
           p == [pc |-> "hashlock", fp |-> o]
           p2 == [pc |-> "recheck", fp |-> o]
<1>1. Is(p, o, {"initialize"}) = 0 /\ Is(p, o, {"insert"}) = 0 /\ Is(p, o, Releasers) = 1 /\ Is(p, o, {"free"}) = 0 /\ Is(p, o, {"find"}) = 0
    BY DEF Is, Idle, Releasers
<1>2. Is(p2, o, {"initialize"}) = 0 /\ Is(p2, o, {"insert"}) = 0 /\ Is(p2, o, Releasers) = 1 /\ Is(p2, o, {"free"}) = 0 /\ Is(p2, o, {"find"}) = 0
    BY DEF Is, Idle, Releasers
<1>3. /\ x.f_count \in Nat /\ x.live \in BOOLEAN /\ x.ready \in BOOLEAN
      /\ y.f_count = x.f_count /\ y.f_lock = x.f_lock /\ y.live = x.live /\ y.ready = x.ready
    BY DEF Object
<1> HIDE DEF y, p, p2
<1>4. ASSUME NEW ini \in Nat, NEW ins \in Nat, NEW rl \in Nat, NEW fr \in Nat, NEW fi \in Nat,
             Books(ver, x, ini, ins, rl + 1, fr, fi, refs, linked, calls)
      PROVE  Books(ver, y, ini, ins, rl + 1, fr, fi, refs, linked, calls)
    BY <1>3, <1>4 DEF Books, Nobody
<1>5. BooksFollow(ver, x, y, o, p, p2, refs, refs, linked, linked, calls, calls, FALSE)
  <2> SUFFICES ASSUME NEW ini \in Nat, NEW ins \in Nat, NEW rl \in Nat, NEW fr \in Nat, NEW fi \in Nat,
                      Books(ver, x, ini + Is(p, o, {"initialize"}), ins + Is(p, o, {"insert"}), rl + Is(p, o, Releasers), fr + Is(p, o, {"free"}), fi + Is(p, o, {"find"}), refs, linked, calls)
               PROVE  Books(ver, y, ini + Is(p2, o, {"initialize"}), ins + Is(p2, o, {"insert"}), rl + Is(p2, o, Releasers), fr + Is(p2, o, {"free"}), fi + Is(p2, o, {"find"}), refs, linked, calls)
    BY DEF BooksFollow
  <2>1. ini + Is(p, o, {"initialize"}) = ini /\ ins + Is(p, o, {"insert"}) = ins /\ rl + Is(p, o, Releasers) = rl + 1 /\ fr + Is(p, o, {"free"}) = fr /\ fi + Is(p, o, {"find"}) = fi
    BY <1>1
  <2>2. ini + Is(p2, o, {"initialize"}) = ini /\ ins + Is(p2, o, {"insert"}) = ins /\ rl + Is(p2, o, Releasers) = rl + 1 /\ fr + Is(p2, o, {"free"}) = fr /\ fi + Is(p2, o, {"find"}) = fi
    BY <1>2
  <2>3. Books(ver, x, ini, ins, rl + 1, fr, fi, refs, linked, calls)
    BY <2>1
  <2>4. Books(ver, y, ini, ins, rl + 1, fr, fi, refs, linked, calls)
    BY <1>4, <2>3
  <2> QED
    BY <2>2, <2>4
<1> QED
    BY <1>5 DEF y, p, p2

\* foo_rele of mutex2 looks again: somebody has found the object.
LEMMA BooksOfRecheck ==
    ASSUME NEW ver, NEW o, o # 0, NEW x \in Object, NEW refs \in Nat, NEW linked \in BOOLEAN, NEW calls \in Nat,
           x.f_count # 1
    PROVE  BooksFollow(ver, x, [x EXCEPT !.f_count = x.f_count - 1], o, [pc |-> "recheck", fp |-> o],
                       Idle, refs, refs, linked, linked, calls, calls, FALSE)
<1> DEFINE y == [x EXCEPT !.f_count = x.f_count - 1]
           p == [pc |-> "recheck", fp |-> o]
           p2 == Idle
<1>1. Is(p, o, {"initialize"}) = 0 /\ Is(p, o, {"insert"}) = 0 /\ Is(p, o, Releasers) = 1 /\ Is(p, o, {"free"}) = 0 /\ Is(p, o, {"find"}) = 0
    BY DEF Is, Idle, Releasers
<1>2. Is(p2, o, {"initialize"}) = 0 /\ Is(p2, o, {"insert"}) = 0 /\ Is(p2, o, Releasers) = 0 /\ Is(p2, o, {"free"}) = 0 /\ Is(p2, o, {"find"}) = 0
    BY DEF Is, Idle, Releasers
<1>3. /\ x.f_count \in Nat /\ x.live \in BOOLEAN /\ x.ready \in BOOLEAN
      /\ y.f_count = x.f_count - 1 /\ y.f_lock = x.f_lock /\ y.live = x.live /\ y.ready = x.ready
    BY DEF Object
<1> HIDE DEF y, p, p2
<1>4. ASSUME NEW ini \in Nat, NEW ins \in Nat, NEW rl \in Nat, NEW fr \in Nat, NEW fi \in Nat,
             Books(ver, x, ini, ins, rl + 1, fr, fi, refs, linked, calls)
      PROVE  Books(ver, y, ini, ins, rl, fr, fi, refs, linked, calls)
    BY <1>3, <1>4 DEF Books, Nobody
<1>5. BooksFollow(ver, x, y, o, p, p2, refs, refs, linked, linked, calls, calls, FALSE)
  <2> SUFFICES ASSUME NEW ini \in Nat, NEW ins \in Nat, NEW rl \in Nat, NEW fr \in Nat, NEW fi \in Nat,
                      Books(ver, x, ini + Is(p, o, {"initialize"}), ins + Is(p, o, {"insert"}), rl + Is(p, o, Releasers), fr + Is(p, o, {"free"}), fi + Is(p, o, {"find"}), refs, linked, calls)
               PROVE  Books(ver, y, ini + Is(p2, o, {"initialize"}), ins + Is(p2, o, {"insert"}), rl + Is(p2, o, Releasers), fr + Is(p2, o, {"free"}), fi + Is(p2, o, {"find"}), refs, linked, calls)
    BY DEF BooksFollow
  <2>1. ini + Is(p, o, {"initialize"}) = ini /\ ins + Is(p, o, {"insert"}) = ins /\ rl + Is(p, o, Releasers) = rl + 1 /\ fr + Is(p, o, {"free"}) = fr /\ fi + Is(p, o, {"find"}) = fi
    BY <1>1
  <2>2. ini + Is(p2, o, {"initialize"}) = ini /\ ins + Is(p2, o, {"insert"}) = ins /\ rl + Is(p2, o, Releasers) = rl /\ fr + Is(p2, o, {"free"}) = fr /\ fi + Is(p2, o, {"find"}) = fi
    BY <1>2
  <2>3. Books(ver, x, ini, ins, rl + 1, fr, fi, refs, linked, calls)
    BY <2>1
  <2>4. Books(ver, y, ini, ins, rl, fr, fi, refs, linked, calls)
    BY <1>4, <2>3
  <2> QED
    BY <2>2, <2>4
<1> QED
    BY <1>5 DEF y, p, p2

\* foo_rele of mutex2 looks again: nobody has, and nobody can find it any more.
LEMMA BooksOfUnlink ==
    ASSUME NEW ver, NEW o, o # 0, NEW x \in Object, NEW refs \in Nat, NEW linked \in BOOLEAN, NEW calls \in Nat,
           x.f_count = 1
    PROVE  BooksFollow(ver, x, x, o, [pc |-> "recheck", fp |-> o],
                       [pc |-> "free", fp |-> o], refs, refs, linked, FALSE, calls, calls, TRUE)
<1> DEFINE y == x
           p == [pc |-> "recheck", fp |-> o]
           p2 == [pc |-> "free", fp |-> o]
<1>1. Is(p, o, {"initialize"}) = 0 /\ Is(p, o, {"insert"}) = 0 /\ Is(p, o, Releasers) = 1 /\ Is(p, o, {"free"}) = 0 /\ Is(p, o, {"find"}) = 0
    BY DEF Is, Idle, Releasers
<1>2. Is(p2, o, {"initialize"}) = 0 /\ Is(p2, o, {"insert"}) = 0 /\ Is(p2, o, Releasers) = 0 /\ Is(p2, o, {"free"}) = 1 /\ Is(p2, o, {"find"}) = 0
    BY DEF Is, Idle, Releasers
<1>3. /\ x.f_count \in Nat /\ x.live \in BOOLEAN /\ x.ready \in BOOLEAN
      /\ y.f_count = x.f_count /\ y.f_lock = x.f_lock /\ y.live = x.live /\ y.ready = x.ready
    BY DEF Object
<1> HIDE DEF y, p, p2
<1>4. ASSUME NEW ini \in Nat, NEW ins \in Nat, NEW rl \in Nat, NEW fr \in Nat, NEW fi \in Nat,
             Books(ver, x, ini, ins, rl + 1, fr, fi, refs, linked, calls), fi = 0
      PROVE  Books(ver, y, ini, ins, rl, fr + 1, fi, refs, FALSE, calls)
    BY <1>3, <1>4 DEF Books, Nobody
<1>5. BooksFollow(ver, x, y, o, p, p2, refs, refs, linked, FALSE, calls, calls, TRUE)
  <2> SUFFICES ASSUME NEW ini \in Nat, NEW ins \in Nat, NEW rl \in Nat, NEW fr \in Nat, NEW fi \in Nat,
                      fi + Is(p, o, {"find"}) = 0,
                      Books(ver, x, ini + Is(p, o, {"initialize"}), ins + Is(p, o, {"insert"}), rl + Is(p, o, Releasers), fr + Is(p, o, {"free"}), fi + Is(p, o, {"find"}), refs, linked, calls)
               PROVE  Books(ver, y, ini + Is(p2, o, {"initialize"}), ins + Is(p2, o, {"insert"}), rl + Is(p2, o, Releasers), fr + Is(p2, o, {"free"}), fi + Is(p2, o, {"find"}), refs, FALSE, calls)
    BY DEF BooksFollow
  <2>1. ini + Is(p, o, {"initialize"}) = ini /\ ins + Is(p, o, {"insert"}) = ins /\ rl + Is(p, o, Releasers) = rl + 1 /\ fr + Is(p, o, {"free"}) = fr /\ fi + Is(p, o, {"find"}) = fi
    BY <1>1
  <2>2. ini + Is(p2, o, {"initialize"}) = ini /\ ins + Is(p2, o, {"insert"}) = ins /\ rl + Is(p2, o, Releasers) = rl /\ fr + Is(p2, o, {"free"}) = fr + 1 /\ fi + Is(p2, o, {"find"}) = fi
    BY <1>2
  <2>3. Books(ver, x, ini, ins, rl + 1, fr, fi, refs, linked, calls)
    BY <2>1
  <2>4. Books(ver, y, ini, ins, rl, fr + 1, fi, refs, FALSE, calls)
    BY <1>4, <2>3, <2>1
  <2> QED
    BY <2>2, <2>4
<1> QED
    BY <1>5 DEF y, p, p2

\* The object is freed.
LEMMA BooksOfFree ==
    ASSUME NEW ver, NEW o, o # 0, NEW x \in Object, NEW refs \in Nat, NEW linked \in BOOLEAN, NEW calls \in Nat
    PROVE  BooksFollow(ver, x, [x EXCEPT !.live = FALSE], o, [pc |-> "free", fp |-> o],
                       Idle, refs, refs, linked, linked, calls, calls, FALSE)
<1> DEFINE y == [x EXCEPT !.live = FALSE]
           p == [pc |-> "free", fp |-> o]
           p2 == Idle
<1>1. Is(p, o, {"initialize"}) = 0 /\ Is(p, o, {"insert"}) = 0 /\ Is(p, o, Releasers) = 0 /\ Is(p, o, {"free"}) = 1 /\ Is(p, o, {"find"}) = 0
    BY DEF Is, Idle, Releasers
<1>2. Is(p2, o, {"initialize"}) = 0 /\ Is(p2, o, {"insert"}) = 0 /\ Is(p2, o, Releasers) = 0 /\ Is(p2, o, {"free"}) = 0 /\ Is(p2, o, {"find"}) = 0
    BY DEF Is, Idle, Releasers
<1>3. /\ x.f_count \in Nat /\ x.live \in BOOLEAN /\ x.ready \in BOOLEAN
      /\ y.f_count = x.f_count /\ y.f_lock = x.f_lock /\ y.live = FALSE /\ y.ready = x.ready
    BY DEF Object
<1> HIDE DEF y, p, p2
<1>4. ASSUME NEW ini \in Nat, NEW ins \in Nat, NEW rl \in Nat, NEW fr \in Nat, NEW fi \in Nat,
             Books(ver, x, ini, ins, rl, fr + 1, fi, refs, linked, calls)
      PROVE  Books(ver, y, ini, ins, rl, fr, fi, refs, linked, calls)
    BY <1>3, <1>4 DEF Books, Nobody
<1>5. BooksFollow(ver, x, y, o, p, p2, refs, refs, linked, linked, calls, calls, FALSE)
  <2> SUFFICES ASSUME NEW ini \in Nat, NEW ins \in Nat, NEW rl \in Nat, NEW fr \in Nat, NEW fi \in Nat,
                      Books(ver, x, ini + Is(p, o, {"initialize"}), ins + Is(p, o, {"insert"}), rl + Is(p, o, Releasers), fr + Is(p, o, {"free"}), fi + Is(p, o, {"find"}), refs, linked, calls)
               PROVE  Books(ver, y, ini + Is(p2, o, {"initialize"}), ins + Is(p2, o, {"insert"}), rl + Is(p2, o, Releasers), fr + Is(p2, o, {"free"}), fi + Is(p2, o, {"find"}), refs, linked, calls)
    BY DEF BooksFollow
  <2>1. ini + Is(p, o, {"initialize"}) = ini /\ ins + Is(p, o, {"insert"}) = ins /\ rl + Is(p, o, Releasers) = rl /\ fr + Is(p, o, {"free"}) = fr + 1 /\ fi + Is(p, o, {"find"}) = fi
    BY <1>1
  <2>2. ini + Is(p2, o, {"initialize"}) = ini /\ ins + Is(p2, o, {"insert"}) = ins /\ rl + Is(p2, o, Releasers) = rl /\ fr + Is(p2, o, {"free"}) = fr /\ fi + Is(p2, o, {"find"}) = fi
    BY <1>2
  <2>3. Books(ver, x, ini, ins, rl, fr + 1, fi, refs, linked, calls)
    BY <2>1
  <2>4. Books(ver, y, ini, ins, rl, fr, fi, refs, linked, calls)
    BY <1>4, <2>3
  <2> QED
    BY <2>2, <2>4
<1> QED
    BY <1>5 DEF y, p, p2

\* An object and its references.
LEMMA ObjectFacts ==
    ASSUME FooInv, NEW o \in 1..Len(foo)
    PROVE  /\ o # 0 /\ o \in Foos /\ foo[o] \in Object /\ foo[o].f_count \in Nat
           /\ RefsTo(frefs, o) \in Counts /\ Refs(RefsTo(frefs, o)) \in Nat
           /\ \A t \in FooThreads : frefs[t][o] \in Nat /\ frefs[t][o] <= Refs(RefsTo(frefs, o))
           /\ Sound(version, foo[o], o, fthr, RefsTo(frefs, o), Linked(fh, o), fcalls)
           /\ Linked(fh, o) \in BOOLEAN
           /\ fcalls \in Nat /\ fcalls <= MaxFooCalls /\ MaxRefs \in Nat /\ 1 + MaxFooCalls <= MaxRefs
           /\ MaxFooCalls \in Nat
<1>1. foo \in Seq(Object) /\ Len(foo) \in Nat /\ Len(foo) <= MaxFoos /\ fcalls \in 0..MaxFooCalls
      /\ MaxFoos \in Nat /\ MaxFooCalls \in Nat /\ frefs \in [FooThreads -> [Foos -> 0..MaxRefs]]
    BY ObjectTableAssumption DEF FooInv, FooTypes
<1>2. o # 0 /\ o \in Foos /\ foo[o] \in Object
    BY <1>1 DEF Foos
<1>3. RefsTo(frefs, o) \in Counts
    BY <1>1, <1>2 DEF RefsTo, Counts
<1>4. Refs(RefsTo(frefs, o)) \in Nat
    BY RefPairsFinite
<1>5. MaxRefs \in Nat /\ 1 + MaxFooCalls <= MaxRefs
    BY <1>1 DEF MaxRefs
<1>6. ASSUME NEW t \in FooThreads PROVE frefs[t][o] \in Nat /\ frefs[t][o] <= Refs(RefsTo(frefs, o))
  <2>1. RefsTo(frefs, o)[t] = frefs[t][o]
    BY DEF RefsTo
  <2>2. RefsTo(frefs, o)[t] <= Refs(RefsTo(frefs, o))
    BY <1>3, RefsBound
  <2>3. frefs[t][o] \in Nat
    BY <1>1, <1>2, <1>5
  <2> QED
    BY <2>1, <2>2, <2>3
<1>7. Sound(version, foo[o], o, fthr, RefsTo(frefs, o), Linked(fh, o), fcalls)
    BY DEF FooInv, Objects
<1>8. foo[o].f_count \in Nat
    BY <1>2 DEF Object
<1>9. Linked(fh, o) \in BOOLEAN
    BY DEF Linked
<1> QED
    BY <1>1, <1>2, <1>3, <1>4, <1>5, <1>6, <1>7, <1>8, <1>9

\* An object that is referred to is live, nobody frees it, and the references are counted.
LEMMA ReferredTo ==
    ASSUME FooInv, NEW o \in 1..Len(foo), Refs(RefsTo(frefs, o)) > 0
    PROVE  foo[o].live /\ Refs(RefsTo(frefs, o)) <= foo[o].f_count /\ foo[o].f_count <= 1 + fcalls
<1> DEFINE refs == Refs(RefsTo(frefs, o))
<1>1. /\ refs \in Nat /\ foo[o].f_count \in Nat /\ fcalls \in Nat /\ refs > 0
      /\ Sound(version, foo[o], o, fthr, RefsTo(frefs, o), Linked(fh, o), fcalls)
    BY ObjectFacts
<1>2. /\ Number(fthr, o, {"initialize"}) \in Nat /\ Number(fthr, o, {"insert"}) \in Nat /\ Number(fthr, o, Releasers) \in Nat
      /\ Number(fthr, o, {"free"}) \in Nat /\ Number(fthr, o, {"find"}) \in Nat
    BY NumberIsPositive
<1>3. ASSUME NEW x, NEW ini \in Nat, NEW ins \in Nat, NEW rl \in Nat, NEW fr \in Nat, NEW fi \in Nat, NEW n \in Nat,
             NEW linked, NEW calls \in Nat, n > 0, x.f_count \in Nat,
             Books(version, x, ini, ins, rl, fr, fi, n, linked, calls)
      PROVE  x.live /\ n <= x.f_count /\ x.f_count <= 1 + calls
    BY <1>3 DEF Books
<1> QED
    BY <1>1, <1>2, <1>3 DEF Sound

\* A thread gets a reference.
LEMMA GetsReference ==
    ASSUME FooInv, NEW t \in FooThreads, NEW o \in 1..Len(foo), Refs(RefsTo(frefs, o)) < MaxRefs, Refers(t, o)
    PROVE  /\ frefs' \in [FooThreads -> [Foos -> 0..MaxRefs]]
           /\ \A u \in FooThreads : \A p \in Foos \ {o} : frefs'[u][p] = frefs[u][p]
           /\ Refs(RefsTo(frefs', o)) = Refs(RefsTo(frefs, o)) + 1
<1>1. /\ frefs \in [FooThreads -> [Foos -> 0..MaxRefs]] /\ o \in Foos /\ MaxRefs \in Nat
      /\ frefs[t][o] \in Nat /\ frefs[t][o] <= Refs(RefsTo(frefs, o)) /\ Refs(RefsTo(frefs, o)) \in Nat
      /\ RefsTo(frefs, o) \in Counts
    BY ObjectFacts DEF FooInv, FooTypes
<1>2. frefs[t][o] + 1 \in 0..MaxRefs
    BY <1>1
<1>3. frefs' = [frefs EXCEPT ![t][o] = frefs[t][o] + 1]
    BY DEF Refers
<1>4. frefs' \in [FooThreads -> [Foos -> 0..MaxRefs]]
    BY <1>1, <1>2, <1>3
<1>5. \A u \in FooThreads : \A p \in Foos : frefs'[u][p] = IF u = t /\ p = o THEN frefs[t][o] + 1 ELSE frefs[u][p]
    BY <1>1, <1>3
<1>6. RefsTo(frefs', o) = [RefsTo(frefs, o) EXCEPT ![t] = RefsTo(frefs, o)[t] + 1]
    BY <1>1, <1>5 DEF RefsTo
<1>7. RefsTo(frefs, o)[t] < MaxRefs
    BY <1>1 DEF RefsTo
<1>8. Refs(RefsTo(frefs', o)) = Refs(RefsTo(frefs, o)) + 1
    BY <1>1, <1>6, <1>7, RefsGrow
<1> QED
    BY <1>4, <1>5, <1>8

\* A thread gives a reference up.
LEMMA GivesReference ==
    ASSUME FooInv, NEW t \in FooThreads, NEW o \in 1..Len(foo), frefs[t][o] > 0,
           frefs' = [frefs EXCEPT ![t][o] = @ - 1]
    PROVE  /\ frefs' \in [FooThreads -> [Foos -> 0..MaxRefs]]
           /\ \A u \in FooThreads : \A p \in Foos \ {o} : frefs'[u][p] = frefs[u][p]
           /\ Refs(RefsTo(frefs, o)) > 0 /\ Refs(RefsTo(frefs', o)) = Refs(RefsTo(frefs, o)) - 1
<1>1. /\ frefs \in [FooThreads -> [Foos -> 0..MaxRefs]] /\ o \in Foos /\ MaxRefs \in Nat
      /\ frefs[t][o] \in Nat /\ RefsTo(frefs, o) \in Counts
    BY ObjectFacts DEF FooInv, FooTypes
<1>2. frefs[t][o] - 1 \in 0..MaxRefs
    BY <1>1
<1>3. frefs' = [frefs EXCEPT ![t][o] = frefs[t][o] - 1]
    OBVIOUS
<1>4. frefs' \in [FooThreads -> [Foos -> 0..MaxRefs]]
    BY <1>1, <1>2, <1>3
<1>5. \A u \in FooThreads : \A p \in Foos : frefs'[u][p] = IF u = t /\ p = o THEN frefs[t][o] - 1 ELSE frefs[u][p]
    BY <1>1, <1>3
<1>6. RefsTo(frefs', o) = [RefsTo(frefs, o) EXCEPT ![t] = RefsTo(frefs, o)[t] - 1]
    BY <1>1, <1>5 DEF RefsTo
<1>7. RefsTo(frefs, o)[t] > 0
    BY DEF RefsTo
<1>8. Refs(RefsTo(frefs', o)) = Refs(RefsTo(frefs, o)) - 1 /\ Refs(RefsTo(frefs, o)) > 0
    BY <1>1, <1>6, <1>7, RefsShrink
<1> QED
    BY <1>4, <1>5, <1>8

\* Who is in the table holds its lock: taken, given back or left alone.
LEMMA HashLockKept ==
    ASSUME FooInv, NEW t \in FooThreads, NEW place, fthr' = [fthr EXCEPT ![t] = place],
           \/ hashlock' = hashlock /\ place.pc \notin {"find", "recheck"}
           \/ hashlock' = t /\ hashlock = Nobody
           \/ hashlock' = Nobody /\ fthr[t].pc \in {"find", "recheck"} /\ place.pc \notin {"find", "recheck"}
    PROVE  HashLocked'
<1>1. HashLocked /\ fthr \in [FooThreads -> Places]
    BY DEF FooInv, FooTypes
<1>2. fthr'[t] = place /\ \A u \in FooThreads : u # t => fthr'[u] = fthr[u]
    BY <1>1
<1>3. \A u \in FooThreads : u # Nobody
    BY ObjectTableAssumption DEF Nobody
<1> QED
    BY <1>1, <1>2, <1>3 DEF HashLocked

\* A thread that is in a function is there with an object.
LEMMA InACall ==
    ASSUME FooInv, NEW t \in FooThreads, fthr[t].pc # "idle"
    PROVE  /\ fthr[t] = [pc |-> fthr[t].pc, fp |-> fthr[t].fp] /\ fthr[t] \in Places
           /\ fthr[t].fp \in 1..Len(foo) /\ PlaceIsRight(version, Len(foo), fthr[t])
<1>1. fthr[t] \in Places /\ PlaceIsRight(version, Len(foo), fthr[t]) /\ Len(foo) \in Nat
    BY DEF FooInv, FooTypes, FooPlaces
<1>2. fthr[t].fp # 0 /\ fthr[t].fp <= Len(foo) /\ fthr[t].fp \in Nat
    BY <1>1 DEF PlaceIsRight, Places
<1> QED
    BY <1>1, <1>2 DEF Places

\* The places a step goes to.
LEMMA NewPlaces ==
    ASSUME NEW o \in Nat
    PROVE  /\ \A pc \in FooPcs : [pc |-> pc, fp |-> o] \in Places
           /\ Idle \in Places /\ PlaceIsRight(version, Len(foo), Idle)
<1>1. "idle" \in FooPcs /\ 0 \in Nat
    BY DEF FooPcs
<1>2. Idle \in Places
    BY <1>1 DEF Idle, Places
<1>3. PlaceIsRight(version, Len(foo), Idle)
    BY DEF Idle, PlaceIsRight, Makers
<1> QED
    BY <1>2, <1>3 DEF Places

\* foo_hold: the count and the references of the caller go up together.
LEMMA HoldKeeps ==
    ASSUME FooInv, NEW t \in FooThreads, NEW o \in 1..Len(foo), Hold(t, o) PROVE FooInv'
<1> DEFINE x == [foo[o] EXCEPT !.f_count = foo[o].f_count + 1]
           refs == Refs(RefsTo(frefs, o))
<1>1. /\ o # 0 /\ foo[o] \in Object /\ foo[o].f_count \in Nat /\ refs \in Nat /\ Linked(fh, o) \in BOOLEAN
      /\ frefs[t][o] \in Nat /\ frefs[t][o] <= refs /\ fcalls \in Nat /\ 1 + MaxFooCalls <= MaxRefs
      /\ MaxRefs \in Nat /\ MaxFooCalls \in Nat
    BY ObjectFacts
<1>2. refs > 0 /\ refs <= foo[o].f_count /\ foo[o].f_count <= 1 + fcalls
    BY <1>1, ReferredTo DEF Hold
<1>3. refs < MaxRefs
    BY <1>1, <1>2 DEF Hold
<1>4. /\ frefs' \in [FooThreads -> [Foos -> 0..MaxRefs]] /\ Refs(RefsTo(frefs', o)) = refs + 1
      /\ \A u \in FooThreads : \A p \in Foos \ {o} : frefs'[u][p] = frefs[u][p]
    BY <1>3, GetsReference DEF Hold
<1>5. foo' = [foo EXCEPT ![o] = x] /\ x \in Object
  <2>1. x \in Object
    BY <1>1 DEF Object
  <2>2. foo' = [foo EXCEPT ![o].f_count = foo[o].f_count + 1]
    BY DEF Hold
  <2> QED
    BY <2>1, <2>2
<1>6. fthr[t] = Idle /\ fthr' = [fthr EXCEPT ![t] = Idle] /\ fh' = fh /\ fcalls' = fcalls + 1
      /\ hashlock' = hashlock /\ version' = version /\ fcalls' \in 0..MaxFooCalls
    BY <1>1 DEF Hold, FooInv, FooTypes
<1>7. Idle \in Places /\ PlaceIsRight(version, Len(foo), Idle) /\ Idle.fp = 0 /\ Idle.pc = "idle"
    BY NewPlaces DEF Idle
<1>8. HashLocked'
    BY <1>6, <1>7, HashLockKept
<1> HIDE DEF x
<1>9. FooStepOf(t, Idle, o, x)
    BY <1>1, <1>4, <1>5, <1>6, <1>7 DEF FooStepOf, FooInv, FooTypes
<1>10. BooksFollow(version, foo[o], x, o, Idle, Idle, refs, refs + 1, Linked(fh, o), Linked(fh, o),
                   fcalls, fcalls + 1, FALSE)
    BY <1>1, <1>2, BooksOfHold DEF x
<1> QED
    BY <1>4, <1>5, <1>6, <1>7, <1>8, <1>9, <1>10, FooMove

\* A reference is handed over.
LEMMA HandOverKeeps ==
    ASSUME FooInv, NEW t \in FooThreads, NEW u \in FooThreads, NEW o \in 1..Len(foo), HandOver(t, u, o) PROVE FooInv'
<1> DEFINE r == RefsTo(frefs, o)
           s == [r EXCEPT ![t] = r[t] - 1]
           refs == Refs(r)
<1>1. /\ o # 0 /\ o \in Foos /\ foo[o] \in Object /\ r \in Counts /\ refs \in Nat /\ Linked(fh, o) \in BOOLEAN
      /\ frefs[t][o] \in Nat /\ frefs[u][o] \in Nat /\ frefs[t][o] <= refs /\ fcalls \in Nat /\ fcalls <= MaxFooCalls
      /\ 1 + MaxFooCalls <= MaxRefs /\ MaxRefs \in Nat /\ MaxFooCalls \in Nat /\ foo[o].f_count \in Nat
    BY ObjectFacts
<1>2. refs <= foo[o].f_count /\ foo[o].f_count <= 1 + fcalls
    BY <1>1, ReferredTo DEF HandOver
<1>3. refs <= MaxRefs
    BY <1>1, <1>2
<1>4. t # u /\ r[t] = frefs[t][o] /\ r[u] = frefs[u][o] /\ r[t] > 0
    BY DEF RefsTo, HandOver
<1>5. s \in Counts /\ Refs(s) = refs - 1 /\ s[u] = r[u] /\ s[t] = r[t] - 1
  <2>1. s \in Counts /\ Refs(s) = refs - 1
    BY <1>1, <1>4, RefsShrink
  <2> QED
    BY <2>1, <1>1, <1>4 DEF Counts
<1>6. s[u] <= Refs(s)
    BY <1>5, RefsBound
<1>7. s[u] < MaxRefs /\ frefs[u][o] + 1 \in 0..MaxRefs /\ frefs[t][o] - 1 \in 0..MaxRefs
    BY <1>1, <1>3, <1>4, <1>5, <1>6, ObjectFacts DEF FooInv, FooTypes
<1>8. frefs \in [FooThreads -> [Foos -> 0..MaxRefs]]
    BY DEF FooInv, FooTypes
<1>9. frefs' = [frefs EXCEPT ![t][o] = frefs[t][o] - 1, ![u][o] = frefs[u][o] + 1]
    BY <1>4, <1>8, <1>1 DEF HandOver
<1>10. frefs' \in [FooThreads -> [Foos -> 0..MaxRefs]]
    BY <1>1, <1>7, <1>8, <1>9
<1>11. \A v \in FooThreads : \A p \in Foos :
          frefs'[v][p] = IF p = o /\ v = t THEN frefs[t][o] - 1
                         ELSE IF p = o /\ v = u THEN frefs[u][o] + 1 ELSE frefs[v][p]
    BY <1>1, <1>4, <1>8, <1>9
<1>12. RefsTo(frefs', o) = [s EXCEPT ![u] = s[u] + 1]
    BY <1>1, <1>4, <1>5, <1>11 DEF RefsTo
<1> HIDE DEF s
<1>13. Refs(RefsTo(frefs', o)) = refs
  <2>1. Refs(RefsTo(frefs', o)) = Refs(s) + 1
    BY <1>5, <1>7, <1>12, RefsGrow
  <2> QED
    BY <2>1, <1>5, <1>1
<1>14. foo' = [foo EXCEPT ![o] = foo[o]] /\ fthr[t] = Idle /\ fthr' = [fthr EXCEPT ![t] = Idle]
       /\ fh' = fh /\ fcalls' = fcalls /\ hashlock' = hashlock /\ version' = version
    BY DEF HandOver, FooInv, FooTypes
<1>15. Idle \in Places /\ PlaceIsRight(version, Len(foo), Idle) /\ Idle.fp = 0 /\ Idle.pc = "idle"
    BY NewPlaces DEF Idle
<1>16. HashLocked'
    BY <1>14, <1>15, HashLockKept
<1>17. FooStepOf(t, Idle, o, foo[o])
    BY <1>1, <1>10, <1>11, <1>14, <1>15 DEF FooStepOf, FooInv, FooTypes
<1>18. BooksFollow(version, foo[o], foo[o], o, Idle, Idle, refs, refs, Linked(fh, o), Linked(fh, o), fcalls, fcalls, FALSE)
    BY <1>1, BooksOfHandOver
<1> QED
    BY <1>1, <1>13, <1>14, <1>15, <1>16, <1>17, <1>18, FooMove

\* The first match of foo_find is an object in the table.
LEMMA FoundIsLinked ==
    ASSUME FooInv, NEW id, Matches(id) # {} PROVE Found(id) \in 1..Len(foo) /\ Linked(fh, Found(id))
<1>1. fh \in Seq(1..Len(foo)) /\ Matches(id) \subseteq 1..Len(fh) /\ Matches(id) \subseteq Nat
    BY DEF FooInv, Chain, Matches
<1>2. PICK R : R = OpToRel(<, Nat)
    OBVIOUS
<1>3. IsWellFoundedOn(R, Nat)
    BY <1>2, NatLessThanWellFounded
<1>4. \A m, n \in Nat : m < n => <<m, n>> \in R
    BY <1>2 DEF OpToRel
<1>5. PICK i \in Matches(id) : \A j \in Matches(id) : ~(<<j, i>> \in R)
    BY <1>1, <1>3, WFMin
<1>6. i \in Nat
    BY <1>1, <1>5
<1>7. ASSUME NEW j \in Matches(id) PROVE i <= j
  <2>1. j \in Nat /\ ~(<<j, i>> \in R)
    BY <1>1, <1>5
  <2>2. ~(j < i)
    BY <2>1, <1>4, <1>6, Zenon
  <2> QED
    BY <2>1, <2>2, <1>6
<1> DEFINE k == CHOOSE n \in Matches(id) : \A j \in Matches(id) : n <= j
<1>8. k \in Matches(id)
    BY <1>7
<1>9. Found(id) = fh[k]
    BY DEF Found
<1> HIDE DEF k
<1> QED
    BY <1>1, <1>8, <1>9 DEF Linked

\* A call of foo_find counts, whatever it finds.
LEMMA CallKeeps ==
    ASSUME FooInv, NEW t \in FooThreads, fthr[t] = Idle, fcalls < MaxFooCalls, fcalls' = fcalls + 1,
           UNCHANGED <<version, foo, fh, hashlock, fthr, frefs>>
    PROVE  FooInv'
<1>1. FooTypes /\ fcalls \in Nat /\ MaxFooCalls \in Nat /\ fcalls' \in 0..MaxFooCalls
    BY ObjectTableAssumption DEF FooInv, FooTypes
<1>2. FooTypes' /\ Chain(fh, Len(foo))' /\ FooPlaces' /\ HashLocked'
    BY <1>1 DEF FooInv, FooTypes, Chain, FooPlaces, HashLocked
<1>3. ASSUME NEW o \in 1..Len(foo)
      PROVE  Sound(version, foo[o], o, fthr, RefsTo(frefs, o), Linked(fh, o), fcalls + 1)
  <2>1. /\ o # 0 /\ foo[o] \in Object /\ Refs(RefsTo(frefs, o)) \in Nat /\ Linked(fh, o) \in BOOLEAN
        /\ Sound(version, foo[o], o, fthr, RefsTo(frefs, o), Linked(fh, o), fcalls)
    BY ObjectFacts
  <2>2. BooksFollow(version, foo[o], foo[o], o, Idle, Idle, Refs(RefsTo(frefs, o)), Refs(RefsTo(frefs, o)),
                    Linked(fh, o), Linked(fh, o), fcalls, fcalls + 1, FALSE)
    BY <1>1, <2>1, BooksOfCall
  <2>3. ThreadMoves(fthr, fthr, t, Idle)
    BY <1>1, NewPlaces DEF ThreadMoves, FooTypes
  <2> QED
    BY <2>1, <2>2, <2>3, SoundFollows
<1>4. Objects'
    BY <1>3 DEF Objects
<1> QED
    BY <1>2, <1>4 DEF FooInv

\* foo_find of mutex2 with the lock of the table.
LEMMA FindKeepsObjects ==
    ASSUME FooInv, NEW t \in FooThreads, NEW id, foo_find(t, id) PROVE FooInv'
<1>1. CASE Matches(id) = {}
    BY <1>1, CallKeeps DEF foo_find, BeginFind
<1>2. CASE Matches(id) # {}
  <2> DEFINE o == Found(id)
             place == [pc |-> "find", fp |-> o]
             refs == Refs(RefsTo(frefs, o))
  <2>1. o \in 1..Len(foo) /\ Linked(fh, o) = TRUE
    BY <1>2, FoundIsLinked DEF Linked
  <2> HIDE DEF o
  <2>2. o # 0 /\ foo[o] \in Object /\ refs \in Nat /\ fcalls \in Nat /\ MaxFooCalls \in Nat
    BY <2>1, ObjectFacts
  <2>3. place \in Places /\ PlaceIsRight(version, Len(foo), place) /\ place.fp = o /\ place.pc = "find"
    BY <2>1, <2>2 DEF Places, FooPcs, PlaceIsRight, Makers, foo_find
  <2>4. /\ fthr[t] = Idle /\ fthr' = [fthr EXCEPT ![t] = place] /\ fh' = fh /\ fcalls' = fcalls + 1
        /\ hashlock' = t /\ hashlock = Nobody /\ version' = version /\ version = "mutex2"
        /\ fcalls' \in 0..MaxFooCalls /\ frefs' = frefs /\ foo' = [foo EXCEPT ![o] = foo[o]]
    BY <1>2, <2>2 DEF foo_find, BeginFind, FooInv, FooTypes, GoesTo, o
  <2>5. HashLocked'
    BY <2>4, HashLockKept
  <2> HIDE DEF place
  <2>6. FooStepOf(t, place, o, foo[o])
    BY <2>2, <2>3, <2>4 DEF FooStepOf, FooInv, FooTypes, Idle
  <2>7. BooksFollow(version, foo[o], foo[o], o, Idle, place, refs, refs, TRUE, TRUE, fcalls, fcalls + 1, FALSE)
    BY <2>2, <2>4, BooksOfFind DEF place
  <2> QED
    BY <2>1, <2>2, <2>3, <2>4, <2>5, <2>6, <2>7, FooMove
<1> QED
    BY <1>1, <1>2

\* An object that is in the table is live and not being freed, and as many
\* references as were counted are not more than the calls made.
LEMMA InTheTable ==
    ASSUME FooInv, NEW o \in 1..Len(foo), Linked(fh, o)
    PROVE  /\ Refs(RefsTo(frefs, o)) <= foo[o].f_count
           /\ foo[o].f_count + Number(fthr, o, {"find"}) <= 1 + fcalls /\ Number(fthr, o, {"find"}) \in Nat
<1>1. /\ Refs(RefsTo(frefs, o)) \in Nat /\ foo[o].f_count \in Nat /\ fcalls \in Nat
      /\ Sound(version, foo[o], o, fthr, RefsTo(frefs, o), Linked(fh, o), fcalls)
    BY ObjectFacts
<1>2. /\ Number(fthr, o, {"initialize"}) \in Nat /\ Number(fthr, o, {"insert"}) \in Nat /\ Number(fthr, o, Releasers) \in Nat
      /\ Number(fthr, o, {"free"}) \in Nat /\ Number(fthr, o, {"find"}) \in Nat
    BY NumberIsPositive
<1>3. ASSUME NEW x, NEW ini \in Nat, NEW ins \in Nat, NEW rl \in Nat, NEW fr \in Nat, NEW fi \in Nat, NEW n \in Nat,
             NEW linked, NEW calls \in Nat, linked, x.f_count \in Nat,
             Books(version, x, ini, ins, rl, fr, fi, n, linked, calls)
      PROVE  n <= x.f_count /\ x.f_count + fi <= 1 + calls
    BY <1>3 DEF Books
<1> QED
    BY <1>1, <1>2, <1>3 DEF Sound

\* foo_find of mutex3.
LEMMA Find3Keeps ==
    ASSUME FooInv, NEW t \in FooThreads, NEW id, foo_find3(t, id) PROVE FooInv'
<1>1. CASE Matches(id) = {}
    BY <1>1, CallKeeps DEF foo_find3, BeginFind
<1>2. CASE Matches(id) # {}
  <2> DEFINE o == Found(id)
             x == [foo[o] EXCEPT !.f_count = foo[o].f_count + 1]
             refs == Refs(RefsTo(frefs, o))
  <2>1. o \in 1..Len(foo) /\ Linked(fh, o) = TRUE
    BY <1>2, FoundIsLinked DEF Linked
  <2>2. /\ fthr[t] = Idle /\ UNCHANGED <<fthr, fh, hashlock, version>> /\ fcalls' = fcalls + 1 /\ fcalls < MaxFooCalls
        /\ version = "mutex3" /\ foo' = [foo EXCEPT ![o].f_count = foo[o].f_count + 1] /\ Refers(t, o)
    BY <1>2 DEF foo_find3, BeginFind
  <2> HIDE DEF o
  <2>3. /\ o # 0 /\ foo[o] \in Object /\ refs \in Nat /\ fcalls \in Nat /\ MaxFooCalls \in Nat /\ MaxRefs \in Nat
        /\ foo[o].f_count \in Nat /\ 1 + MaxFooCalls <= MaxRefs
    BY <2>1, ObjectFacts
  <2>4. refs <= foo[o].f_count /\ foo[o].f_count <= 1 + fcalls
    BY <2>1, <2>3, InTheTable
  <2>5. refs < MaxRefs
    BY <2>2, <2>3, <2>4
  <2>6. /\ frefs' \in [FooThreads -> [Foos -> 0..MaxRefs]] /\ Refs(RefsTo(frefs', o)) = refs + 1
        /\ \A u \in FooThreads : \A p \in Foos \ {o} : frefs'[u][p] = frefs[u][p]
    BY <2>1, <2>2, <2>5, GetsReference
  <2>7. x \in Object
    BY <2>3 DEF Object
  <2>8. foo' = [foo EXCEPT ![o] = x]
    BY <2>2
  <2>9. Idle \in Places /\ PlaceIsRight(version, Len(foo), Idle) /\ Idle.fp = 0 /\ Idle.pc = "idle"
    BY NewPlaces DEF Idle
  <2>10. fthr' = [fthr EXCEPT ![t] = Idle] /\ fcalls' \in 0..MaxFooCalls
    BY <2>2, <2>3 DEF FooInv, FooTypes
  <2>11. HashLocked'
    BY <2>2, <2>9, <2>10, HashLockKept
  <2>12. BooksFollow(version, foo[o], x, o, Idle, Idle, refs, refs + 1, TRUE, TRUE, fcalls, fcalls + 1, FALSE)
    BY <2>2, <2>3, BooksOfFind3
  <2> HIDE DEF x
  <2>13. FooStepOf(t, Idle, o, x)
    <3>1. fthr[t].fp \in {0, o} /\ version' = version /\ fcalls <= fcalls' /\ hashlock' = hashlock /\ fh' = fh
      BY <2>2, <2>3, <2>9
    <3>2. Chain(fh, Len(foo)) /\ hashlock \in FooThreads \cup {Nobody}
      BY DEF FooInv, FooTypes
    <3> QED
      BY <3>1, <3>2, <2>6, <2>8, <2>9, <2>10 DEF FooStepOf
  <2> QED
    BY <2>1, <2>2, <2>6, <2>7, <2>9, <2>11, <2>12, <2>13, FooMove
<1> QED
    BY <1>1, <1>2

\* foo_find of mutex2 with both locks: it counts.
LEMMA FindHoldsKeeps ==
    ASSUME FooInv, NEW t \in FooThreads, FindHolds(t) PROVE FooInv'
<1> DEFINE o == fthr[t].fp
           x == [foo[o] EXCEPT !.f_count = foo[o].f_count + 1]
           refs == Refs(RefsTo(frefs, o))
<1>1. /\ fthr[t].pc = "find" /\ foo[o].f_lock = Nobody /\ foo' = [foo EXCEPT ![o].f_count = foo[o].f_count + 1]
      /\ Refers(t, o) /\ hashlock' = Nobody /\ fthr' = [fthr EXCEPT ![t] = Idle] /\ UNCHANGED <<version, fh, fcalls>>
    BY DEF FindHolds, Returns
<1>2. o \in 1..Len(foo) /\ fthr[t] = [pc |-> "find", fp |-> o] /\ fthr[t].fp = o
    BY <1>1, InACall
<1> HIDE DEF o
<1>3. /\ o # 0 /\ foo[o] \in Object /\ refs \in Nat /\ fcalls \in Nat /\ MaxFooCalls \in Nat /\ MaxRefs \in Nat
      /\ foo[o].f_count \in Nat /\ 1 + MaxFooCalls <= MaxRefs /\ Linked(fh, o) \in BOOLEAN /\ fcalls <= MaxFooCalls
      /\ Sound(version, foo[o], o, fthr, RefsTo(frefs, o), Linked(fh, o), fcalls)
    BY <1>2, ObjectFacts
<1>4. Number(fthr, o, {"find"}) > 0
    BY <1>1, <1>2, NumberIsPositive
<1>5. Linked(fh, o)
    BY <1>3, <1>4 DEF Sound, Books
<1>6. refs <= foo[o].f_count /\ foo[o].f_count + Number(fthr, o, {"find"}) <= 1 + fcalls
      /\ Number(fthr, o, {"find"}) \in Nat
    BY <1>2, <1>5, InTheTable
<1>7. refs < MaxRefs
    BY <1>3, <1>4, <1>6
<1>8. /\ frefs' \in [FooThreads -> [Foos -> 0..MaxRefs]] /\ Refs(RefsTo(frefs', o)) = refs + 1
      /\ \A u \in FooThreads : \A p \in Foos \ {o} : frefs'[u][p] = frefs[u][p]
    BY <1>1, <1>2, <1>7, GetsReference
<1>9. x \in Object
    BY <1>3 DEF Object
<1>10. foo' = [foo EXCEPT ![o] = x]
    BY <1>1
<1>11. Idle \in Places /\ PlaceIsRight(version, Len(foo), Idle) /\ Idle.fp = 0 /\ Idle.pc = "idle"
    BY NewPlaces DEF Idle
<1>12. HashLocked'
    BY <1>1, <1>11, HashLockKept
<1>13. BooksFollow(version, foo[o], x, o, [pc |-> "find", fp |-> o], Idle, refs, refs + 1,
                   Linked(fh, o), Linked(fh, o), fcalls, fcalls, FALSE)
    BY <1>1, <1>3, BooksOfFound
<1> HIDE DEF x
<1>14. FooStepOf(t, Idle, o, x)
  <2>1. /\ fthr[t].fp \in {0, o} /\ version' = version /\ fcalls <= fcalls' /\ fcalls' \in 0..MaxFooCalls
        /\ hashlock' = Nobody /\ fh' = fh /\ fthr' = [fthr EXCEPT ![t] = Idle]
    BY <1>1, <1>2, <1>3
  <2>2. Chain(fh, Len(foo))
    BY DEF FooInv
  <2> QED
    BY <2>1, <2>2, <1>8, <1>10, <1>11 DEF FooStepOf
<1> QED
    BY <1>1, <1>2, <1>8, <1>9, <1>11, <1>12, <1>13, <1>14, FooMove

\* foo_alloc: the initialized object is its maker's.
LEMMA AllocReturnsKeeps ==
    ASSUME FooInv, NEW t \in FooThreads, AllocReturns(t) PROVE FooInv'
<1> DEFINE o == fthr[t].fp
           x == [foo[o] EXCEPT !.ready = TRUE, !.f_lock = Nobody]
           refs == Refs(RefsTo(frefs, o))
<1>1. /\ fthr[t].pc = "initialize" /\ foo' = [foo EXCEPT ![o].ready = TRUE, ![o].f_lock = Nobody]
      /\ Refers(t, o) /\ fthr' = [fthr EXCEPT ![t] = Idle] /\ UNCHANGED <<version, fh, hashlock, fcalls>>
    BY DEF AllocReturns, Returns
<1>2. o \in 1..Len(foo) /\ fthr[t] = [pc |-> "initialize", fp |-> o] /\ fthr[t].fp = o
    BY <1>1, InACall
<1> HIDE DEF o
<1>3. /\ o # 0 /\ foo[o] \in Object /\ refs \in Nat /\ fcalls \in Nat /\ MaxFooCalls \in Nat /\ MaxRefs \in Nat
      /\ foo[o].f_count \in Nat /\ 1 + MaxFooCalls <= MaxRefs /\ Linked(fh, o) \in BOOLEAN /\ fcalls <= MaxFooCalls
      /\ Sound(version, foo[o], o, fthr, RefsTo(frefs, o), Linked(fh, o), fcalls)
    BY <1>2, ObjectFacts
<1>4. Number(fthr, o, {"initialize"}) > 0
    BY <1>1, <1>2, NumberIsPositive
<1>5. refs + 1 <= 1 + fcalls
  <2>1. /\ Number(fthr, o, {"initialize"}) \in Nat /\ Number(fthr, o, {"insert"}) \in Nat /\ Number(fthr, o, Releasers) \in Nat
        /\ Number(fthr, o, {"free"}) \in Nat /\ Number(fthr, o, {"find"}) \in Nat
    BY NumberIsPositive
  <2>2. ASSUME NEW y, NEW ini \in Nat, NEW ins \in Nat, NEW rl \in Nat, NEW fr \in Nat, NEW fi \in Nat, NEW n \in Nat,
               NEW linked, NEW calls \in Nat, ini > 0, y.f_count \in Nat,
               Books(version, y, ini, ins, rl, fr, fi, n, linked, calls)
        PROVE  n + 1 <= 1 + calls
    BY <2>2 DEF Books
  <2> QED
    BY <1>3, <1>4, <2>1, <2>2 DEF Sound
<1>6. refs < MaxRefs
    BY <1>3, <1>5
<1>7. /\ frefs' \in [FooThreads -> [Foos -> 0..MaxRefs]] /\ Refs(RefsTo(frefs', o)) = refs + 1
      /\ \A u \in FooThreads : \A p \in Foos \ {o} : frefs'[u][p] = frefs[u][p]
    BY <1>1, <1>2, <1>6, GetsReference
<1>8. x \in Object
    BY <1>3 DEF Object
<1>9. foo' = [foo EXCEPT ![o] = x]
    BY <1>1, <1>2 DEF FooInv, FooTypes
<1>10. Idle \in Places /\ PlaceIsRight(version, Len(foo), Idle) /\ Idle.fp = 0 /\ Idle.pc = "idle"
    BY NewPlaces DEF Idle
<1>11. HashLocked'
    BY <1>1, <1>10, HashLockKept
<1>12. BooksFollow(version, foo[o], x, o, [pc |-> "initialize", fp |-> o], Idle, refs, refs + 1,
                   Linked(fh, o), Linked(fh, o), fcalls, fcalls, FALSE)
    BY <1>3, BooksOfInitialized
<1> HIDE DEF x
<1>13. FooStepOf(t, Idle, o, x)
  <2>1. /\ fthr[t].fp \in {0, o} /\ version' = version /\ fcalls <= fcalls' /\ fcalls' \in 0..MaxFooCalls
        /\ hashlock' = hashlock /\ fh' = fh /\ fthr' = [fthr EXCEPT ![t] = Idle]
    BY <1>1, <1>2, <1>3
  <2>2. Chain(fh, Len(foo)) /\ hashlock \in FooThreads \cup {Nobody}
    BY DEF FooInv, FooTypes
  <2> QED
    BY <2>1, <2>2, <1>7, <1>9, <1>10 DEF FooStepOf
<1> QED
    BY <1>1, <1>2, <1>7, <1>8, <1>10, <1>11, <1>12, <1>13, FooMove

\* foo_alloc puts an object at the head of the chain.
LEMMA ChainGrows ==
    ASSUME NEW n \in Nat, NEW s, Chain(s, n), NEW o \in 1..n, ~Linked(s, o), NEW s2, s2 = <<o>> \o s
    PROVE  Chain(s2, n) /\ Linked(s2, o) /\ \A p \in 1..n : p # o => (Linked(s2, p) <=> Linked(s, p))
<1>1. s \in Seq(1..n) /\ Len(s) \in Nat /\ \A i, j \in 1..Len(s) : s[i] = s[j] => i = j
    BY DEF Chain
<1>2. s2 \in Seq(1..n) /\ Len(s2) = Len(s) + 1 /\ s2[1] = o
    BY <1>1
<1>3. \A i \in 1..Len(s) : s2[i + 1] = s[i] /\ s[i] # o
    BY <1>1 DEF Linked
<1>4. \A i \in 1..Len(s2) : i = 1 \/ (i - 1 \in 1..Len(s) /\ s2[i] = s[i - 1])
    BY <1>1, <1>2
<1>5. ASSUME NEW i \in 1..Len(s2), NEW j \in 1..Len(s2), s2[i] = s2[j] PROVE i = j
  <2>1. CASE i = 1 \/ j = 1
    BY <2>1, <1>2, <1>3, <1>4, <1>5
  <2>2. CASE i # 1 /\ j # 1
    <3>1. i - 1 \in 1..Len(s) /\ j - 1 \in 1..Len(s) /\ s[i - 1] = s[j - 1]
      BY <2>2, <1>4, <1>5
    <3>2. i - 1 = j - 1
      BY <3>1, <1>1
    <3> QED
      BY <3>2
  <2> QED
    BY <2>1, <2>2
<1>6. \A p \in 1..n : p # o => (Linked(s2, p) <=> Linked(s, p))
  <2> SUFFICES ASSUME NEW p \in 1..n, p # o PROVE Linked(s2, p) <=> Linked(s, p)
    OBVIOUS
  <2>1. ASSUME Linked(s, p) PROVE Linked(s2, p)
    <3>1. PICK i \in 1..Len(s) : s[i] = p
      BY <2>1 DEF Linked
    <3>2. i + 1 \in 1..Len(s2) /\ s2[i + 1] = p
      BY <3>1, <1>1, <1>2, <1>3
    <3> QED
      BY <3>2 DEF Linked
  <2>2. ASSUME Linked(s2, p) PROVE Linked(s, p)
    BY <2>2, <1>2, <1>4 DEF Linked
  <2> QED
    BY <2>1, <2>2
<1>7. Linked(s2, o)
    BY <1>1, <1>2 DEF Linked
<1> QED
    BY <1>2, <1>5, <1>6, <1>7 DEF Chain

\* foo_rele takes an object out of the chain.
LEMMA ChainShrinks ==
    ASSUME NEW n \in Nat, Chain(fh, n), NEW o \in 1..n, Linked(fh, o)
    PROVE  /\ Chain(Unlinked(o), n) /\ Linked(Unlinked(o), o) = FALSE
           /\ \A p \in 1..n : p # o => (Linked(Unlinked(o), p) <=> Linked(fh, p))
<1> DEFINE at == CHOOSE i \in DOMAIN fh : fh[i] = o
           s2 == Unlinked(o)
           m == Len(fh)
<1>1. fh \in Seq(1..n) /\ m \in Nat /\ \A i, j \in 1..m : fh[i] = fh[j] => i = j
    BY DEF Chain
<1>2. at \in 1..m /\ fh[at] = o
    BY <1>1 DEF Linked
<1>3. s2 = [i \in 1..(m - 1) |-> IF i < at THEN fh[i] ELSE fh[i + 1]]
    BY DEF Unlinked
<1> HIDE DEF at, s2, m
<1>4. m = Len(fh)
    BY DEF m
<1>5. m - 1 \in Nat
    BY <1>1, <1>2
<1>6. ASSUME NEW i \in 1..(m - 1)
      PROVE  /\ i < at => i \in 1..m /\ s2[i] = fh[i]
             /\ ~(i < at) => i + 1 \in 1..m /\ s2[i] = fh[i + 1]
    BY <1>1, <1>3
<1>7. \A i \in 1..(m - 1) : s2[i] \in 1..n
  <2> TAKE i \in 1..(m - 1)
  <2>1. CASE i < at
    BY <2>1, <1>1, <1>4, <1>6
  <2>2. CASE ~(i < at)
    <3>1. i + 1 \in 1..m /\ s2[i] = fh[i + 1]
      BY <2>2, <1>6
    <3> QED
      BY <3>1, <1>1, <1>4
  <2> QED
    BY <2>1, <2>2
<1>8. s2 \in Seq(1..n) /\ Len(s2) = m - 1
    BY <1>3, <1>5, <1>7
<1>9. \A i \in 1..(m - 1) : \E k \in 1..m \ {at} : s2[i] = fh[k] /\ k = IF i < at THEN i ELSE i + 1
  <2> TAKE i \in 1..(m - 1)
  <2>1. CASE i < at
    BY <2>1, <1>6
  <2>2. CASE ~(i < at)
    <3>1. i + 1 \in 1..m /\ s2[i] = fh[i + 1] /\ i + 1 # at
      BY <2>2, <1>2, <1>6
    <3> QED
      BY <3>1, <2>2
  <2> QED
    BY <2>1, <2>2
<1>10. ASSUME NEW i \in 1..(m - 1), NEW j \in 1..(m - 1), s2[i] = s2[j] PROVE i = j
  <2>1. PICK k \in 1..m \ {at} : s2[i] = fh[k] /\ k = IF i < at THEN i ELSE i + 1
    BY <1>9
  <2>2. PICK l \in 1..m \ {at} : s2[j] = fh[l] /\ l = IF j < at THEN j ELSE j + 1
    BY <1>9
  <2>3. k = l
    BY <2>1, <2>2, <1>1, <1>10
  <2> QED
    BY <2>1, <2>2, <2>3, <1>2
<1>11. ASSUME NEW p \in 1..n, Linked(s2, p) PROVE p # o /\ Linked(fh, p)
  <2>1. PICK i \in 1..(m - 1) : s2[i] = p
    BY <1>8, <1>11 DEF Linked
  <2>2. PICK k \in 1..m \ {at} : s2[i] = fh[k]
    BY <1>9
  <2>3. fh[k] # fh[at]
    BY <2>2, <1>1, <1>2
  <2> QED
    BY <2>1, <2>2, <2>3, <1>2, <1>4 DEF Linked
<1>12. ASSUME NEW p \in 1..n, p # o, Linked(fh, p) PROVE Linked(s2, p)
  <2>1. PICK k \in 1..m : fh[k] = p
    BY <1>4, <1>12 DEF Linked
  <2>2. k # at
    BY <2>1, <1>2, <1>12
  <2>3. CASE k < at
    <3>1. k \in 1..(m - 1) /\ s2[k] = p
      BY <2>1, <2>3, <1>1, <1>2, <1>6
    <3> QED
      BY <3>1, <1>8 DEF Linked
  <2>4. CASE at < k
    <3>1. k - 1 \in 1..(m - 1) /\ ~(k - 1 < at) /\ (k - 1) + 1 = k
      BY <2>1, <2>4, <1>1, <1>2
    <3>2. s2[k - 1] = p
      BY <3>1, <2>1, <1>6
    <3> QED
      BY <3>1, <3>2, <1>8 DEF Linked
  <2> QED
    BY <2>2, <2>3, <2>4, <2>1, <1>2
<1>13. Chain(s2, n)
    BY <1>8, <1>10 DEF Chain
<1>14. Linked(s2, o) = FALSE
    BY <1>11 DEF Linked
<1> QED
    BY <1>11, <1>12, <1>13, <1>14 DEF s2

\* foo_alloc: the object enters the table, locked.
LEMMA AllocInsertsKeeps ==
    ASSUME FooInv, NEW t \in FooThreads, AllocInserts(t) PROVE FooInv'
<1> DEFINE o == fthr[t].fp
           x == [foo[o] EXCEPT !.f_lock = t]
           place == [pc |-> "initialize", fp |-> o]
           refs == Refs(RefsTo(frefs, o))
<1>1. /\ fthr[t].pc = "insert" /\ foo' = [foo EXCEPT ![o].f_lock = t] /\ fh' = <<o>> \o fh
      /\ fthr' = [fthr EXCEPT ![t] = place] /\ UNCHANGED <<version, hashlock, frefs, fcalls>>
    BY DEF AllocInserts, GoesTo
<1>2. o \in 1..Len(foo) /\ fthr[t] = [pc |-> "insert", fp |-> o] /\ fthr[t].fp = o
      /\ version # "mutex1" /\ version \in {"mutex2", "mutex3"}
    BY <1>1, InACall DEF PlaceIsRight, Makers
<1> HIDE DEF o
<1>3. /\ o # 0 /\ foo[o] \in Object /\ refs \in Nat /\ fcalls \in Nat /\ fcalls <= MaxFooCalls
      /\ Linked(fh, o) \in BOOLEAN /\ MaxFooCalls \in Nat
      /\ Sound(version, foo[o], o, fthr, RefsTo(frefs, o), Linked(fh, o), fcalls)
    BY <1>2, ObjectFacts
<1>4. Number(fthr, o, {"insert"}) > 0
    BY <1>1, <1>2, NumberIsPositive
<1>5. ~Linked(fh, o)
    BY <1>3, <1>4 DEF Sound, Books
<1>6. Chain(fh, Len(foo)) /\ Len(foo) \in Nat /\ hashlock \in FooThreads \cup {Nobody}
    BY DEF FooInv, FooTypes
<1>7. Chain(fh', Len(foo)) /\ Linked(fh', o) /\ \A p \in 1..Len(foo) : p # o => (Linked(fh', p) <=> Linked(fh, p))
    BY <1>1, <1>2, <1>5, <1>6, ChainGrows
<1>8. x \in Object
    BY <1>3 DEF Object
<1>9. foo' = [foo EXCEPT ![o] = x]
    BY <1>1, <1>2 DEF FooInv, FooTypes
<1>10. place \in Places /\ PlaceIsRight(version, Len(foo), place) /\ place.fp = o /\ place.pc = "initialize"
    BY <1>2, <1>3 DEF Places, FooPcs, PlaceIsRight, Makers
<1>11. HashLocked'
    BY <1>1, <1>10, HashLockKept
<1>12. BooksFollow(version, foo[o], x, o, [pc |-> "insert", fp |-> o], place, refs, refs,
                   Linked(fh, o), TRUE, fcalls, fcalls, FALSE)
  <2>1. t # Nobody
    BY ObjectTableAssumption DEF Nobody
  <2>2. /\ version # "mutex1" /\ o # 0 /\ foo[o] \in Object /\ refs \in Nat /\ fcalls \in Nat
        /\ Linked(fh, o) \in BOOLEAN
    BY <1>2, <1>3
  <2> QED
    BY <2>1, <2>2, BooksOfInsert
<1> HIDE DEF x, place
<1>13. FooStepOf(t, place, o, x)
  <2>1. /\ fthr[t].fp \in {0, o} /\ version' = version /\ fcalls <= fcalls' /\ fcalls' \in 0..MaxFooCalls
        /\ hashlock' = hashlock /\ fthr' = [fthr EXCEPT ![t] = place] /\ frefs' = frefs
    BY <1>1, <1>2, <1>3
  <2>2. frefs \in [FooThreads -> [Foos -> 0..MaxRefs]]
    BY DEF FooInv, FooTypes
  <2> QED
    BY <2>1, <2>2, <1>6, <1>7, <1>9, <1>10 DEF FooStepOf
<1>14. Linked(fh', o) = TRUE /\ frefs' = frefs /\ fcalls' = fcalls
    BY <1>1, <1>7 DEF Linked
<1> QED
    BY <1>2, <1>8, <1>10, <1>11, <1>12, <1>13, <1>14, FooMove

\* foo_rele where others have references to the object too.
LEMMA DownKeeps ==
    ASSUME FooInv, NEW t \in FooThreads, NEW o \in 1..Len(foo), GiveUp(t, o), ~Last(o), CountDown(o),
           UNCHANGED <<fthr, fh>>
    PROVE  FooInv'
<1> DEFINE x == [foo[o] EXCEPT !.f_count = foo[o].f_count - 1]
           refs == Refs(RefsTo(frefs, o))
<1>1. /\ fthr[t] = Idle /\ frefs[t][o] > 0 /\ frefs' = [frefs EXCEPT ![t][o] = @ - 1] /\ foo[o].f_count # 1
      /\ foo' = [foo EXCEPT ![o].f_count = foo[o].f_count - 1] /\ UNCHANGED <<version, hashlock, fcalls, fthr, fh>>
    BY DEF GiveUp, Last, CountDown
<1>2. /\ o # 0 /\ foo[o] \in Object /\ refs \in Nat /\ fcalls \in Nat /\ fcalls <= MaxFooCalls
      /\ foo[o].f_count \in Nat /\ Linked(fh, o) \in BOOLEAN /\ MaxFooCalls \in Nat
    BY ObjectFacts
<1>3. /\ frefs' \in [FooThreads -> [Foos -> 0..MaxRefs]] /\ refs > 0 /\ Refs(RefsTo(frefs', o)) = refs - 1
      /\ \A u \in FooThreads : \A p \in Foos \ {o} : frefs'[u][p] = frefs[u][p]
    BY <1>1, GivesReference
<1>4. refs <= foo[o].f_count
    BY <1>3, ReferredTo
<1>5. x \in Object
  <2>1. foo[o].f_count - 1 \in Nat
    BY <1>2, <1>3, <1>4
  <2> QED
    BY <2>1, <1>2 DEF Object
<1>6. foo' = [foo EXCEPT ![o] = x]
    BY <1>1
<1>7. Idle \in Places /\ PlaceIsRight(version, Len(foo), Idle) /\ Idle.fp = 0 /\ Idle.pc = "idle"
    BY NewPlaces DEF Idle
<1>8. fthr' = [fthr EXCEPT ![t] = Idle]
    BY <1>1 DEF FooInv, FooTypes
<1>9. HashLocked'
    BY <1>1, <1>7, <1>8, HashLockKept
<1>10. BooksFollow(version, foo[o], x, o, Idle, Idle, refs, refs - 1, Linked(fh, o), Linked(fh, o), fcalls, fcalls, FALSE)
  <2>1. foo[o].f_count # 1 /\ refs > 0
    BY <1>1, <1>3
  <2> QED
    BY <2>1, <1>2, BooksOfDown
<1> HIDE DEF x
<1>11. FooStepOf(t, Idle, o, x)
  <2>1. /\ fthr[t].fp \in {0, o} /\ version' = version /\ fcalls <= fcalls' /\ fcalls' \in 0..MaxFooCalls
        /\ hashlock' = hashlock /\ fh' = fh
    BY <1>1, <1>2, <1>7
  <2>2. Chain(fh, Len(foo)) /\ hashlock \in FooThreads \cup {Nobody}
    BY DEF FooInv, FooTypes
  <2> QED
    BY <2>1, <2>2, <1>3, <1>6, <1>7, <1>8 DEF FooStepOf
<1>12. /\ fthr[t] = Idle /\ fcalls' = fcalls /\ Linked(fh', o) = Linked(fh, o)
       /\ Refs(RefsTo(frefs', o)) = refs - 1
    BY <1>1, <1>3
<1> QED
    BY <1>5, <1>7, <1>9, <1>10, <1>11, <1>12, FooMove

\* An object is in the table from foo_alloc's second step on until it is freed.
LEMMA CountedIsLinked ==
    ASSUME FooInv, NEW o \in 1..Len(foo), version # "mutex1", foo[o].f_count = 1,
           Refs(RefsTo(frefs, o)) > 0 \/ Number(fthr, o, Releasers) > 0
    PROVE  Linked(fh, o)
<1> DEFINE ini == Number(fthr, o, {"initialize"})
           ins == Number(fthr, o, {"insert"})
           rl == Number(fthr, o, Releasers)
           fr == Number(fthr, o, {"free"})
           fi == Number(fthr, o, {"find"})
           refs == Refs(RefsTo(frefs, o))
           linked == Linked(fh, o)
<1>1. refs \in Nat /\ foo[o].f_count \in Nat /\ fcalls \in Nat /\ linked \in BOOLEAN
    BY ObjectFacts
<1>2. ini \in Nat /\ ins \in Nat /\ rl \in Nat /\ fr \in Nat /\ fi \in Nat
    BY NumberIsPositive
<1>3. Books(version, foo[o], ini, ins, rl, fr, fi, refs, linked, fcalls)
  <2>1. Sound(version, foo[o], o, fthr, RefsTo(frefs, o), Linked(fh, o), fcalls)
    BY ObjectFacts
  <2> QED
    BY <2>1 DEF Sound
<1>4. refs > 0 \/ rl > 0
    OBVIOUS
<1> HIDE DEF ini, ins, rl, fr, fi, refs, linked
<1>5. linked
    BY <1>1, <1>2, <1>3, <1>4 DEF Books
<1> QED
    BY <1>5 DEF linked

\* foo_rele of mutex1 and of mutex3 gives the last reference up.
LEMMA LastKeeps ==
    ASSUME FooInv, NEW t \in FooThreads, NEW o \in 1..Len(foo), GiveUp(t, o), Last(o), CountDown(o),
           GoesTo(t, "free", o),
           \/ version = "mutex1" /\ fh' = fh
           \/ version = "mutex3" /\ fh' = Unlinked(o)
    PROVE  FooInv'
<1> DEFINE x == [foo[o] EXCEPT !.f_count = foo[o].f_count - 1]
           place == [pc |-> "free", fp |-> o]
           refs == Refs(RefsTo(frefs, o))
<1>1. /\ fthr[t] = Idle /\ frefs[t][o] > 0 /\ frefs' = [frefs EXCEPT ![t][o] = @ - 1] /\ foo[o].f_count = 1
      /\ foo' = [foo EXCEPT ![o].f_count = foo[o].f_count - 1] /\ UNCHANGED <<version, hashlock, fcalls>>
      /\ fthr' = [fthr EXCEPT ![t] = place]
    BY DEF GiveUp, Last, CountDown, GoesTo
<1>2. /\ o # 0 /\ foo[o] \in Object /\ refs \in Nat /\ fcalls \in Nat /\ fcalls <= MaxFooCalls
      /\ foo[o].f_count \in Nat /\ Linked(fh, o) \in BOOLEAN /\ MaxFooCalls \in Nat
    BY ObjectFacts
<1>3. /\ frefs' \in [FooThreads -> [Foos -> 0..MaxRefs]] /\ refs > 0 /\ Refs(RefsTo(frefs', o)) = refs - 1
      /\ \A u \in FooThreads : \A p \in Foos \ {o} : frefs'[u][p] = frefs[u][p]
    BY <1>1, GivesReference
<1>4. foo[o].f_count = 1 /\ refs > 0 /\ fthr[t] = Idle /\ fcalls' = fcalls /\ Refs(RefsTo(frefs', o)) = refs - 1
    BY <1>1, <1>3
<1>5. x \in Object
  <2>1. foo[o].f_count - 1 \in Nat
    BY <1>2, <1>4
  <2> QED
    BY <2>1, <1>2 DEF Object
<1>6. foo' = [foo EXCEPT ![o] = x]
    BY <1>1
<1>7. place \in Places /\ PlaceIsRight(version, Len(foo), place) /\ place.fp = o /\ place.pc = "free"
    BY <1>2 DEF Places, FooPcs, PlaceIsRight, Makers
<1>8. HashLocked'
    BY <1>1, <1>7, HashLockKept
<1>9. Chain(fh, Len(foo)) /\ Len(foo) \in Nat /\ hashlock \in FooThreads \cup {Nobody}
    BY DEF FooInv, FooTypes
<1>10. /\ Chain(fh', Len(foo)) /\ \A p \in 1..Len(foo) : p # o => (Linked(fh', p) <=> Linked(fh, p))
       /\ BooksFollow(version, foo[o], x, o, Idle, place, refs, refs - 1, Linked(fh, o), Linked(fh', o),
                      fcalls, fcalls, FALSE)
  <2>1. CASE version = "mutex1" /\ fh' = fh
    <3>1. BooksFollow(version, foo[o], x, o, Idle, place, refs, refs - 1, Linked(fh, o), Linked(fh, o),
                      fcalls, fcalls, FALSE)
      BY <2>1, <1>2, <1>4, BooksOfLast1
    <3> QED
      BY <3>1, <2>1, <1>9
  <2>2. CASE version = "mutex3" /\ fh' = Unlinked(o)
    <3>1. Linked(fh, o)
      BY <2>2, <1>4, CountedIsLinked
    <3>2. /\ Chain(Unlinked(o), Len(foo)) /\ Linked(Unlinked(o), o) = FALSE
          /\ \A p \in 1..Len(foo) : p # o => (Linked(Unlinked(o), p) <=> Linked(fh, p))
      BY <3>1, <1>9, ChainShrinks
    <3>3. BooksFollow(version, foo[o], x, o, Idle, place, refs, refs - 1, Linked(fh, o), FALSE,
                      fcalls, fcalls, FALSE)
      BY <2>2, <1>2, <1>4, BooksOfLast3
    <3> QED
      BY <3>2, <3>3, <2>2
  <2> QED
    BY <2>1, <2>2
<1> HIDE DEF x, place
<1>11. FooStepOf(t, place, o, x)
  <2>1. /\ fthr[t].fp \in {0, o} /\ version' = version /\ fcalls <= fcalls' /\ fcalls' \in 0..MaxFooCalls
        /\ hashlock' = hashlock /\ fthr' = [fthr EXCEPT ![t] = place]
    BY <1>1, <1>2 DEF Idle
  <2> QED
    BY <2>1, <1>3, <1>6, <1>7, <1>9, <1>10 DEF FooStepOf
<1> QED
    BY <1>4, <1>5, <1>7, <1>8, <1>10, <1>11, FooMove

\* foo_rele of mutex2 unlocks the object with the last reference.
LEMMA LastOf2Keeps ==
    ASSUME FooInv, NEW t \in FooThreads, NEW o \in 1..Len(foo), GiveUp(t, o), version = "mutex2",
           GoesTo(t, "hashlock", o), UNCHANGED <<foo, fh>>
    PROVE  FooInv'
<1> DEFINE place == [pc |-> "hashlock", fp |-> o]
           refs == Refs(RefsTo(frefs, o))
<1>1. /\ fthr[t] = Idle /\ frefs[t][o] > 0 /\ frefs' = [frefs EXCEPT ![t][o] = @ - 1]
      /\ UNCHANGED <<version, hashlock, fcalls, fh>> /\ fthr' = [fthr EXCEPT ![t] = place]
    BY DEF GiveUp, GoesTo
<1>2. /\ o # 0 /\ foo[o] \in Object /\ refs \in Nat /\ fcalls \in Nat /\ fcalls <= MaxFooCalls
      /\ Linked(fh, o) \in BOOLEAN /\ MaxFooCalls \in Nat
    BY ObjectFacts
<1>3. /\ frefs' \in [FooThreads -> [Foos -> 0..MaxRefs]] /\ refs > 0 /\ Refs(RefsTo(frefs', o)) = refs - 1
      /\ \A u \in FooThreads : \A p \in Foos \ {o} : frefs'[u][p] = frefs[u][p]
    BY <1>1, GivesReference
<1>4. /\ refs > 0 /\ fthr[t] = Idle /\ fcalls' = fcalls /\ Refs(RefsTo(frefs', o)) = refs - 1
      /\ Linked(fh', o) = Linked(fh, o)
    BY <1>1, <1>3
<1>5. foo' = [foo EXCEPT ![o] = foo[o]]
    BY DEF FooInv, FooTypes
<1>6. place \in Places /\ PlaceIsRight(version, Len(foo), place) /\ place.fp = o /\ place.pc = "hashlock"
    BY <1>2 DEF Places, FooPcs, Releasers, PlaceIsRight, Makers
<1>7. HashLocked'
    BY <1>1, <1>6, HashLockKept
<1>8. BooksFollow(version, foo[o], foo[o], o, Idle, place, refs, refs - 1, Linked(fh, o), Linked(fh, o),
                  fcalls, fcalls, FALSE)
    BY <1>2, <1>4, BooksOfLast
<1> HIDE DEF place
<1>9. FooStepOf(t, place, o, foo[o])
  <2>1. /\ fthr[t].fp \in {0, o} /\ version' = version /\ fcalls <= fcalls' /\ fcalls' \in 0..MaxFooCalls
        /\ hashlock' = hashlock /\ fh' = fh /\ fthr' = [fthr EXCEPT ![t] = place]
    BY <1>1, <1>2 DEF Idle
  <2>2. Chain(fh, Len(foo)) /\ hashlock \in FooThreads \cup {Nobody}
    BY DEF FooInv, FooTypes
  <2> QED
    BY <2>1, <2>2, <1>3, <1>5, <1>6 DEF FooStepOf
<1> QED
    BY <1>2, <1>4, <1>6, <1>7, <1>8, <1>9, FooMove

\* foo_rele of mutex2 gets the lock of the table.
LEMMA ReleLocksTableKeeps ==
    ASSUME FooInv, NEW t \in FooThreads, ReleLocksTable(t) PROVE FooInv'
<1> DEFINE o == fthr[t].fp
           place == [pc |-> "recheck", fp |-> o]
           refs == Refs(RefsTo(frefs, o))
<1>1. /\ fthr[t].pc = "hashlock" /\ hashlock = Nobody /\ hashlock' = t /\ fthr' = [fthr EXCEPT ![t] = place]
      /\ UNCHANGED <<version, foo, fh, frefs, fcalls>>
    BY DEF ReleLocksTable, GoesTo
<1>2. o \in 1..Len(foo) /\ fthr[t] = [pc |-> "hashlock", fp |-> o] /\ fthr[t].fp = o /\ version = "mutex2"
    BY <1>1, InACall DEF PlaceIsRight
<1> HIDE DEF o
<1>3. /\ o # 0 /\ foo[o] \in Object /\ refs \in Nat /\ fcalls \in Nat /\ fcalls <= MaxFooCalls
      /\ Linked(fh, o) \in BOOLEAN /\ MaxFooCalls \in Nat
    BY <1>2, ObjectFacts
<1>4. foo' = [foo EXCEPT ![o] = foo[o]]
    BY <1>1 DEF FooInv, FooTypes
<1>5. place \in Places /\ PlaceIsRight(version, Len(foo), place) /\ place.fp = o /\ place.pc = "recheck"
    BY <1>2, <1>3 DEF Places, FooPcs, Releasers, PlaceIsRight, Makers
<1>6. HashLocked'
    BY <1>1, HashLockKept
<1>7. BooksFollow(version, foo[o], foo[o], o, [pc |-> "hashlock", fp |-> o], place, refs, refs,
                  Linked(fh, o), Linked(fh, o), fcalls, fcalls, FALSE)
    BY <1>3, BooksOfLocks
<1> HIDE DEF place
<1>8. FooStepOf(t, place, o, foo[o])
  <2>1. /\ fthr[t].fp \in {0, o} /\ version' = version /\ fcalls <= fcalls' /\ fcalls' \in 0..MaxFooCalls
        /\ hashlock' = t /\ fh' = fh /\ frefs' = frefs /\ fthr' = [fthr EXCEPT ![t] = place]
    BY <1>1, <1>2, <1>3
  <2>2. Chain(fh, Len(foo)) /\ frefs \in [FooThreads -> [Foos -> 0..MaxRefs]]
    BY DEF FooInv, FooTypes
  <2> QED
    BY <2>1, <2>2, <1>4, <1>5 DEF FooStepOf
<1>9. frefs' = frefs /\ fcalls' = fcalls /\ fh' = fh
    BY <1>1
<1> QED
    BY <1>2, <1>3, <1>5, <1>6, <1>7, <1>8, <1>9, FooMove

\* foo_rele of mutex2 looks again under both locks: nobody can be finding the
\* object now, so the count decides.
LEMMA ReleRechecksKeeps ==
    ASSUME FooInv, NEW t \in FooThreads, ReleRechecks(t) PROVE FooInv'
<1> DEFINE o == fthr[t].fp
           refs == Refs(RefsTo(frefs, o))
<1>1. fthr[t].pc = "recheck" /\ hashlock' = Nobody /\ UNCHANGED <<version, frefs, fcalls>>
    BY DEF ReleRechecks
<1>2. o \in 1..Len(foo) /\ fthr[t] = [pc |-> "recheck", fp |-> o] /\ fthr[t].fp = o
      /\ version = "mutex2"
    BY <1>1, InACall DEF PlaceIsRight
<1>3. \/ /\ foo[o].f_count # 1 /\ foo' = [foo EXCEPT ![o].f_count = foo[o].f_count - 1]
         /\ fthr' = [fthr EXCEPT ![t] = Idle] /\ fh' = fh
      \/ /\ foo[o].f_count = 1 /\ fh' = Unlinked(o) /\ fthr' = [fthr EXCEPT ![t] = [pc |-> "free", fp |-> o]]
         /\ foo' = foo
    BY DEF ReleRechecks, Returns, GoesTo
<1> HIDE DEF o
<1>4. /\ o # 0 /\ foo[o] \in Object /\ refs \in Nat /\ fcalls \in Nat /\ fcalls <= MaxFooCalls
      /\ foo[o].f_count \in Nat /\ Linked(fh, o) \in BOOLEAN /\ MaxFooCalls \in Nat
      /\ Sound(version, foo[o], o, fthr, RefsTo(frefs, o), Linked(fh, o), fcalls)
    BY <1>2, ObjectFacts
<1>5. Number(fthr, o, Releasers) > 0
    BY <1>1, <1>2, NumberIsPositive DEF Releasers
<1>6. /\ Number(fthr, o, {"initialize"}) \in Nat /\ Number(fthr, o, {"insert"}) \in Nat /\ Number(fthr, o, Releasers) \in Nat
      /\ Number(fthr, o, {"free"}) \in Nat /\ Number(fthr, o, {"find"}) \in Nat
    BY NumberIsPositive
<1>7. foo[o].f_count > 0
  <2> DEFINE ini == Number(fthr, o, {"initialize"})
             ins == Number(fthr, o, {"insert"})
             rl == Number(fthr, o, Releasers)
             fr == Number(fthr, o, {"free"})
             fi == Number(fthr, o, {"find"})
             linked == Linked(fh, o)
  <2>1. Books(version, foo[o], ini, ins, rl, fr, fi, refs, linked, fcalls) /\ rl > 0
    BY <1>4, <1>5 DEF Sound
  <2>2. ini \in Nat /\ ins \in Nat /\ rl \in Nat /\ fr \in Nat /\ fi \in Nat
    BY <1>6
  <2> HIDE DEF ini, ins, rl, fr, fi, linked, refs
  <2> QED
    BY <2>1, <2>2, <1>4 DEF Books
<1>8. Chain(fh, Len(foo)) /\ Len(foo) \in Nat /\ frefs \in [FooThreads -> [Foos -> 0..MaxRefs]] /\ HashLocked
    BY DEF FooInv, FooTypes
<1>9. frefs' = frefs /\ fcalls' = fcalls /\ version' = version /\ fcalls <= fcalls' /\ fcalls' \in 0..MaxFooCalls
      /\ fthr[t].fp \in {0, o}
    BY <1>1, <1>2, <1>4
<1>10. CASE /\ foo[o].f_count # 1 /\ foo' = [foo EXCEPT ![o].f_count = foo[o].f_count - 1]
            /\ fthr' = [fthr EXCEPT ![t] = Idle] /\ fh' = fh
  <2> DEFINE x == [foo[o] EXCEPT !.f_count = foo[o].f_count - 1]
  <2>1. x \in Object
    <3>1. foo[o].f_count - 1 \in Nat
      BY <1>4, <1>7
    <3> QED
      BY <3>1, <1>4 DEF Object
  <2>2. foo' = [foo EXCEPT ![o] = x]
    BY <1>10
  <2>3. Idle \in Places /\ PlaceIsRight(version, Len(foo), Idle) /\ Idle.fp = 0 /\ Idle.pc = "idle"
    BY NewPlaces DEF Idle
  <2>4. HashLocked'
    BY <1>1, <1>10, <2>3, HashLockKept
  <2>5. BooksFollow(version, foo[o], x, o, [pc |-> "recheck", fp |-> o], Idle, refs, refs,
                    Linked(fh, o), Linked(fh, o), fcalls, fcalls, FALSE)
    <3>1. foo[o].f_count # 1
      BY <1>10
    <3> QED
      BY <3>1, <1>4, BooksOfRecheck
  <2> HIDE DEF x
  <2>6. FooStepOf(t, Idle, o, x)
    BY <1>1, <1>8, <1>9, <1>10, <2>2, <2>3 DEF FooStepOf
  <2>7. Linked(fh', o) = Linked(fh, o)
    BY <1>10
  <2> QED
    BY <1>2, <1>9, <2>1, <2>3, <2>4, <2>5, <2>6, <2>7, FooMove
<1>11. CASE /\ foo[o].f_count = 1 /\ fh' = Unlinked(o) /\ fthr' = [fthr EXCEPT ![t] = [pc |-> "free", fp |-> o]]
            /\ foo' = foo
  <2> DEFINE place == [pc |-> "free", fp |-> o]
  <2>1. Number(fthr, o, {"find"}) = 0
    <3>1. \A u \in FooThreads : ~(fthr[u].fp = o /\ fthr[u].pc \in {"find"})
      BY <1>1, <1>8 DEF HashLocked
    <3>2. ~(Number(fthr, o, {"find"}) > 0)
      BY <3>1, NumberIsPositive
    <3> QED
      BY <3>2, <1>6
  <2>2. /\ Chain(Unlinked(o), Len(foo)) /\ Linked(Unlinked(o), o) = FALSE
        /\ \A p \in 1..Len(foo) : p # o => (Linked(Unlinked(o), p) <=> Linked(fh, p))
    <3>1. Linked(fh, o)
      BY <1>2, <1>5, <1>11, CountedIsLinked
    <3> QED
      BY <3>1, <1>2, <1>8, ChainShrinks
  <2>3. place \in Places /\ PlaceIsRight(version, Len(foo), place) /\ place.fp = o /\ place.pc = "free"
    BY <1>2, <1>4 DEF Places, FooPcs, PlaceIsRight, Makers
  <2>4. HashLocked'
    BY <1>1, <1>11, <2>3, HashLockKept
  <2>5. BooksFollow(version, foo[o], foo[o], o, [pc |-> "recheck", fp |-> o], place, refs, refs,
                    Linked(fh, o), FALSE, fcalls, fcalls, TRUE)
    BY <1>4, <1>11, BooksOfUnlink
  <2>6. foo' = [foo EXCEPT ![o] = foo[o]]
    BY <1>11 DEF FooInv, FooTypes
  <2>7. fthr' = [fthr EXCEPT ![t] = place] /\ Linked(fh', o) = FALSE
    BY <1>11, <2>2
  <2> HIDE DEF place
  <2>8. FooStepOf(t, place, o, foo[o])
    BY <1>1, <1>8, <1>9, <1>11, <2>2, <2>3, <2>6, <2>7 DEF FooStepOf
  <2> QED
    BY <1>2, <1>4, <1>9, <2>1, <2>3, <2>4, <2>5, <2>7, <2>8, FooMove
<1> QED
    BY <1>3, <1>10, <1>11

\* foo_rele frees the object.
LEMMA ReleFreesKeeps ==
    ASSUME FooInv, NEW t \in FooThreads, ReleFrees(t) PROVE FooInv'
<1> DEFINE o == fthr[t].fp
           x == [foo[o] EXCEPT !.live = FALSE]
           refs == Refs(RefsTo(frefs, o))
<1>1. /\ fthr[t].pc = "free" /\ foo' = [foo EXCEPT ![o].live = FALSE] /\ fthr' = [fthr EXCEPT ![t] = Idle]
      /\ UNCHANGED <<version, fh, hashlock, frefs, fcalls>>
    BY DEF ReleFrees, Returns
<1>2. o \in 1..Len(foo) /\ fthr[t] = [pc |-> "free", fp |-> o] /\ fthr[t].fp = o
    BY <1>1, InACall
<1> HIDE DEF o
<1>3. /\ o # 0 /\ foo[o] \in Object /\ refs \in Nat /\ fcalls \in Nat /\ fcalls <= MaxFooCalls
      /\ Linked(fh, o) \in BOOLEAN /\ MaxFooCalls \in Nat
    BY <1>2, ObjectFacts
<1>4. x \in Object
    BY <1>3 DEF Object
<1>5. foo' = [foo EXCEPT ![o] = x]
    BY <1>1
<1>6. Idle \in Places /\ PlaceIsRight(version, Len(foo), Idle) /\ Idle.fp = 0 /\ Idle.pc = "idle"
    BY NewPlaces DEF Idle
<1>7. HashLocked'
    BY <1>1, <1>6, HashLockKept
<1>8. BooksFollow(version, foo[o], x, o, [pc |-> "free", fp |-> o], Idle, refs, refs,
                  Linked(fh, o), Linked(fh, o), fcalls, fcalls, FALSE)
    BY <1>3, BooksOfFree
<1> HIDE DEF x
<1>9. FooStepOf(t, Idle, o, x)
  <2>1. /\ fthr[t].fp \in {0, o} /\ version' = version /\ fcalls <= fcalls' /\ fcalls' \in 0..MaxFooCalls
        /\ hashlock' = hashlock /\ fh' = fh /\ frefs' = frefs /\ fthr' = [fthr EXCEPT ![t] = Idle]
    BY <1>1, <1>2, <1>3
  <2>2. Chain(fh, Len(foo)) /\ hashlock \in FooThreads \cup {Nobody} /\ frefs \in [FooThreads -> [Foos -> 0..MaxRefs]]
    BY DEF FooInv, FooTypes
  <2> QED
    BY <2>1, <2>2, <1>5, <1>6 DEF FooStepOf
<1>10. frefs' = frefs /\ fcalls' = fcalls /\ fh' = fh
    BY <1>1
<1> QED
    BY <1>2, <1>4, <1>6, <1>7, <1>8, <1>9, <1>10, FooMove

\* foo_alloc: a new object, that nobody else knows of, and its maker's place.
NewObjectOf(t, place, o, x) ==
    /\ o = Len(foo) + 1 /\ Len(foo) < MaxFoos /\ version # "none" /\ fthr[t] = Idle
    /\ foo' = Append(foo, x) /\ fthr' = [fthr EXCEPT ![t] = place] /\ UNCHANGED <<version, fh, hashlock, fcalls>>
    /\ place.fp \in {0, o} /\ PlaceIsRight(version, o, place) /\ place.pc \notin {"find", "recheck"}
    /\ frefs' \in [FooThreads -> [Foos -> 0..MaxRefs]]
    /\ \A u \in FooThreads : \A p \in Foos \ {o} : frefs'[u][p] = frefs[u][p]

\* It keeps the others' books.
LEMMA NewObjectKeeps ==
    ASSUME FooInv, NEW t \in FooThreads, NEW place \in Places, NEW o, NEW x \in Object,
           NewObjectOf(t, place, o, x), Sound(version, x, o, fthr', RefsTo(frefs', o), FALSE, fcalls)
    PROVE  FooInv'
<1> USE DEF NewObjectOf
<1>0. FooTypes /\ FooPlaces /\ Objects /\ Chain(fh, Len(foo))
    BY DEF FooInv
<1>1. foo \in Seq(Object) /\ Len(foo) \in Nat /\ fthr \in [FooThreads -> Places] /\ MaxFoos \in Nat /\ fcalls \in Nat
    BY <1>0, ObjectTableAssumption DEF FooTypes
<1>2. foo' \in Seq(Object) /\ Len(foo') = o /\ foo'[o] = x /\ o \in Foos /\ o # 0
      /\ \A p \in 1..Len(foo) : foo'[p] = foo[p]
    BY <1>1 DEF Foos
<1>3. fthr' \in [FooThreads -> Places] /\ fthr'[t] = place /\ \A u \in FooThreads : u # t => fthr'[u] = fthr[u]
    BY <1>1
<1>4. FooTypes'
    BY <1>0, <1>1, <1>2, <1>3 DEF FooTypes
<1>5. Chain(fh', Len(foo'))
  <2>1. fh \in Seq(1..Len(foo)) /\ \A i, j \in 1..Len(fh) : fh[i] = fh[j] => i = j
    BY <1>0 DEF Chain
  <2>2. \A i \in 1..Len(fh) : fh[i] \in 1..o
    BY <2>1, <1>1
  <2>3. fh \in Seq(1..o)
    BY <2>1, <2>2
  <2> QED
    BY <2>1, <2>3, <1>2 DEF Chain
<1>6. FooPlaces'
  <2>1. ASSUME NEW u \in FooThreads PROVE PlaceIsRight(version', Len(foo'), fthr'[u])
    <3>1. CASE u = t
      BY <3>1, <1>2, <1>3
    <3>2. CASE u # t
      <4>1. PlaceIsRight(version, Len(foo), fthr[u]) /\ fthr[u] \in Places
        BY <1>0, <1>1 DEF FooPlaces
      <4>2. PlaceIsRight(version, o, fthr[u])
        BY <4>1, <1>1 DEF PlaceIsRight, Places
      <4> QED
        BY <4>2, <3>2, <1>2, <1>3
    <3> QED
      BY <3>1, <3>2
  <2>2. ASSUME NEW u \in FooThreads, NEW p \in Foos, p > Len(foo') PROVE frefs'[u][p] = 0
    <3>1. p # o /\ p > Len(foo)
      BY <2>2, <1>1, <1>2 DEF Foos
    <3> QED
      BY <3>1, <1>0 DEF FooPlaces
  <2> QED
    BY <2>1, <2>2 DEF FooPlaces
<1>7. HashLocked'
    BY HashLockKept
<1>8. Objects'
  <2> SUFFICES ASSUME NEW p \in 1..o
               PROVE  Sound(version, foo'[p], p, fthr', RefsTo(frefs', p), Linked(fh, p), fcalls)
    BY <1>2 DEF Objects
  <2>1. CASE p = o
    <3>1. Linked(fh, o) = FALSE
      BY <1>0, <1>1 DEF Chain, Linked
    <3> QED
      BY <2>1, <3>1, <1>2
  <2>2. CASE p # o
    <3>1. p \in 1..Len(foo) /\ p \in Foos \ {o} /\ p # 0
      BY <2>2, <1>1 DEF Foos
    <3>2. Sound(version, foo[p], p, fthr, RefsTo(frefs, p), Linked(fh, p), fcalls) /\ foo[p] \in Object
      BY <3>1, <1>0, <1>1 DEF Objects
    <3>3. fthr[t].fp # p /\ place.fp # p
      BY <2>2, <3>1 DEF Idle
    <3>4. fcalls <= fcalls /\ fthr' = [fthr EXCEPT ![t] = place]
      BY <1>1
    <3>5. Sound(version, foo[p], p, fthr', RefsTo(frefs, p), Linked(fh, p), fcalls)
      BY <3>2, <3>3, <3>4, <1>1, Untouched, ZenonT(30)
    <3>6. RefsTo(frefs', p) = RefsTo(frefs, p) /\ foo'[p] = foo[p]
      BY <3>1, <1>2 DEF RefsTo
    <3> QED
      BY <3>5, <3>6
  <2> QED
    BY <2>1, <2>2
<1> QED
    BY <1>4, <1>5, <1>6, <1>7, <1>8 DEF FooInv

\* Who is at an object that nobody else has to do with.
OnlyAt(g, o, place) ==
    /\ Number(g, o, {"initialize"}) = Is(place, o, {"initialize"}) /\ Number(g, o, {"insert"}) = Is(place, o, {"insert"})
    /\ Number(g, o, Releasers) = Is(place, o, Releasers) /\ Number(g, o, {"free"}) = Is(place, o, {"free"})
    /\ Number(g, o, {"find"}) = Is(place, o, {"find"})

\* Nobody is at an object that is not allocated, and nobody refers to it.
LEMMA NotYetAllocated ==
    ASSUME FooInv, NEW t \in FooThreads, NEW o, o = Len(foo) + 1, Len(foo) < MaxFoos, fthr[t] = Idle,
           NEW place \in Places, NEW g, g = [fthr EXCEPT ![t] = place]
    PROVE  /\ OnlyAt(g, o, place)
           /\ o \in Foos /\ RefsTo(frefs, o) \in Counts /\ Refs(RefsTo(frefs, o)) = 0
           /\ \A u \in FooThreads : RefsTo(frefs, o)[u] = 0 /\ frefs[u][o] = 0
<1>1. FooTypes /\ FooPlaces /\ Len(foo) \in Nat /\ MaxFoos \in Nat /\ fthr \in [FooThreads -> Places]
    BY ObjectTableAssumption DEF FooInv, FooTypes
<1>2. o \in Foos /\ o > Len(foo) /\ o # 0
    BY <1>1 DEF Foos
<1>3. \A u \in FooThreads : fthr[u].fp # o
    BY <1>1, <1>2 DEF FooPlaces, PlaceIsRight, Places
<1>4. ASSUME NEW P PROVE Number(g, o, P) = Is(place, o, P)
  <2>1. Number(fthr, o, P) \in Nat /\ ~(Number(fthr, o, P) > 0)
    BY <1>3, NumberIsPositive
  <2>2. ThreadMoves(fthr, g, t, place)
    BY <1>1 DEF ThreadMoves
  <2>3. OthersStay(fthr, g, t, place, o, P)
    BY <2>2, NumbersOfOthers
  <2>4. Is(fthr[t], o, P) = 0 /\ Is(place, o, P) \in {0, 1}
    BY <1>3 DEF Is
  <2> QED
    BY <2>1, <2>3, <2>4 DEF OthersStay
<1>5. \A u \in FooThreads : frefs[u][o] = 0
    BY <1>1, <1>2 DEF FooPlaces
<1>6. RefsTo(frefs, o) \in Counts /\ \A u \in FooThreads : RefsTo(frefs, o)[u] = 0
    BY <1>1, <1>2, <1>5 DEF RefsTo, Counts, FooTypes
<1>7. Refs(RefsTo(frefs, o)) = 0
    BY <1>6, NoRefs
<1> QED
    BY <1>2, <1>4, <1>5, <1>6, <1>7 DEF OnlyAt

\* foo_alloc of mutex1.
LEMMA Alloc1Keeps ==
    ASSUME FooInv, NEW t \in FooThreads, NEW id \in FooIds, foo_alloc1(t, id) PROVE FooInv'
<1> DEFINE o == Len(foo) + 1
           x == [f_id |-> id, f_count |-> 1, f_lock |-> Nobody, live |-> TRUE, ready |-> TRUE]
           r == RefsTo(frefs, o)
<1>1. /\ version = "mutex1" /\ fthr[t] = Idle /\ Len(foo) < MaxFoos /\ UNCHANGED <<version, fh, hashlock, fcalls, fthr>>
      /\ foo' = Append(foo, x) /\ frefs' = [frefs EXCEPT ![t][o] = @ + 1]
    BY DEF foo_alloc1, CanAllocate, NewFoo, Refers
<1>2. FooTypes /\ fthr \in [FooThreads -> Places] /\ MaxFoos \in Nat /\ MaxFooCalls \in Nat /\ Len(foo) \in Nat
      /\ fcalls \in Nat
    BY ObjectTableAssumption DEF FooInv, FooTypes
<1>3. fthr' = [fthr EXCEPT ![t] = Idle] /\ Idle \in Places /\ Idle.fp = 0 /\ Idle.pc = "idle"
    BY <1>1, <1>2, NewPlaces DEF Idle
<1> HIDE DEF o, x
<1>4. o = Len(foo) + 1
    BY DEF o
<1>5. /\ OnlyAt(fthr', o, Idle)
      /\ o \in Foos /\ r \in Counts /\ Refs(r) = 0 /\ r[t] = 0 /\ frefs[t][o] = 0
  <2>1. fthr[t] = Idle /\ Len(foo) < MaxFoos
    BY <1>1
  <2>2. /\ OnlyAt(fthr', o, Idle)
        /\ o \in Foos /\ r \in Counts /\ Refs(r) = 0
        /\ \A u \in FooThreads : r[u] = 0 /\ frefs[u][o] = 0
    BY <2>1, <1>3, <1>4, NotYetAllocated
  <2> QED
    BY <2>2
<1>6. MaxRefs \in Nat /\ MaxRefs > 0
    BY <1>1, <1>2 DEF MaxRefs
<1>7. frefs \in [FooThreads -> [Foos -> 0..MaxRefs]] /\ frefs' = [frefs EXCEPT ![t][o] = 1] /\ 1 \in 0..MaxRefs
    BY <1>1, <1>2, <1>5, <1>6 DEF FooTypes
<1>8. /\ frefs' \in [FooThreads -> [Foos -> 0..MaxRefs]]
      /\ \A u \in FooThreads : \A p \in Foos : frefs'[u][p] = IF u = t /\ p = o THEN 1 ELSE frefs[u][p]
    BY <1>5, <1>7
<1>9. RefsTo(frefs', o) = [r EXCEPT ![t] = r[t] + 1]
    BY <1>5, <1>8 DEF RefsTo
<1>10. Refs(RefsTo(frefs', o)) = 1
  <2>1. r[t] < MaxRefs
    BY <1>5, <1>6
  <2>2. Refs(RefsTo(frefs', o)) = Refs(r) + 1
    BY <2>1, <1>5, <1>9, RefsGrow
  <2> QED
    BY <2>2, <1>5
<1>11. Is(Idle, o, {"initialize"}) = 0 /\ Is(Idle, o, {"insert"}) = 0 /\ Is(Idle, o, Releasers) = 0
       /\ Is(Idle, o, {"free"}) = 0 /\ Is(Idle, o, {"find"}) = 0
    BY DEF Is, Idle, Releasers
<1>12. Books(version, x, 0, 0, 0, 0, 0, 1, FALSE, fcalls)
    BY <1>1, <1>2 DEF Books, x
<1>13. Sound(version, x, o, fthr', RefsTo(frefs', o), FALSE, fcalls)
    BY <1>5, <1>10, <1>11, <1>12 DEF Sound, OnlyAt
<1>14. x \in Object
    BY DEF Object, x
<1>15. PlaceIsRight(version, o, Idle)
    BY <1>2, <1>4 DEF PlaceIsRight, Idle, Makers
<1>16. /\ fthr[t] = Idle /\ Len(foo) < MaxFoos /\ version # "none" /\ UNCHANGED <<version, fh, hashlock, fcalls>>
       /\ foo' = Append(foo, x) /\ fthr' = [fthr EXCEPT ![t] = Idle] /\ Idle \in Places
       /\ Idle.fp \in {0, o} /\ Idle.pc \notin {"find", "recheck"}
    BY <1>1, <1>3
<1>17. \A u \in FooThreads : \A p \in Foos \ {o} : frefs'[u][p] = frefs[u][p]
    BY <1>8
<1>18. frefs' \in [FooThreads -> [Foos -> 0..MaxRefs]]
    BY <1>8
<1>19. NewObjectOf(t, Idle, o, x)
    BY <1>4, <1>15, <1>16, <1>17, <1>18 DEF NewObjectOf
<1> QED
    BY <1>13, <1>14, <1>16, <1>19, NewObjectKeeps

\* foo_alloc of mutex2 and of mutex3, up to the lock of the table.
LEMMA AllocKeeps ==
    ASSUME FooInv, NEW t \in FooThreads, NEW id \in FooIds, foo_alloc(t, id) PROVE FooInv'
<1> DEFINE o == Len(foo) + 1
           x == [f_id |-> id, f_count |-> 1, f_lock |-> Nobody, live |-> TRUE, ready |-> FALSE]
           place == [pc |-> "insert", fp |-> o]
<1>1. /\ version \in {"mutex2", "mutex3"} /\ fthr[t] = Idle /\ Len(foo) < MaxFoos
      /\ UNCHANGED <<version, fh, hashlock, fcalls, frefs>>
      /\ foo' = Append(foo, x) /\ fthr' = [fthr EXCEPT ![t] = place]
    BY DEF foo_alloc, CanAllocate, NewFoo, GoesTo
<1>2. FooTypes /\ Len(foo) \in Nat /\ fcalls \in Nat
    BY DEF FooInv, FooTypes
<1>3. place \in Places /\ place.fp = o /\ place.pc = "insert" /\ PlaceIsRight(version, o, place)
    BY <1>1, <1>2 DEF Places, FooPcs, PlaceIsRight, Makers
<1>4. Is(place, o, {"initialize"}) = 0 /\ Is(place, o, {"insert"}) = 1 /\ Is(place, o, Releasers) = 0
      /\ Is(place, o, {"free"}) = 0 /\ Is(place, o, {"find"}) = 0
    BY DEF Is, Releasers
<1> HIDE DEF o, x, place
<1>5. o = Len(foo) + 1
    BY DEF o
<1>6. OnlyAt(fthr', o, place) /\ Refs(RefsTo(frefs, o)) = 0
  <2>1. fthr[t] = Idle /\ Len(foo) < MaxFoos /\ fthr' = [fthr EXCEPT ![t] = place]
    BY <1>1
  <2> QED
    BY <2>1, <1>3, <1>5, NotYetAllocated
<1>7. frefs' = frefs /\ frefs \in [FooThreads -> [Foos -> 0..MaxRefs]]
    BY <1>1, <1>2 DEF FooTypes
<1>8. Books(version, x, 0, 1, 0, 0, 0, 0, FALSE, fcalls)
    BY <1>1, <1>2 DEF Books, x
<1>9. Sound(version, x, o, fthr', RefsTo(frefs', o), FALSE, fcalls)
    BY <1>4, <1>6, <1>7, <1>8 DEF Sound, OnlyAt
<1>10. x \in Object
    BY DEF Object, x
<1>11. NewObjectOf(t, place, o, x)
    BY <1>1, <1>3, <1>5, <1>7 DEF NewObjectOf
<1> QED
    BY <1>3, <1>9, <1>10, <1>11, NewObjectKeeps

\* Every call of every thread keeps the books of all objects.
LEMMA FooInvStep == FooInv /\ [FooNext]_fooVars => FooInv'
<1> SUFFICES ASSUME FooInv, [FooNext]_fooVars PROVE FooInv'
    OBVIOUS
<1>0. DOMAIN foo = 1..Len(foo)
    BY DEF FooInv, FooTypes
<1>1. CASE UNCHANGED fooVars
    BY <1>1 DEF fooVars, FooInv, FooTypes, Chain, FooPlaces, HashLocked, Objects
<1>2. CASE StartFoo
  <2>1. foo = <<>> /\ Len(foo) = 0
    BY <1>2 DEF StartFoo, FooInv, FooPlaces
  <2>2. FooTypes' /\ Chain(fh, Len(foo))' /\ HashLocked'
    BY <1>2 DEF StartFoo, FooInv, FooTypes, Chain, HashLocked
  <2>3. ASSUME NEW t \in FooThreads PROVE PlaceIsRight(version', Len(foo'), fthr'[t])
    <3>1. fthr[t] \in Places /\ PlaceIsRight(version, Len(foo), fthr[t])
      BY DEF FooInv, FooTypes, FooPlaces
    <3>2. fthr[t].pc = "idle"
      BY <2>1, <3>1 DEF PlaceIsRight, Places
    <3> QED
      BY <1>2, <3>1, <3>2 DEF StartFoo, PlaceIsRight, Makers
  <2>4. FooPlaces'
    BY <1>2, <2>1, <2>3 DEF StartFoo, FooInv, FooPlaces
  <2>5. Objects'
    BY <1>2, <2>1 DEF StartFoo, Objects
  <2> QED
    BY <2>2, <2>4, <2>5 DEF FooInv
<1>3. ASSUME NEW t \in FooThreads, FooGoesOn(t) PROVE FooInv'
    BY <1>3, AllocInsertsKeeps, AllocReturnsKeeps, FindHoldsKeeps, ReleLocksTableKeeps, ReleRechecksKeeps,
       ReleFreesKeeps DEF FooGoesOn
<1>4. ASSUME NEW t \in FooThreads, NEW id \in FooIds,
             foo_alloc1(t, id) \/ foo_alloc(t, id) \/ foo_find(t, id) \/ foo_find3(t, id)
      PROVE  FooInv'
    BY <1>4, Alloc1Keeps, AllocKeeps, FindKeepsObjects, Find3Keeps
<1>5. ASSUME NEW t \in FooThreads, NEW o \in 1..Len(foo), foo_hold(t, o) \/ foo_hold3(t, o) PROVE FooInv'
    BY <1>5, HoldKeeps DEF foo_hold, foo_hold3
<1>6. ASSUME NEW t \in FooThreads, NEW o \in 1..Len(foo), foo_rele1(t, o) PROVE FooInv'
    BY <1>6, DownKeeps, LastKeeps DEF foo_rele1
<1>7. ASSUME NEW t \in FooThreads, NEW o \in 1..Len(foo), foo_rele(t, o) PROVE FooInv'
    BY <1>7, DownKeeps, LastOf2Keeps DEF foo_rele
<1>8. ASSUME NEW t \in FooThreads, NEW o \in 1..Len(foo), foo_rele3(t, o) PROVE FooInv'
    BY <1>8, DownKeeps, LastKeeps DEF foo_rele3
<1>9. ASSUME NEW t \in FooThreads, NEW u \in FooThreads, NEW o \in 1..Len(foo), HandOver(t, u, o) PROVE FooInv'
    BY <1>9, HandOverKeeps
<1> QED
    BY <1>0, <1>1, <1>2, <1>3, <1>4, <1>5, <1>6, <1>7, <1>8, <1>9 DEF FooNext

\* What the books say of one object: whoever is there or refers to it keeps it
\* live, and the count is that of the references.
LEMMA BooksAreExact ==
    ASSUME NEW ver, NEW x, NEW ini \in Nat, NEW ins \in Nat, NEW rl \in Nat, NEW fr \in Nat, NEW fi \in Nat,
           NEW refs \in Nat, NEW linked \in BOOLEAN, NEW calls \in Nat, x.f_count \in Nat,
           x.live \in BOOLEAN, x.ready \in BOOLEAN,
           Books(ver, x, ini, ins, rl, fr, fi, refs, linked, calls)
    PROVE  /\ ini + ins + rl + fr + fi + refs > 0 \/ linked => x.live
           /\ x.live /\ fr > 0 => fr = 1 /\ rl + refs = 0 /\ ~linked
           /\ x.live /\ fr = 0 => /\ x.f_count = (rl + refs) + (ini + ins) /\ x.f_count > 0
                                  /\ ver # "mutex1" /\ ins = 0 => linked
           /\ ver = "mutex2" /\ refs > 0 => x.ready
BY DEF Books

\* The threads that make an object have it in the table or not.
LEMMA MakersAreTwo ==
    ASSUME NEW f, NEW o
    PROVE  Number(f, o, Makers) = Number(f, o, {"initialize"}) + Number(f, o, {"insert"})
<1> DEFINE A == {t \in FooThreads : f[t].fp = o /\ f[t].pc \in {"initialize"}}
           B == {t \in FooThreads : f[t].fp = o /\ f[t].pc \in {"insert"}}
           C == {t \in FooThreads : f[t].fp = o /\ f[t].pc \in Makers}
<1>1. IsFiniteSet(A) /\ IsFiniteSet(B)
    BY ObjectTableAssumption, FS_Subset
<1>2. A \cap B = {} /\ C = A \cup B
    BY DEF Makers
<1>3. Cardinality(A) \in Nat /\ Cardinality(B) \in Nat
    BY <1>1, FS_CardinalityType
<1>4. Number(f, o, Makers) = Cardinality(C) /\ Number(f, o, {"initialize"}) = Cardinality(A)
      /\ Number(f, o, {"insert"}) = Cardinality(B)
    BY DEF Number
<1> HIDE DEF A, B, C
<1>5. Cardinality(C) = Cardinality(A) + Cardinality(B) - Cardinality(A \cap B)
    BY <1>1, <1>2, FS_Union
<1>6. Cardinality(A \cap B) = 0
    BY <1>2, FS_EmptySet
<1> QED
    BY <1>3, <1>4, <1>5, <1>6

\* threads/mutex1.c, mutex2.c and mutex3.c: an object lives exactly as long as it
\* is referred to, its count is exact, it is in the table exactly when it should
\* be, and foo_find of mutex2 returns initialized objects only, for any threads,
\* objects and calls.
THEOREM ObjectsLiveAsLongAsReferences == FooSpec => []ReferencesAreSound
<1>1. FooInit => FooInv
  <2> SUFFICES ASSUME FooInit PROVE FooInv
    OBVIOUS
  <2>1. foo = <<>> /\ Len(foo) = 0 /\ fh = <<>> /\ \A t \in FooThreads : fthr[t] = Idle
    BY DEF FooInit
  <2>2. MaxRefs \in Nat /\ 0 \in 0..MaxRefs /\ 0 \in 0..MaxFooCalls /\ MaxFoos \in Nat /\ Idle \in Places
    BY ObjectTableAssumption, NewPlaces DEF MaxRefs
  <2>3. FooTypes
    BY <2>1, <2>2 DEF FooInit, FooTypes
  <2>4. Chain(fh, Len(foo)) /\ HashLocked /\ Objects
    BY <2>1 DEF Chain, HashLocked, Objects, Idle
  <2>5. FooPlaces
    BY <2>1, <2>2 DEF FooInit, FooPlaces, PlaceIsRight, Idle, Makers, Foos
  <2> QED
    BY <2>3, <2>4, <2>5 DEF FooInv
<1>2. FooInv => ReferencesAreSound
  <2> SUFFICES ASSUME FooInv PROVE NoUseAfterFree /\ CountIsExact /\ FoundIsInitialized
    BY DEF ReferencesAreSound
  <2>0. DOMAIN foo = 1..Len(foo) /\ DOMAIN fh = 1..Len(fh) /\ \A i \in 1..Len(fh) : fh[i] \in 1..Len(foo)
    BY DEF FooInv, FooTypes, Chain
  <2> DEFINE Ini(o) == Number(fthr, o, {"initialize"})
             Ins(o) == Number(fthr, o, {"insert"})
             Rl(o) == Number(fthr, o, Releasers)
             Fr(o) == Number(fthr, o, {"free"})
             Fi(o) == Number(fthr, o, {"find"})
             R(o) == Refs(RefsTo(frefs, o))
  <2>1. ASSUME NEW o \in 1..Len(foo)
        PROVE  /\ Ini(o) \in Nat /\ Ins(o) \in Nat /\ Rl(o) \in Nat /\ Fr(o) \in Nat /\ Fi(o) \in Nat /\ R(o) \in Nat
               /\ Ini(o) + Ins(o) + Rl(o) + Fr(o) + Fi(o) + R(o) > 0 \/ Linked(fh, o) => foo[o].live
               /\ foo[o].live /\ Fr(o) > 0 => Fr(o) = 1 /\ Rl(o) + R(o) = 0 /\ ~Linked(fh, o)
               /\ foo[o].live /\ Fr(o) = 0 =>
                     /\ foo[o].f_count = (Rl(o) + R(o)) + (Ini(o) + Ins(o)) /\ foo[o].f_count > 0
                     /\ version # "mutex1" /\ Ins(o) = 0 => Linked(fh, o)
               /\ version = "mutex2" /\ R(o) > 0 => foo[o].ready
    <3> DEFINE ini == Ini(o)
               ins == Ins(o)
               rl == Rl(o)
               fr == Fr(o)
               fi == Fi(o)
               refs == R(o)
               linked == Linked(fh, o)
    <3>1. /\ foo[o] \in Object /\ foo[o].f_count \in Nat /\ refs \in Nat /\ fcalls \in Nat /\ linked \in BOOLEAN
          /\ Sound(version, foo[o], o, fthr, RefsTo(frefs, o), Linked(fh, o), fcalls)
      BY ObjectFacts
    <3>2. ini \in Nat /\ ins \in Nat /\ rl \in Nat /\ fr \in Nat /\ fi \in Nat
      BY NumberIsPositive
    <3>3. Books(version, foo[o], ini, ins, rl, fr, fi, refs, linked, fcalls)
      BY <3>1 DEF Sound
    <3>4. foo[o].live \in BOOLEAN /\ foo[o].ready \in BOOLEAN
      BY <3>1 DEF Object
    <3> HIDE DEF ini, ins, rl, fr, fi, refs, linked
    <3>5. /\ ini + ins + rl + fr + fi + refs > 0 \/ linked => foo[o].live
          /\ foo[o].live /\ fr > 0 => fr = 1 /\ rl + refs = 0 /\ ~linked
          /\ foo[o].live /\ fr = 0 => /\ foo[o].f_count = (rl + refs) + (ini + ins) /\ foo[o].f_count > 0
                                      /\ version # "mutex1" /\ ins = 0 => linked
          /\ version = "mutex2" /\ refs > 0 => foo[o].ready
      BY <3>1, <3>2, <3>3, <3>4, BooksAreExact
    <3> QED
      BY <3>1, <3>2, <3>5 DEF ini, ins, rl, fr, fi, refs, linked
  <2>2. \A t \in FooThreads : \A o \in 1..Len(foo) : frefs[t][o] > 0 => R(o) > 0
    BY ObjectFacts
  <2>3. NoUseAfterFree
    <3>1. ASSUME NEW t \in FooThreads, fthr[t].fp # 0 PROVE foo[fthr[t].fp].live
      <4> DEFINE o == fthr[t].fp
                 pc == fthr[t].pc
      <4>1. pc # "idle" /\ pc \in FooPcs
        BY <3>1 DEF FooInv, FooTypes, FooPlaces, PlaceIsRight, Places
      <4>2. o \in 1..Len(foo)
        BY <4>1, InACall
      <4>3. pc = "initialize" \/ pc = "insert" \/ pc \in Releasers \/ pc = "free" \/ pc = "find"
        BY <4>1 DEF FooPcs, Makers
      <4>4. Ini(o) > 0 \/ Ins(o) > 0 \/ Rl(o) > 0 \/ Fr(o) > 0 \/ Fi(o) > 0
        BY <4>3, NumberIsPositive
      <4> HIDE DEF o, pc, Ini, Ins, Rl, Fr, Fi, R
      <4>5. foo[o].live
        BY <4>2, <4>4, <2>1
      <4> QED
        BY <4>5 DEF o
    <3>2. ASSUME NEW t \in FooThreads, NEW o \in 1..Len(foo), frefs[t][o] > 0 PROVE foo[o].live
      <4>1. R(o) > 0
        BY <3>2, <2>2
      <4> HIDE DEF Ini, Ins, Rl, Fr, Fi, R
      <4> QED
        BY <4>1, <2>1
    <3>3. ASSUME NEW i \in 1..Len(fh) PROVE foo[fh[i]].live
      <4>1. fh[i] \in 1..Len(foo) /\ Linked(fh, fh[i])
        BY <2>0 DEF Linked
      <4> HIDE DEF Ini, Ins, Rl, Fr, Fi, R
      <4> QED
        BY <4>1, <2>1
    <3> QED
      BY <2>0, <3>1, <3>2, <3>3 DEF NoUseAfterFree
  <2>4. CountIsExact
    <3> SUFFICES ASSUME NEW o \in 1..Len(foo), foo[o].live
                 PROVE  LET refs == Cardinality(Releasing(o)) + Cardinality(References(o))
                        IN  IF Freeing(o) # {} THEN refs = 0 /\ Cardinality(Freeing(o)) = 1 /\ \A i \in DOMAIN fh : fh[i] # o
                            ELSE /\ foo[o].f_count = refs + Cardinality(Inserting(o)) /\ foo[o].f_count > 0
                                 /\ version # "mutex1" /\ (\A t \in Inserting(o) : fthr[t].pc # "insert") =>
                                       Cardinality({i \in DOMAIN fh : fh[i] = o}) = 1
      BY <2>0 DEF CountIsExact
    <3>1. Cardinality(Releasing(o)) = Rl(o)
      BY DEF Releasing, Number, Releasers
    <3>2. Cardinality(References(o)) = R(o)
      <4>1. References(o) = RefPairs(RefsTo(frefs, o))
        BY DEF References, RefPairs, RefsTo, MaxRefs
      <4> QED
        BY <4>1 DEF Refs
    <3>3. Cardinality(Freeing(o)) = Fr(o)
      <4>1. Freeing(o) = {t \in FooThreads : fthr[t].fp = o /\ fthr[t].pc \in {"free"}}
        BY DEF Freeing
      <4> QED
        BY <4>1 DEF Number
    <3>4. Cardinality(Inserting(o)) = Ini(o) + Ins(o)
      <4>1. Cardinality(Inserting(o)) = Number(fthr, o, Makers)
        BY DEF Inserting, Number, Makers
      <4> QED
        BY <4>1, MakersAreTwo
    <3>5. Freeing(o) # {} <=> Fr(o) > 0
      BY NumberIsPositive DEF Freeing
    <3>6. (\A t \in Inserting(o) : fthr[t].pc # "insert") => Ins(o) = 0
      <4>1. Ins(o) \in Nat /\ (Ins(o) > 0 <=> \E t \in FooThreads : fthr[t].fp = o /\ fthr[t].pc \in {"insert"})
        BY NumberIsPositive
      <4> HIDE DEF Ins
      <4> QED
        BY <4>1 DEF Inserting
    <3>7. Linked(fh, o) => Cardinality({i \in DOMAIN fh : fh[i] = o}) = 1
      <4> SUFFICES ASSUME Linked(fh, o) PROVE Cardinality({i \in DOMAIN fh : fh[i] = o}) = 1
        OBVIOUS
      <4>1. PICK k \in 1..Len(fh) : fh[k] = o
        BY DEF Linked
      <4>2. {i \in DOMAIN fh : fh[i] = o} = {k}
        BY <4>1, <2>0 DEF FooInv, Chain
      <4> QED
        BY <4>2, FS_Singleton
    <3>8. ~Linked(fh, o) => \A i \in DOMAIN fh : fh[i] # o
      BY <2>0 DEF Linked
    <3> HIDE DEF Ini, Ins, Rl, Fr, Fi, R
    <3>9. /\ Fr(o) \in Nat /\ (Fr(o) > 0 => Fr(o) = 1 /\ Rl(o) + R(o) = 0 /\ ~Linked(fh, o))
          /\ Fr(o) = 0 => /\ foo[o].f_count = (Rl(o) + R(o)) + (Ini(o) + Ins(o)) /\ foo[o].f_count > 0
                          /\ version # "mutex1" /\ Ins(o) = 0 => Linked(fh, o)
      BY <2>1
    <3>10. CASE Freeing(o) # {}
      BY <3>1, <3>2, <3>3, <3>5, <3>8, <3>9, <3>10
    <3>11. CASE Freeing(o) = {}
      <4>1. Fr(o) = 0
        BY <3>5, <3>9, <3>11
      <4> QED
        BY <4>1, <3>1, <3>2, <3>4, <3>6, <3>7, <3>9, <3>11
    <3> QED
      BY <3>10, <3>11
  <2>5. FoundIsInitialized
    <3> SUFFICES ASSUME version = "mutex2", NEW t \in FooThreads, NEW o \in 1..Len(foo), frefs[t][o] > 0
                 PROVE  foo[o].ready
      BY <2>0 DEF FoundIsInitialized
    <3>1. R(o) > 0
      BY <2>2
    <3> HIDE DEF Ini, Ins, Rl, Fr, Fi, R
    <3> QED
      BY <3>1, <2>1
  <2> QED
    BY <2>3, <2>4, <2>5
<1> QED
    BY <1>1, <1>2, FooInvStep, PTL DEF FooSpec

-----------------------------------------------------------------------------
(* SortThreads: barrier.c. *)

Indexes == 0..(NUMNUM - 1)

\* A set of numbers has a least one, so a property that the first counterexample
\* refutes holds of all.
LEMMA LeastIndex == ASSUME NEW T \in SUBSET Nat, T # {} PROVE \E n \in T : \A m \in T : n <= m
<1>1. PICK R : R = OpToRel(<, Nat)
    OBVIOUS
<1>2. IsWellFoundedOn(R, Nat)
    BY <1>1, NatLessThanWellFounded
<1>3. \A m, n \in Nat : m < n => <<m, n>> \in R
    BY <1>1 DEF OpToRel
<1>4. PICK n \in T : \A m \in T : ~(<<m, n>> \in R)
    BY <1>2, WFMin
<1>5. n \in Nat /\ \A m \in T : m \in Nat /\ ~(m < n)
    BY <1>3, <1>4
<1> QED
    BY <1>4, <1>5

\* The parts of the array, one after the other (startidx and TNUM).
LEMMA PartsInOrder ==
    /\ NUMNUM \in Nat /\ NUMNUM = First(NTHR)
    /\ \A i \in 0..NTHR : First(i) \in Nat
    /\ \A i \in Parts : First(i + 1) = First(i) + TNUM /\ Part(i) = First(i)..(First(i + 1) - 1)
    /\ \A i \in 0..NTHR, j \in 0..NTHR : i < j => First(i) + TNUM <= First(j)
<1>0. NTHR \in Nat /\ TNUM \in Nat /\ NTHR > 0 /\ TNUM > 0
    BY SortAssumption
<1>1. NUMNUM \in Nat /\ NUMNUM = First(NTHR)
    BY <1>0 DEF NUMNUM, First
<1>2. ASSUME NEW i \in 0..NTHR PROVE First(i) \in Nat
    BY <1>0 DEF First
<1>3. ASSUME NEW i \in Parts PROVE First(i + 1) = First(i) + TNUM /\ Part(i) = First(i)..(First(i + 1) - 1)
  <2>1. First(i + 1) = First(i) + TNUM
    BY <1>0 DEF First, Parts
  <2>2. First(i) \in Nat /\ First(i + 1) \in Nat
    BY <1>0, <1>2 DEF Parts
  <2>3. First(i) + TNUM - 1 = First(i + 1) - 1
    BY <1>0, <2>1, <2>2
  <2> QED
    BY <2>1, <2>3 DEF Part
<1>4. ASSUME NEW i \in 0..NTHR, NEW j \in 0..NTHR, i < j PROVE First(i) + TNUM <= First(j)
  <2>1. (j - i) * TNUM >= TNUM
    BY <1>0, <1>4, AtLeastOnce
  <2>2. First(j) = First(i) + (j - i) * TNUM
    BY <1>0 DEF First
  <2>3. First(i) \in Nat /\ First(j) \in Nat /\ (j - i) * TNUM \in Int
    BY <1>0, <1>2
  <2> QED
    BY <1>0, <2>1, <2>2, <2>3
<1> QED
    BY <1>1, <1>2, <1>3, <1>4

\* Every number is in one part.
LEMMA PartsPartition ==
    /\ \A i \in Parts : Part(i) \subseteq Indexes
    /\ \A i \in Parts, j \in Parts : i # j => Part(i) \cap Part(j) = {}
    /\ \A k \in Indexes : \E i \in Parts : k \in Part(i)
<1>0. NTHR \in Nat /\ TNUM \in Nat /\ NTHR > 0 /\ TNUM > 0
    BY SortAssumption
<1> DEFINE F(i) == First(i)
<1>1. /\ NUMNUM \in Nat /\ NUMNUM = F(NTHR)
      /\ \A i \in 0..NTHR : F(i) \in Nat
      /\ \A i \in Parts : F(i + 1) = F(i) + TNUM /\ Part(i) = F(i)..(F(i + 1) - 1)
      /\ \A i \in 0..NTHR, j \in 0..NTHR : i < j => F(i) + TNUM <= F(j)
    BY PartsInOrder
<1>2. F(0) = 0
    BY <1>0 DEF First
<1> HIDE DEF F
<1>3. ASSUME NEW i \in Parts PROVE Part(i) \subseteq Indexes
  <2>1. i \in 0..NTHR /\ NTHR \in 0..NTHR /\ i < NTHR
    BY <1>0 DEF Parts
  <2>2. F(i) \in Nat /\ F(i) + TNUM <= NUMNUM /\ F(i + 1) = F(i) + TNUM /\ Part(i) = F(i)..(F(i + 1) - 1)
    BY <1>1, <2>1
  <2> QED
    BY <1>0, <1>1, <2>2 DEF Indexes
<1>4. ASSUME NEW i \in Parts, NEW j \in Parts, i < j PROVE Part(i) \cap Part(j) = {}
  <2>1. i \in 0..NTHR /\ j \in 0..NTHR
    BY <1>0 DEF Parts
  <2>2. /\ F(i) \in Nat /\ F(j) \in Nat /\ F(i) + TNUM <= F(j)
        /\ F(i + 1) = F(i) + TNUM /\ Part(i) = F(i)..(F(i + 1) - 1) /\ Part(j) = F(j)..(F(j + 1) - 1)
    BY <1>1, <1>4, <2>1
  <2> QED
    BY <1>0, <2>2
<1>5. ASSUME NEW i \in Parts, NEW j \in Parts, i # j PROVE Part(i) \cap Part(j) = {}
  <2>1. i < j \/ j < i
    BY <1>0, <1>5 DEF Parts
  <2> QED
    BY <1>4, <2>1
<1>6. ASSUME NEW k \in Indexes PROVE \E i \in Parts : k \in Part(i)
  <2> DEFINE T == {i \in 0..NTHR : k < F(i)}
  <2>1. T \in SUBSET Nat /\ NTHR \in T
    BY <1>0, <1>1 DEF Indexes
  <2>2. PICK i \in T : \A m \in T : i <= m
    BY <2>1, LeastIndex
  <2>3. i \in 0..NTHR /\ k < F(i) /\ k \in Nat
    BY <2>2 DEF Indexes
  <2>4. i # 0
    BY <1>2, <2>3
  <2>5. i - 1 \in Parts /\ i - 1 \in 0..NTHR /\ ~(i <= i - 1) /\ (i - 1) + 1 = i
    BY <1>0, <2>3, <2>4 DEF Parts
  <2>6. i - 1 \notin T
    BY <2>2, <2>5
  <2>7. F(i - 1) \in Nat /\ F(i) \in Nat /\ Part(i - 1) = F(i - 1)..(F(i) - 1)
    BY <1>1, <2>3, <2>5
  <2>8. ~(k < F(i - 1))
    BY <2>5, <2>6
  <2>9. k \in Part(i - 1)
    BY <2>3, <2>7, <2>8
  <2> QED
    BY <2>5, <2>9
<1> QED
    BY <1>3, <1>5, <1>6
Sorted(a, i) == \A n \in Part(i) : n + 1 \in Part(i) => a[n] <= a[n + 1]

\* A part is in order if every two neighbours are (heapsort with complong).
LEMMA InOrder ==
    ASSUME NEW a, NEW i \in Parts, Sorted(a, i), \A n \in Part(i) : a[n] \in Nat,
           NEW j \in Part(i), NEW k \in Part(i), j <= k
    PROVE  a[j] <= a[k]
<1> DEFINE lo == First(i)
           hi == First(i + 1) - 1
           T == {n \in Part(i) : j <= n /\ ~(a[j] <= a[n])}
<1>1. lo \in Nat /\ hi \in Int /\ Part(i) = lo..hi
  <2>1. i \in 0..NTHR /\ i + 1 \in 0..NTHR
    BY SortAssumption DEF Parts
  <2> QED
    BY <2>1, PartsInOrder
<1> HIDE DEF lo, hi
<1>2. SUFFICES ASSUME T # {} PROVE FALSE
    OBVIOUS
<1>3. T \in SUBSET Nat
    BY <1>1
<1>4. PICK n \in T : \A m \in T : n <= m
    BY <1>2, <1>3, LeastIndex
<1>5. n \in Part(i) /\ j <= n /\ ~(a[j] <= a[n]) /\ n \in Nat /\ j \in Nat
    BY <1>1, <1>4
<1>6. a[j] \in Nat /\ a[n] \in Nat
    BY <1>5
<1>7. n # j
    BY <1>5, <1>6
<1>8. n - 1 \in Part(i) /\ j <= n - 1 /\ (n - 1) + 1 = n /\ ~(n <= n - 1)
    BY <1>1, <1>5, <1>7
<1>9. a[j] <= a[n - 1]
    BY <1>4, <1>8
<1>10. a[n - 1] <= a[n] /\ a[n - 1] \in Nat
    BY <1>5, <1>8 DEF Sorted
<1> QED
    BY <1>5, <1>6, <1>9, <1>10

\* The inner loop of merge, as far as the n-th part.
BeatOf(m, n, b) ==
    b = [i \in 0..n |->
          IF i = 0 THEN [num |-> LONG_MAX, minidx |-> m.minidx]
          ELSE LET before == b[i - 1]
                   k == m.idx[i - 1]
               IN  IF k < First(i) /\ nums[k] < before.num THEN [num |-> nums[k], minidx |-> i - 1] ELSE before]

Beats(m, before, i) == IF m.idx[i - 1] < First(i) /\ nums[m.idx[i - 1]] < before.num
                         THEN [num |-> nums[m.idx[i - 1]], minidx |-> i - 1] ELSE before

BeatStep(m, n, b) == \A i \in 0..n : b[i] = IF i = 0 THEN [num |-> LONG_MAX, minidx |-> m.minidx] ELSE Beats(m, b[i - 1], i)

\* A turn of the inner loop looks at one part.
LEMMA BeatSteps == ASSUME NEW m, NEW n \in Nat, NEW b, BeatOf(m, n, b) PROVE BeatStep(m, n, b)
<1>1. ASSUME NEW i \in 0..n
      PROVE  b[i] = IF i = 0 THEN [num |-> LONG_MAX, minidx |-> m.minidx] ELSE Beats(m, b[i - 1], i)
    BY DEF BeatOf, Beats
<1> QED
    BY <1>1 DEF BeatStep

\* The inner loop reaches every part.
LEMMA BeatIsThere == ASSUME NEW m, NEW n \in Nat PROVE \E b : BeatOf(m, n, b)
<1> DEFINE T == {k \in Nat : ~\E b : BeatOf(m, k, b)}
<1>1. SUFFICES ASSUME T # {} PROVE FALSE
    OBVIOUS
<1>2. T \in SUBSET Nat
    OBVIOUS
<1>3. PICK k \in T : \A l \in T : k <= l
    BY <1>1, <1>2, LeastIndex
<1>4. k \in Nat /\ ~\E b : BeatOf(m, k, b)
    BY <1>3
<1>5. CASE k = 0
  <2>1. BeatOf(m, k, [i \in 0..0 |-> [num |-> LONG_MAX, minidx |-> m.minidx]])
    BY <1>5 DEF BeatOf
  <2> QED
    BY <1>4, <2>1
<1>6. CASE k # 0
  <2>1. k - 1 \in Nat /\ k - 1 \notin T
    BY <1>3, <1>4, <1>6
  <2>2. PICK b : BeatOf(m, k - 1, b)
    BY <2>1
  <2> DEFINE v == [i \in 0..k |-> IF i = k THEN Beats(m, b[k - 1], k) ELSE b[i]]
             start == [num |-> LONG_MAX, minidx |-> m.minidx]
  <2>3. \A i \in 0..(k - 1) : b[i] = IF i = 0 THEN start ELSE Beats(m, b[i - 1], i)
    BY <2>1, <2>2, BeatSteps DEF BeatStep
  <2>4. ASSUME NEW i \in 0..k PROVE v[i] = IF i = 0 THEN start ELSE Beats(m, v[i - 1], i)
    <3>1. CASE i = k
      <4>1. v[i] = Beats(m, b[k - 1], k) /\ v[k - 1] = b[k - 1]
        BY <3>1, <1>4, <1>6
      <4> QED
        BY <3>1, <4>1, <1>6
    <3>2. CASE i # k
      <4>1. i \in 0..(k - 1) /\ v[i] = b[i] /\ (i # 0 => v[i - 1] = b[i - 1])
        BY <3>2, <1>4, <1>6
      <4> QED
        BY <4>1, <2>3
    <3> QED
      BY <3>1, <3>2
  <2>5. v = [i \in 0..k |-> IF i = 0 THEN start ELSE Beats(m, v[i - 1], i)]
    <3> DEFINE u == [i \in 0..k |-> IF i = 0 THEN start ELSE Beats(m, v[i - 1], i)]
    <3>1. \A i \in 0..k : v[i] = u[i]
      BY <2>4
    <3> QED
      BY <3>1
  <2> HIDE DEF v
  <2>6. BeatOf(m, k, v)
    BY <2>5 DEF BeatOf, Beats
  <2> QED
    BY <1>4, <2>6
<1> QED
    BY <1>5, <1>6

\* The parts merge has not finished.
Heads(m) == {j \in Parts : m.idx[j] < First(j + 1)}

IdxInParts(idx) == \A j \in Parts : idx[j] \in First(j)..First(j + 1)

\* What the inner loop has found before the n-th part.
LeastSoFar(m, n, r) ==
    /\ r.num \in Nat /\ r.num <= LONG_MAX
    /\ \A j \in Heads(m) : j < n => r.num <= nums[m.idx[j]]
    /\ r.num < LONG_MAX => r.minidx \in Heads(m) /\ r.num = nums[m.idx[r.minidx]]

\* What merge compares is a number of the array, below LONG_MAX.
LEMMA HeadsAreNumbers ==
    ASSUME NEW m, nums \in [Indexes -> Numbers], IdxInParts(m.idx), NEW j \in Heads(m)
    PROVE  /\ j \in Parts /\ m.idx[j] \in Part(j) /\ m.idx[j] \in Indexes
           /\ nums[m.idx[j]] \in Nat /\ nums[m.idx[j]] < LONG_MAX
<1>1. j \in Parts /\ m.idx[j] < First(j + 1) /\ m.idx[j] \in First(j)..First(j + 1)
    BY DEF Heads, IdxInParts
<1>2. First(j) \in Nat /\ First(j + 1) \in Nat /\ Part(j) = First(j)..(First(j + 1) - 1)
  <2>1. j \in 0..NTHR /\ j + 1 \in 0..NTHR
    BY <1>1, SortAssumption DEF Parts
  <2> QED
    BY <1>1, <2>1, PartsInOrder
<1>3. m.idx[j] \in Part(j)
    BY <1>1, <1>2
<1>4. m.idx[j] \in Indexes
    BY <1>1, <1>3, PartsPartition
<1>5. nums[m.idx[j]] \in Numbers
    BY <1>4
<1> QED
    BY <1>1, <1>3, <1>4, <1>5, SortAssumption

\* One turn of the inner loop.
LEMMA BeatKeeps ==
    ASSUME NEW m, nums \in [Indexes -> Numbers], IdxInParts(m.idx),
           NEW n \in 1..NTHR, NEW before, LeastSoFar(m, n - 1, before)
    PROVE  LeastSoFar(m, n, Beats(m, before, n))
<1>1. n - 1 \in Parts /\ (n - 1) + 1 = n /\ n \in Nat
    BY SortAssumption DEF Parts
<1>2. n - 1 \in Heads(m) <=> m.idx[n - 1] < First(n)
    BY <1>1 DEF Heads
<1>3. \A j \in Heads(m) : j \in Nat /\ nums[m.idx[j]] \in Nat /\ nums[m.idx[j]] < LONG_MAX
    BY HeadsAreNumbers DEF Parts
<1>4. \A j \in Heads(m) : j < n => j < n - 1 \/ j = n - 1
    BY <1>1, <1>3
<1>5. LONG_MAX \in Nat
    BY SortAssumption
<1>6. CASE m.idx[n - 1] < First(n) /\ nums[m.idx[n - 1]] < before.num
  <2>1. Beats(m, before, n) = [num |-> nums[m.idx[n - 1]], minidx |-> n - 1]
    BY <1>6 DEF Beats
  <2>2. \A j \in Heads(m) : j < n => nums[m.idx[n - 1]] <= nums[m.idx[j]]
    BY <1>2, <1>3, <1>4, <1>6 DEF LeastSoFar
  <2> QED
    BY <1>2, <1>3, <1>5, <1>6, <2>1, <2>2 DEF LeastSoFar
<1>7. CASE ~(m.idx[n - 1] < First(n) /\ nums[m.idx[n - 1]] < before.num)
  <2>1. Beats(m, before, n) = before
    BY <1>7 DEF Beats
  <2>2. \A j \in Heads(m) : j < n => before.num <= nums[m.idx[j]]
    BY <1>2, <1>3, <1>4, <1>7 DEF LeastSoFar
  <2> QED
    BY <2>1, <2>2 DEF LeastSoFar
<1> QED
    BY <1>6, <1>7

\* minidx is a part with a smallest number that is left; numbers are below
\* LONG_MAX, so some part beats it.
LEMMA MinIdxIsLeast ==
    ASSUME NEW m, nums \in [Indexes -> Numbers], IdxInParts(m.idx), Heads(m) # {}
    PROVE  /\ MinIdx(m) \in Heads(m)
           /\ \A j \in Heads(m) : nums[m.idx[MinIdx(m)]] <= nums[m.idx[j]]
<1> DEFINE B == CHOOSE b : BeatOf(m, NTHR, b)
           T == {n \in 0..NTHR : ~LeastSoFar(m, n, B[n])}
<1>0. NTHR \in Nat /\ LONG_MAX \in Nat
    BY SortAssumption
<1>1. BeatOf(m, NTHR, B)
    BY <1>0, BeatIsThere
<1>2. MinIdx(m) = B[NTHR].minidx
    BY DEF MinIdx, BeatOf
<1> HIDE DEF B
<1>3. \A i \in 0..NTHR : B[i] = IF i = 0 THEN [num |-> LONG_MAX, minidx |-> m.minidx] ELSE Beats(m, B[i - 1], i)
    BY <1>0, <1>1, BeatSteps DEF BeatStep
<1>4. T = {}
  <2> SUFFICES ASSUME T # {} PROVE FALSE
    OBVIOUS
  <2>1. T \in SUBSET Nat
    OBVIOUS
  <2>2. PICK n \in T : \A l \in T : n <= l
    BY <2>1, LeastIndex
  <2>3. n \in 0..NTHR /\ ~LeastSoFar(m, n, B[n])
    BY <2>2
  <2>4. CASE n = 0
    <3>1. B[n].num = LONG_MAX
      BY <2>3, <2>4, <1>3
    <3>2. \A j \in Heads(m) : ~(j < n)
      BY <2>4 DEF Heads, Parts
    <3> QED
      BY <3>1, <3>2, <2>3, <1>0 DEF LeastSoFar
  <2>5. CASE n # 0
    <3>1. n \in 1..NTHR /\ n - 1 \in 0..NTHR /\ ~(n <= n - 1)
      BY <1>0, <2>3, <2>5
    <3>2. LeastSoFar(m, n - 1, B[n - 1])
      BY <2>2, <3>1
    <3>3. B[n] = Beats(m, B[n - 1], n)
      BY <1>3, <2>3, <2>5
    <3> QED
      BY <2>3, <3>1, <3>2, <3>3, BeatKeeps
  <2> QED
    BY <2>4, <2>5
<1>5. LeastSoFar(m, NTHR, B[NTHR])
    BY <1>0, <1>4
<1>6. \A j \in Heads(m) : j < NTHR /\ nums[m.idx[j]] \in Nat /\ nums[m.idx[j]] < LONG_MAX
    BY <1>0, HeadsAreNumbers DEF Parts
<1>7. B[NTHR].num < LONG_MAX /\ \A j \in Heads(m) : B[NTHR].num <= nums[m.idx[j]]
    BY <1>0, <1>5, <1>6 DEF LeastSoFar
<1>8. B[NTHR].minidx \in Heads(m) /\ B[NTHR].num = nums[m.idx[B[NTHR].minidx]]
    BY <1>5, <1>7 DEF LeastSoFar
<1> QED
    BY <1>2, <1>7, <1>8

\* What is counted is finite.
LEMMA CountIsNumber == ASSUME NEW a, NEW dom, IsFiniteSet(dom), NEW x PROVE Occurrences(a, dom, x) \in Nat
<1> DEFINE S == {n \in dom : a[n] = x}
<1>1. IsFiniteSet(S)
    BY FS_Subset
<1>2. Cardinality(S) \in Nat
    BY <1>1, FS_CardinalityType
<1> QED
    BY <1>2 DEF Occurrences

\* Arrays that agree on a set have the same numbers in it.
LEMMA CountAgrees ==
    ASSUME NEW a, NEW b, NEW dom, \A n \in dom : a[n] = b[n], NEW x
    PROVE  Occurrences(a, dom, x) = Occurrences(b, dom, x)
<1>1. {n \in dom : a[n] = x} = {n \in dom : b[n] = x}
    OBVIOUS
<1> QED
    BY <1>1 DEF Occurrences

\* A set and the rest of the array are the array.
LEMMA CountSplits ==
    ASSUME NEW a, NEW dom, IsFiniteSet(dom), NEW P \in SUBSET dom, NEW x
    PROVE  Occurrences(a, dom, x) = Occurrences(a, P, x) + Occurrences(a, dom \ P, x)
<1> DEFINE S == {n \in dom : a[n] = x}
           Y == {n \in P : a[n] = x}
           Z == {n \in dom \ P : a[n] = x}
<1>1. IsFiniteSet(S) /\ IsFiniteSet(Y) /\ IsFiniteSet(Z)
  <2>1. S \in SUBSET dom /\ Y \in SUBSET dom /\ Z \in SUBSET dom
    OBVIOUS
  <2> HIDE DEF S, Y, Z
  <2> QED
    BY <2>1, FS_Subset
<1>2. S = Y \cup Z /\ Y \cap Z = {}
    OBVIOUS
<1>3. Occurrences(a, dom, x) = Cardinality(S) /\ Occurrences(a, P, x) = Cardinality(Y) /\ Occurrences(a, dom \ P, x) = Cardinality(Z)
    BY DEF Occurrences
<1> HIDE DEF S, Y, Z
<1>4. Cardinality(Y) \in Nat /\ Cardinality(Z) \in Nat
    BY <1>1, FS_CardinalityType
<1>5. Cardinality(Y \cup Z) = Cardinality(Y) + Cardinality(Z) - Cardinality(Y \cap Z)
    BY <1>1, FS_Union
<1>6. Cardinality(Y \cap Z) = 0
    BY <1>2, FS_EmptySet
<1> QED
    BY <1>2, <1>3, <1>4, <1>5, <1>6

\* One more number counts once.
LEMMA CountGrows ==
    ASSUME NEW a, NEW b, NEW dom, IsFiniteSet(dom), \A n \in dom : b[n] = a[n],
           NEW k, k \notin dom, NEW x
    PROVE  Occurrences(b, dom \cup {k}, x) = Occurrences(a, dom, x) + IF b[k] = x THEN 1 ELSE 0
<1> DEFINE S == {n \in dom : a[n] = x}
           Y == {n \in dom \cup {k} : b[n] = x}
<1>1. IsFiniteSet(S) /\ k \notin S
    BY FS_Subset
<1>2. Y = IF b[k] = x THEN S \cup {k} ELSE S
    OBVIOUS
<1>3. Occurrences(a, dom, x) = Cardinality(S) /\ Occurrences(b, dom \cup {k}, x) = Cardinality(Y)
    BY DEF Occurrences
<1> HIDE DEF S, Y
<1>4. Cardinality(S) \in Nat
    BY <1>1, FS_CardinalityType
<1>5. Cardinality(S \cup {k}) = Cardinality(S) + 1
    BY <1>1, FS_AddElement
<1> QED
    BY <1>2, <1>3, <1>4, <1>5

\* The numbers merge has taken: what lies before idx in each part.
Merged(idx) == {k \in Indexes : \E i \in Parts : k \in Part(i) /\ k < idx[i]}

\* There are no more of them than numbers.
LEMMA TakenIsFinite == ASSUME NEW idx PROVE /\ IsFiniteSet(Merged(idx)) /\ Merged(idx) \subseteq Indexes
                                            /\ Cardinality(Merged(idx)) \in Nat
<1>1. IsFiniteSet(Indexes)
    BY PartsInOrder, FS_Interval DEF Indexes
<1>2. Merged(idx) \in SUBSET Indexes
    BY DEF Merged
<1>3. IsFiniteSet(Merged(idx))
    BY <1>1, <1>2, FS_Subset
<1>4. Cardinality(Merged(idx)) \in Nat
    BY <1>3, FS_CardinalityType
<1> QED
    BY <1>2, <1>3, <1>4

\* merge takes the first number that is left of part i.
LEMMA TakenGrows ==
    ASSUME NEW idx, idx \in [Parts -> Nat], NEW i \in Parts, idx[i] \in Part(i),
           NEW new, new = [idx EXCEPT ![i] = @ + 1]
    PROVE  Merged(new) = Merged(idx) \cup {idx[i]} /\ idx[i] \notin Merged(idx)
<1>1. new[i] = idx[i] + 1 /\ \A j \in Parts : j # i => new[j] = idx[j]
    OBVIOUS
<1>2. idx[i] \in Indexes /\ \A k \in Indexes : k \in Nat
    BY PartsPartition, PartsInOrder DEF Indexes
<1>3. ASSUME NEW j \in Parts, idx[i] \in Part(j) PROVE j = i
    BY <1>3, PartsPartition
<1>4. idx[i] \notin Merged(idx)
    BY <1>2, <1>3 DEF Merged
<1>5. ASSUME NEW k \in Indexes PROVE k \in Merged(new) <=> k \in Merged(idx) \/ k = idx[i]
  <2>1. PICK j \in Parts : k \in Part(j)
    BY PartsPartition
  <2>2. \A l \in Parts : k \in Part(l) => l = j
    BY <2>1, PartsPartition
  <2>3. (k \in Merged(new) <=> k < new[j]) /\ (k \in Merged(idx) <=> k < idx[j])
    BY <2>1, <2>2 DEF Merged
  <2>4. k \in Nat /\ idx[j] \in Nat /\ idx[i] \in Nat
    BY <1>2
  <2>5. CASE j = i
    BY <2>3, <2>4, <2>5, <1>1
  <2>6. CASE j # i
    <3>1. k # idx[i]
      BY <2>1, <2>6, <1>3
    <3> QED
      BY <2>3, <2>6, <3>1, <1>1
  <2> QED
    BY <2>5, <2>6
<1>6. Merged(new) \subseteq Indexes /\ Merged(idx) \subseteq Indexes
    BY DEF Merged
<1> QED
    BY <1>2, <1>4, <1>5, <1>6

\* While a number is left, some part is not finished.
LEMMA SomeHeadIsLeft ==
    ASSUME NEW m, IdxInParts(m.idx), Cardinality(Merged(m.idx)) < NUMNUM
    PROVE  Heads(m) # {}
<1>1. Cardinality(Indexes) = NUMNUM
    BY PartsInOrder, FS_Interval DEF Indexes
<1>2. Merged(m.idx) # Indexes
    BY <1>1, PartsInOrder
<1>3. PICK k \in Indexes : k \notin Merged(m.idx)
    BY <1>2, TakenIsFinite
<1>4. PICK i \in Parts : k \in Part(i)
    BY PartsPartition
<1>5. ~(k < m.idx[i])
    BY <1>3, <1>4 DEF Merged
<1>6. i \in 0..NTHR /\ i + 1 \in 0..NTHR
    BY SortAssumption DEF Parts
<1>7. First(i) \in Nat /\ First(i + 1) \in Nat /\ Part(i) = First(i)..(First(i + 1) - 1) /\ m.idx[i] \in First(i)..First(i + 1)
    BY <1>6, PartsInOrder DEF IdxInParts
<1>8. m.idx[i] < First(i + 1)
    BY <1>4, <1>5, <1>7
<1> QED
    BY <1>8 DEF Heads

\* merge: what it has put into snums is in order, is what it has taken, and is not
\* above what is left.
Rising(s) == \A n \in 1..(Len(s) - 1) : s[n] <= s[n + 1]
Left(m, last) == \A i \in Parts : \A k \in Part(i) : k >= m.idx[i] => nums[k] >= last
Moved(s, idx) == \A x \in Numbers : Occurrences(s, 1..Len(s), x) = Occurrences(nums, Merged(idx), x)

MergeInv ==
    /\ merging = [idx |-> merging.idx, sidx |-> merging.sidx, minidx |-> merging.minidx]
    /\ merging.idx \in [Parts -> Nat] /\ IdxInParts(merging.idx)
    /\ snums \in Seq(Numbers) /\ merging.sidx = Len(snums)
    /\ Cardinality(Merged(merging.idx)) = Len(snums)
    /\ Rising(snums)
    /\ snums # <<>> => Left(merging, snums[Len(snums)])
    /\ Moved(snums, merging.idx)

Given == \A x \in Numbers : Occurrences(nums, Indexes, x) = Occurrences(given, Indexes, x)
PartsSorted == \A i \in Parts : sorter[i] \in {"barrier", "end"} => Sorted(nums, i)
Merging == smain = "merge" \/ snums # <<>>

SortInv ==
    /\ smain \in {"start", "create", "barrier", "merge", "exit"}
    /\ sorter \in [Parts -> {"none", "sort", "barrier", "end"}]
    /\ DOMAIN nums = Indexes /\ DOMAIN given = Indexes
    /\ smain = "start" => \A i \in Parts : sorter[i] = "none"
    /\ smain # "start" => nums \in [Indexes -> Numbers] /\ Given
    /\ PartsSorted
    /\ Merging => smain \in {"merge", "exit"} /\ (\A i \in Parts : sorter[i] = "end") /\ MergeInv
    /\ ~Merging => merging = [idx |-> [i \in Parts |-> First(i)], sidx |-> 0, minidx |-> 0]

\* The property follows: when all is merged, all is taken.
LEMMA SortInvGives == SortInv => MergedAreTheSmallest
<1> SUFFICES ASSUME SortInv PROVE MergedAreTheSmallest
    OBVIOUS
<1>0. NUMNUM \in Nat /\ NUMNUM > 0
  <2>1. NTHR * TNUM >= TNUM /\ TNUM \in Nat /\ TNUM > 0
    BY SortAssumption, AtLeastOnce
  <2> QED
    BY <2>1, PartsInOrder DEF NUMNUM
<1>1. CASE ~Merging
  <2>1. snums = <<>> /\ smain # "merge"
    BY <1>1 DEF Merging
  <2>2. Len(snums) = 0
    BY <2>1
  <2> QED
    BY <1>0, <2>1, <2>2 DEF MergedAreTheSmallest
<1>2. CASE Merging
  <2>1. MergeInv /\ smain # "start"
    BY <1>2 DEF SortInv
  <2>2. \A n \in 1..(Len(snums) - 1) : snums[n] <= snums[n + 1]
    BY <2>1 DEF MergeInv, Rising
  <2>3. ASSUME NEW i \in Parts, NEW k \in Part(i), k >= merging.idx[i], snums # <<>> PROVE nums[k] >= snums[Len(snums)]
    BY <2>1, <2>3 DEF MergeInv, Left
  <2>4. ASSUME Len(snums) = NUMNUM, NEW x \in Numbers
        PROVE  Occurrences(snums, DOMAIN snums, x) = Occurrences(given, DOMAIN given, x)
    <3>1. IsFiniteSet(Indexes) /\ Cardinality(Indexes) = NUMNUM
      BY <1>0, FS_Interval DEF Indexes
    <3>2. Cardinality(Merged(merging.idx)) = NUMNUM /\ Merged(merging.idx) \in SUBSET Indexes
      BY <2>1, <2>4, TakenIsFinite DEF MergeInv
    <3>3. Merged(merging.idx) = Indexes
      BY <3>1, <3>2, FS_Subset
    <3>4. Occurrences(snums, 1..Len(snums), x) = Occurrences(nums, Indexes, x)
      BY <2>1, <3>3 DEF MergeInv, Moved
    <3>5. Occurrences(nums, Indexes, x) = Occurrences(given, Indexes, x) /\ DOMAIN given = Indexes
      BY <2>1 DEF SortInv, Given
    <3>6. DOMAIN snums = 1..Len(snums)
      BY <2>1, LenProperties DEF MergeInv
    <3> QED
      BY <3>4, <3>5, <3>6
  <2> QED
    BY <2>2, <2>3, <2>4 DEF MergedAreTheSmallest
<1> QED
    BY <1>1, <1>2

\* main makes the numbers.
LEMMA MakeKeeps == SortInv /\ MakeNumbers => SortInv'
<1> SUFFICES ASSUME SortInv, MakeNumbers PROVE SortInv'
    OBVIOUS
<1>1. ~Merging
    BY DEF SortInv, MakeNumbers
<1>2. /\ nums' \in [Indexes -> Numbers] /\ given' = nums' /\ smain' = "create" /\ snums' = snums /\ sorter' = sorter /\ merging' = merging
      /\ smain = "start"
    BY DEF MakeNumbers, Indexes
<1>3. ~Merging' /\ Given'
    BY <1>1, <1>2 DEF Merging, Given
<1>4. PartsSorted'
    BY <1>2 DEF SortInv, PartsSorted
<1> QED
    BY <1>1, <1>2, <1>3, <1>4 DEF SortInv

\* pthread_create.
LEMMA CreateKeeps == SortInv /\ CreateSorter => SortInv'
<1> SUFFICES ASSUME SortInv, CreateSorter PROVE SortInv'
    OBVIOUS
<1>1. ~Merging
    BY DEF SortInv, CreateSorter, Merging
<1>2. /\ nums' = nums /\ given' = given /\ snums' = snums /\ merging' = merging
      /\ smain = "create" /\ smain' \in {"create", "barrier", "exit"}
    BY DEF CreateSorter
<1>3. sorter' = sorter \/ \E i : sorter' = [sorter EXCEPT ![i] = "sort"]
    BY DEF CreateSorter
<1>4. /\ sorter' \in [Parts -> {"none", "sort", "barrier", "end"}]
      /\ \A i \in Parts : sorter'[i] \in {"barrier", "end"} => sorter[i] = sorter'[i]
    BY <1>3 DEF SortInv
<1>5. ~Merging' /\ (Given => Given')
    BY <1>1, <1>2 DEF Merging, Given
<1>6. PartsSorted'
  <2>1. ASSUME NEW i \in Parts, sorter'[i] \in {"barrier", "end"} PROVE Sorted(nums', i)
    BY <1>2, <1>4, <2>1 DEF SortInv, PartsSorted
  <2> QED
    BY <2>1 DEF PartsSorted, Sorted
<1> QED
    BY <1>1, <1>2, <1>4, <1>5, <1>6 DEF SortInv

\* A part of the array for another.
Replaced(a, P, p) == [n \in DOMAIN a |-> IF n \in P THEN p[n] ELSE a[n]]

\* A sorted part has the numbers it had (heapsort sorts in place).
LEMMA CountKept ==
    ASSUME NEW i \in Parts, NEW p, DOMAIN nums = Indexes, NEW x,
           Occurrences(p, Part(i), x) = Occurrences(nums, Part(i), x)
    PROVE  Occurrences(Replaced(nums, Part(i), p), Indexes, x) = Occurrences(nums, Indexes, x)
<1> DEFINE r == Replaced(nums, Part(i), p)
<1>1. IsFiniteSet(Indexes) /\ Part(i) \in SUBSET Indexes
    BY PartsInOrder, PartsPartition, FS_Interval DEF Indexes
<1>2. (\A n \in Part(i) : r[n] = p[n]) /\ \A n \in Indexes \ Part(i) : r[n] = nums[n]
    BY <1>1 DEF Replaced
<1> HIDE DEF r
<1>3. Occurrences(r, Part(i), x) = Occurrences(nums, Part(i), x)
    BY <1>2, CountAgrees
<1>4. Occurrences(r, Indexes \ Part(i), x) = Occurrences(nums, Indexes \ Part(i), x)
    BY <1>2, CountAgrees
<1>5. Occurrences(r, Indexes, x) = Occurrences(r, Part(i), x) + Occurrences(r, Indexes \ Part(i), x)
    BY <1>1, CountSplits
<1>6. Occurrences(nums, Indexes, x) = Occurrences(nums, Part(i), x) + Occurrences(nums, Indexes \ Part(i), x)
    BY <1>1, CountSplits
<1> QED
    BY <1>3, <1>4, <1>5, <1>6 DEF r

\* thr_fn sorts its part.
LEMMA SortKeeps == ASSUME NEW i \in Parts PROVE SortInv /\ thr_sorts(i) => SortInv'
<1> SUFFICES ASSUME SortInv, thr_sorts(i) PROVE SortInv'
    OBVIOUS
<1>1. ~Merging /\ smain # "start" /\ nums \in [Indexes -> Numbers] /\ Given
    BY DEF SortInv, thr_sorts
<1>2. /\ sorter' = [sorter EXCEPT ![i] = "barrier"]
      /\ given' = given /\ snums' = snums /\ smain' = smain /\ merging' = merging
    BY DEF thr_sorts
<1>3. PICK p \in [Part(i) -> Numbers] :
        /\ \A n \in Part(i) : n + 1 \in Part(i) => complong(p[n], p[n + 1]) <= 0
        /\ \A x \in Numbers : Occurrences(p, Part(i), x) = Occurrences(nums, Part(i), x)
        /\ nums' = Replaced(nums, Part(i), p)
    BY DEF thr_sorts, Replaced
<1>4. Part(i) \subseteq Indexes /\ DOMAIN nums = Indexes
    BY PartsPartition DEF SortInv
<1>5. /\ nums' \in [Indexes -> Numbers]
      /\ \A n \in Part(i) : nums'[n] = p[n]
      /\ \A n \in Indexes \ Part(i) : nums'[n] = nums[n]
    BY <1>1, <1>3, <1>4 DEF Replaced
<1>6. Given'
  <2>1. ASSUME NEW x \in Numbers PROVE Occurrences(nums', Indexes, x) = Occurrences(given, Indexes, x)
    <3>1. Occurrences(p, Part(i), x) = Occurrences(nums, Part(i), x)
      BY <1>3
    <3>2. Occurrences(nums', Indexes, x) = Occurrences(nums, Indexes, x)
      BY <1>3, <1>4, <3>1, CountKept
    <3> QED
      BY <3>2, <1>1 DEF Given
  <2> QED
    BY <1>2, <2>1 DEF Given
<1>7. PartsSorted'
  <2>1. ASSUME NEW j \in Parts, sorter'[j] \in {"barrier", "end"}, NEW n \in Part(j), n + 1 \in Part(j)
        PROVE  nums'[n] <= nums'[n + 1]
    <3>1. CASE j = i
      <4>1. nums'[n] = p[n] /\ nums'[n + 1] = p[n + 1] /\ complong(p[n], p[n + 1]) <= 0
        BY <1>3, <1>5, <2>1, <3>1
      <4>2. p[n] \in Numbers /\ p[n + 1] \in Numbers
        BY <1>3, <2>1, <3>1
      <4>3. p[n] \in Nat /\ p[n + 1] \in Nat
        BY <4>2, SortAssumption
      <4> QED
        BY <4>1, <4>3 DEF complong
    <3>2. CASE j # i
      <4>1. Part(j) \subseteq Indexes /\ Part(i) \cap Part(j) = {}
        BY <3>2, PartsPartition
      <4>2. nums'[n] = nums[n] /\ nums'[n + 1] = nums[n + 1]
        BY <1>5, <2>1, <4>1
      <4>3. sorter[j] \in {"barrier", "end"}
        BY <1>2, <2>1, <3>2 DEF SortInv
      <4> QED
        BY <2>1, <4>2, <4>3 DEF SortInv, PartsSorted, Sorted
    <3> QED
      BY <3>1, <3>2
  <2> QED
    BY <2>1 DEF PartsSorted, Sorted
<1>8. ~Merging'
    BY <1>1, <1>2 DEF Merging
<1> QED
    BY <1>1, <1>2, <1>4, <1>5, <1>6, <1>7, <1>8 DEF SortInv

\* What merge starts with.
LEMMA NothingTaken ==
    LET idx == [i \in Parts |-> First(i)]
    IN  Merged(idx) = {} /\ IdxInParts(idx) /\ idx \in [Parts -> Nat]
<1> DEFINE idx == [i \in Parts |-> First(i)]
<1>1. ASSUME NEW i \in Parts
      PROVE  First(i) \in Nat /\ First(i + 1) \in Nat /\ First(i) <= First(i + 1) /\ Part(i) = First(i)..(First(i + 1) - 1)
  <2>1. i \in 0..NTHR /\ i + 1 \in 0..NTHR /\ TNUM \in Nat
    BY SortAssumption DEF Parts
  <2> QED
    BY <2>1, PartsInOrder
<1>2. IdxInParts(idx) /\ idx \in [Parts -> Nat]
    BY <1>1 DEF IdxInParts
<1>3. Merged(idx) = {}
    BY <1>1 DEF Merged
<1> QED
    BY <1>2, <1>3

\* The barrier opens when all parts are sorted.
LEMMA BarrierKeeps == SortInv /\ BarrierOpens => SortInv'
<1> SUFFICES ASSUME SortInv, BarrierOpens PROVE SortInv'
    OBVIOUS
<1>1. ~Merging /\ snums = <<>> /\ merging = [idx |-> [i \in Parts |-> First(i)], sidx |-> 0, minidx |-> 0]
    BY DEF SortInv, BarrierOpens, Merging
<1>2. /\ sorter' = [i \in Parts |-> "end"] /\ smain = "barrier" /\ smain' = "merge"
      /\ nums' = nums /\ given' = given /\ snums' = snums /\ merging' = merging
    BY DEF BarrierOpens
<1>3. \A i \in Parts : sorter[i] = "barrier"
  <2> DEFINE S == {i \in Parts : sorter[i] = "barrier"}
  <2>1. S \in SUBSET Parts /\ Cardinality(S) = NTHR
    BY DEF BarrierOpens
  <2>2. IsFiniteSet(Parts) /\ Cardinality(Parts) = NTHR
    BY SortAssumption, FS_Interval DEF Parts
  <2>3. S = Parts
    <3> HIDE DEF S
    <3> QED
      BY <2>1, <2>2, FS_Subset
  <2> QED
    BY <2>3
<1>4. PartsSorted'
    BY <1>2, <1>3 DEF SortInv, PartsSorted, Sorted
<1>5. MergeInv
  <2> DEFINE idx == [i \in Parts |-> First(i)]
  <2>1. Merged(idx) = {} /\ IdxInParts(idx) /\ idx \in [Parts -> Nat]
    BY NothingTaken
  <2>2. merging.idx = idx /\ merging.sidx = 0 /\ Len(snums) = 0
        /\ merging = [idx |-> merging.idx, sidx |-> merging.sidx, minidx |-> merging.minidx]
    BY <1>1
  <2> HIDE DEF idx
  <2>3. Cardinality({}) = 0
    BY FS_EmptySet
  <2>4. Moved(snums, merging.idx)
    <3>1. ASSUME NEW x PROVE Occurrences(snums, 1..0, x) = Occurrences(nums, {}, x)
      BY DEF Occurrences
    <3> QED
      BY <2>1, <2>2, <3>1 DEF Moved
  <2>5. snums \in Seq(Numbers) /\ Rising(snums)
    BY <1>1, <2>2 DEF Rising
  <2> QED
    BY <1>1, <2>1, <2>2, <2>3, <2>4, <2>5 DEF MergeInv
<1>6. MergeInv'
    BY <1>2, <1>5 DEF MergeInv, Moved, Left
<1>7. Merging' /\ (Given => Given')
    BY <1>2 DEF Merging, Given
<1> QED
    BY <1>2, <1>4, <1>6, <1>7 DEF SortInv

\* One turn of the outer loop: the number it takes is the least that is left.
TurnOf(m, i, s, new) ==
    /\ i \in Heads(m) /\ \A j \in Heads(m) : nums[m.idx[i]] <= nums[m.idx[j]]
    /\ s = Append(snums, nums[m.idx[i]])
    /\ new = [idx |-> [m.idx EXCEPT ![i] = @ + 1], sidx |-> m.sidx + 1, minidx |-> i]

\* What is left is not below it: other parts begin above it and its own is sorted.
LEMMA LeftIsAbove ==
    ASSUME NEW i, NEW s, NEW new, TurnOf(merging, i, s, new), MergeInv,
           nums \in [Indexes -> Numbers], \A j \in Parts : Sorted(nums, j)
    PROVE  Left(new, nums[merging.idx[i]])
<1>1. /\ i \in Heads(merging) /\ IdxInParts(merging.idx) /\ merging.idx \in [Parts -> Nat]
      /\ new.idx = [merging.idx EXCEPT ![i] = @ + 1]
    BY DEF MergeInv, TurnOf
<1>2. i \in Parts /\ merging.idx[i] \in Part(i) /\ nums[merging.idx[i]] \in Nat
    BY <1>1, HeadsAreNumbers
<1>3. new.idx[i] = merging.idx[i] + 1 /\ \A j \in Parts : j # i => new.idx[j] = merging.idx[j]
    BY <1>1, <1>2
<1>4. ASSUME NEW j \in Parts, NEW k \in Part(j), k >= new.idx[j] PROVE nums[k] >= nums[merging.idx[i]]
  <2>1. j \in 0..NTHR /\ j + 1 \in 0..NTHR
    BY SortAssumption DEF Parts
  <2>2. /\ First(j) \in Nat /\ First(j + 1) \in Nat /\ Part(j) = First(j)..(First(j + 1) - 1)
        /\ merging.idx[j] \in First(j)..First(j + 1)
    BY <1>1, <2>1, PartsInOrder DEF IdxInParts
  <2>3. merging.idx[j] <= k
    BY <1>3, <1>4, <2>2
  <2>4. merging.idx[j] < First(j + 1)
    BY <2>2, <2>3
  <2>5. j \in Heads(merging) /\ merging.idx[j] \in Part(j)
    BY <2>2, <2>4 DEF Heads
  <2>6. \A n \in Part(j) : nums[n] \in Nat
    BY PartsPartition, SortAssumption
  <2>7. nums[merging.idx[j]] <= nums[k]
    BY <2>3, <2>5, <2>6, InOrder
  <2>8. nums[merging.idx[i]] <= nums[merging.idx[j]]
    BY <2>5 DEF TurnOf
  <2> QED
    BY <1>2, <2>5, <2>6, <2>7, <2>8
<1> QED
    BY <1>4 DEF Left

\* The same numbers, one more each.
LEMMA MovedOneMore ==
    ASSUME NEW i, NEW s, NEW new, TurnOf(merging, i, s, new), MergeInv, nums \in [Indexes -> Numbers]
    PROVE  /\ s \in Seq(Numbers) /\ Len(s) = Len(snums) + 1 /\ s[Len(s)] = nums[merging.idx[i]]
           /\ \A n \in 1..Len(snums) : s[n] = snums[n]
           /\ Cardinality(Merged(new.idx)) = Len(s) /\ Moved(s, new.idx)
<1> DEFINE k == merging.idx[i]
           t == Merged(merging.idx)
<1>1. /\ i \in Heads(merging) /\ IdxInParts(merging.idx) /\ merging.idx \in [Parts -> Nat]
      /\ new.idx = [merging.idx EXCEPT ![i] = @ + 1] /\ s = Append(snums, nums[k])
      /\ snums \in Seq(Numbers) /\ Cardinality(t) = Len(snums) /\ Moved(snums, merging.idx)
    BY DEF MergeInv, TurnOf
<1>2. i \in Parts /\ k \in Part(i) /\ k \in Indexes
    BY <1>1, HeadsAreNumbers
<1>3. nums[k] \in Numbers /\ Len(snums) \in Nat
    BY <1>1, <1>2
<1>4. Merged(new.idx) = t \cup {k} /\ k \notin t
    BY <1>1, <1>2, TakenGrows
<1>5. IsFiniteSet(t)
    BY TakenIsFinite
<1> HIDE DEF k, t
<1>6. /\ s \in Seq(Numbers) /\ Len(s) = Len(snums) + 1 /\ s[Len(s)] = nums[k]
      /\ \A n \in 1..Len(snums) : s[n] = snums[n]
    BY <1>1, <1>3
<1>7. Cardinality(t \cup {k}) = Cardinality(t) + 1
    BY <1>4, <1>5, FS_AddElement
<1>8. ASSUME NEW x \in Numbers PROVE Occurrences(s, 1..Len(s), x) = Occurrences(nums, Merged(new.idx), x)
  <2>1. Occurrences(nums, t \cup {k}, x) = Occurrences(nums, t, x) + IF nums[k] = x THEN 1 ELSE 0
    BY <1>4, <1>5, CountGrows
  <2> DEFINE dom == 1..Len(snums)
             l == Len(s)
  <2>2. /\ IsFiniteSet(dom) /\ l \notin dom
        /\ 1..Len(s) = dom \cup {l} /\ \A n \in dom : s[n] = snums[n]
    <3>1. Len(s) \notin 1..Len(snums) /\ 1..Len(s) = (1..Len(snums)) \cup {Len(s)}
      BY <1>3, <1>6
    <3>2. IsFiniteSet(1..Len(snums))
      BY <1>3, FS_Interval
    <3> QED
      BY <1>6, <3>1, <3>2
  <2> HIDE DEF dom, l
  <2>3. Occurrences(s, dom \cup {l}, x) = Occurrences(snums, dom, x) + IF s[l] = x THEN 1 ELSE 0
    BY <2>2, CountGrows
  <2>4. Occurrences(snums, 1..Len(snums), x) = Occurrences(nums, t, x)
    BY <1>1 DEF Moved, t
  <2> QED
    BY <1>4, <1>6, <2>1, <2>2, <2>3, <2>4 DEF dom, l
<1>9. Moved(s, new.idx)
    BY <1>8 DEF Moved
<1> QED
    BY <1>1, <1>4, <1>6, <1>7, <1>9 DEF k

\* merge goes on, or is done.
LEMMA mergeKeeps == SortInv /\ merge => SortInv'
<1> SUFFICES ASSUME SortInv, merge PROVE SortInv'
    OBVIOUS
<1>1. /\ smain = "merge" /\ Merging /\ MergeInv /\ (\A i \in Parts : sorter[i] = "end")
      /\ nums \in [Indexes -> Numbers] /\ Given /\ DOMAIN given = Indexes
      /\ nums' = nums /\ given' = given /\ sorter' = sorter
    BY DEF SortInv, merge, Merging
<1>2. PartsSorted' /\ Given' /\ PartsSorted
    BY <1>1 DEF SortInv, PartsSorted, Sorted, Given
<1>3. CASE merging.sidx < NUMNUM
  <2> DEFINE i == MinIdx(merging)
             k == merging.idx[i]
  <2>1. /\ snums' = Append(snums, nums[k])
        /\ merging' = [idx |-> [merging.idx EXCEPT ![i] = @ + 1], sidx |-> merging.sidx + 1, minidx |-> i]
        /\ smain' = smain
    BY <1>3 DEF merge
  <2>2. /\ merging.idx \in [Parts -> Nat] /\ IdxInParts(merging.idx) /\ merging.sidx = Len(snums)
        /\ snums \in Seq(Numbers) /\ Cardinality(Merged(merging.idx)) = Len(snums) /\ Rising(snums)
        /\ snums # <<>> => Left(merging, snums[Len(snums)])
    BY <1>1 DEF MergeInv
  <2>3. Heads(merging) # {}
    BY <1>3, <2>2, SomeHeadIsLeft
  <2>4. i \in Heads(merging) /\ \A j \in Heads(merging) : nums[k] <= nums[merging.idx[j]]
    BY <1>1, <2>2, <2>3, MinIdxIsLeast
  <2> HIDE DEF i
  <2>5. TurnOf(merging, i, snums', merging')
    BY <2>1, <2>4 DEF TurnOf
  <2>6. \A j \in Parts : Sorted(nums, j)
    BY <1>1, <1>2 DEF PartsSorted
  <2>7. Left(merging', nums[k])
    BY <1>1, <2>5, <2>6, LeftIsAbove
  <2>8. /\ snums' \in Seq(Numbers) /\ Len(snums') = Len(snums) + 1 /\ snums'[Len(snums')] = nums[k]
        /\ \A n \in 1..Len(snums) : snums'[n] = snums[n]
        /\ Cardinality(Merged(merging'.idx)) = Len(snums') /\ Moved(snums', merging'.idx)
    BY <1>1, <2>5, MovedOneMore
  <2>9. i \in Parts /\ k \in Part(i) /\ nums[k] \in Nat
    BY <1>1, <2>2, <2>4, HeadsAreNumbers
  <2> HIDE DEF k
  <2>10. Rising(snums')
    <3>1. ASSUME NEW n \in 1..(Len(snums') - 1) PROVE snums'[n] <= snums'[n + 1]
      <4>0. Len(snums) \in Nat /\ n \in 1..Len(snums) /\ snums'[n] = snums[n]
        BY <2>2, <2>8
      <4>1. CASE n < Len(snums)
        <5>1. n \in 1..(Len(snums) - 1) /\ n + 1 \in 1..Len(snums)
          BY <4>0, <4>1
        <5> QED
          BY <4>0, <5>1, <2>2, <2>8 DEF Rising
      <4>2. CASE n = Len(snums)
        <5>1. snums # <<>> /\ snums'[n + 1] = nums[k] /\ snums[n] \in Nat
          BY <4>0, <4>2, <2>2, <2>8, SortAssumption
        <5>2. k >= merging.idx[i]
          BY <2>2, <2>9 DEF k
        <5>3. nums[k] >= snums[n]
          BY <4>2, <5>1, <5>2, <2>2, <2>9 DEF Left
        <5> QED
          BY <4>0, <5>1, <5>3, <2>9
      <4> QED
        BY <4>0, <4>1, <4>2
    <3> QED
      BY <3>1 DEF Rising
  <2>11. merging'.idx \in [Parts -> Nat] /\ IdxInParts(merging'.idx)
    <3>1. i \in 0..NTHR /\ i + 1 \in 0..NTHR
      BY <2>9, SortAssumption DEF Parts
    <3>2. First(i) \in Nat /\ First(i + 1) \in Nat /\ Part(i) = First(i)..(First(i + 1) - 1)
      BY <2>9, <3>1, PartsInOrder
    <3>3. k \in Nat /\ k + 1 \in First(i)..First(i + 1)
      BY <2>9, <3>2
    <3>4. merging'.idx = [merging.idx EXCEPT ![i] = k + 1]
      BY <2>1 DEF k
    <3> QED
      BY <2>2, <2>9, <3>3, <3>4 DEF IdxInParts
  <2>12. MergeInv'
    <3>1. Left(merging, snums[Len(snums)])' <=> Left(merging', nums[k])
      BY <1>1, <2>8 DEF Left
    <3>2. Moved(snums, merging.idx)' <=> Moved(snums', merging'.idx)
      BY <1>1 DEF Moved
    <3>3. /\ merging'.sidx = Len(snums')
          /\ merging' = [idx |-> merging'.idx, sidx |-> merging'.sidx, minidx |-> merging'.minidx]
      BY <2>1, <2>2, <2>8
    <3> QED
      BY <3>1, <3>2, <3>3, <2>7, <2>8, <2>10, <2>11 DEF MergeInv
  <2>13. Merging'
    BY <1>1, <2>1 DEF Merging
  <2> QED
    BY <1>1, <1>2, <2>1, <2>12, <2>13 DEF SortInv
<1>4. CASE ~(merging.sidx < NUMNUM)
  <2>1. smain' = "exit" /\ snums' = snums /\ merging' = merging
    BY <1>4 DEF merge
  <2>2. MergeInv'
    BY <1>1, <2>1 DEF MergeInv, Left, Moved
  <2>3. snums # <<>>
    <3>1. NUMNUM \in Nat /\ NUMNUM > 0
      <4>1. NTHR * TNUM >= TNUM /\ TNUM \in Nat /\ TNUM > 0
        BY SortAssumption, AtLeastOnce
      <4> QED
        BY <4>1, PartsInOrder DEF NUMNUM
    <3>2. Len(snums) \in Nat /\ merging.sidx = Len(snums)
      BY <1>1 DEF MergeInv
    <3> QED
      BY <1>4, <3>1, <3>2
  <2>4. Merging'
    BY <2>1, <2>3 DEF Merging
  <2> QED
    BY <1>1, <1>2, <2>1, <2>2, <2>4 DEF SortInv
<1> QED
    BY <1>3, <1>4

\* Every step keeps the invariant.
LEMMA SortInvStep == SortInv /\ [SortNext]_sortVars => SortInv'
<1> SUFFICES ASSUME SortInv, [SortNext]_sortVars PROVE SortInv'
    OBVIOUS
<1>1. CASE MakeNumbers
    BY <1>1, MakeKeeps
<1>2. CASE CreateSorter
    BY <1>2, CreateKeeps
<1>3. CASE \E i \in Parts : thr_sorts(i)
    BY <1>3, SortKeeps
<1>4. CASE BarrierOpens
    BY <1>4, BarrierKeeps
<1>5. CASE merge
    BY <1>5, mergeKeeps
<1>6. CASE UNCHANGED sortVars
    BY <1>6 DEF sortVars, SortInv, Given, PartsSorted, Sorted, Merging, MergeInv, Moved, Left
<1> QED
    BY <1>1, <1>2, <1>3, <1>4, <1>5, <1>6 DEF SortNext

\* What barrier.c prints: at every turn of merge, in any order in which the threads
\* sort, snums is in order, has the smallest numbers, and at the end each as often as it
\* was given.
THEOREM TheNumbersAreSorted == SortSpec => []MergedAreTheSmallest
<1>1. SortInit => SortInv
  <2> SUFFICES ASSUME SortInit PROVE SortInv
    OBVIOUS
  <2>1. ~Merging /\ smain = "start" /\ \A i \in Parts : sorter[i] = "none"
    BY DEF SortInit, Merging
  <2>2. DOMAIN nums = Indexes /\ DOMAIN given = Indexes
    BY DEF SortInit, Indexes
  <2>3. PartsSorted
    BY <2>1 DEF PartsSorted
  <2> QED
    BY <2>1, <2>2, <2>3 DEF SortInv, SortInit
<1> QED
    BY <1>1, SortInvStep, SortInvGives, PTL DEF SortSpec

=============================================================================
