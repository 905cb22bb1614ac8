------------------------------ MODULE TellWait ------------------------------
(* TELL_WAIT and its companions, by signals (lib/tellwait.c) and by pipes     *)
(* (ipc1/tellwait.c), and three programs in which a parent and its child take *)
(* turns with them: ipc1/devzero.c counts in shared memory, proc/tellwait2.c  *)
(* prints, advio/deadlock.c locks the same two bytes in opposite orders.      *)
EXTENDS Naturals, Sequences

CONSTANTS MaxRounds    \* rounds of devzero (NLOOPS / 2)

ASSUME TellWaitAssumption == MaxRounds \in Nat \ {0}

VARIABLES turns,    \* the program, its rounds, and "signals" or "pipes"
          steps,    \* steps[s]: calls side s has yet to make
          waiting,  \* waiting[s]: where s is in WAIT_PARENT or WAIT_CHILD
          sig,      \* sig[s]: [pending, masked, sigflag] of s
          pipes,    \* pipes[s]: bytes written to s and not read
          area,     \* the counter in shared memory
          turnsOk,  \* no check of devzero has failed
          output,   \* characters on the terminal, by their writer
          bytes     \* bytes[b]: who has locked byte b

tellVars == <<turns, steps, waiting, sig, pipes, area, turnsOk, output, bytes>>

Sides == {"parent", "child"}
Other(s) == IF s = "parent" THEN "child" ELSE "parent"

Repeat(round, n) == [i \in 1..(n * Len(round)) |-> round[((i - 1) % Len(round)) + 1]]

\* The three programs after the fork, parent and child.
DevzeroBody(rounds) == [parent |-> Repeat(<<"update", "tell", "wait">>, rounds),
                        child  |-> Repeat(<<"wait", "update", "tell">>, rounds)]
Tellwait2Body == [parent |-> <<"putc", "putc", "tell">>, child |-> <<"wait", "putc", "putc">>]
DeadlockBody == [parent |-> <<"lock1", "tell", "wait", "lock0">>, child |-> <<"lock0", "tell", "wait", "lock1">>]

Body(name, rounds) == CASE name = "devzero" -> DevzeroBody(rounds)
                        [] name = "tellwait2" -> Tellwait2Body
                        [] name = "deadlock" -> DeadlockBody

TellInit ==
    /\ turns = [name |-> "none", by |-> "none", rounds |-> 0]
    /\ steps = [s \in Sides |-> <<>>]
    /\ waiting = [s \in Sides |-> "no"]
    /\ sig = [s \in Sides |-> [pending |-> FALSE, masked |-> FALSE, sigflag |-> FALSE]]
    /\ pipes = [s \in Sides |-> 0]
    /\ area = 0
    /\ turnsOk = TRUE
    /\ output = <<>>
    /\ bytes = [b \in {"lock0", "lock1"} |-> "none"]
\* Mutant: the signals are not blocked.
MutNotBlocked ==
    /\ turns.name = "none"
    /\ \E name \in {"devzero", "tellwait2", "deadlock"}, by \in {"signals", "pipes"}, rounds \in 1..MaxRounds :
          /\ name # "devzero" => rounds = 1
          /\ turns' = [name |-> name, by |-> by, rounds |-> rounds]
          /\ steps' = Body(name, rounds)
    /\ UNCHANGED <<waiting, sig, pipes, area, turnsOk, output, bytes>>

\* A program runs TELL_WAIT and forks: both sides inherit the blocked signals,
\* or the pipes.
TELL_WAIT ==
    /\ turns.name = "none"
    /\ \E name \in {"devzero", "tellwait2", "deadlock"}, by \in {"signals", "pipes"}, rounds \in 1..MaxRounds :
          /\ name # "devzero" => rounds = 1
          /\ turns' = [name |-> name, by |-> by, rounds |-> rounds]
          /\ steps' = Body(name, rounds)
          /\ sig' = [s \in Sides |-> [sig[s] EXCEPT !.masked = (by = "signals")]]
    /\ UNCHANGED <<waiting, pipes, area, turnsOk, output, bytes>>

Next1(s, op) == steps[s] # <<>> /\ Head(steps[s]) = op /\ waiting[s] = "no"
Done1(s) == steps' = [steps EXCEPT ![s] = Tail(@)]

\* update of devzero: the value before the increment is i.  A round is three
\* calls, the current one the last of those that are left.
Expected(s) == LET left == (Len(steps[s]) + 2) \div 3
               IN  2 * (turns.rounds - left) + (IF s = "parent" THEN 0 ELSE 1)

update(s) ==
    /\ Next1(s, "update")
    /\ turnsOk' = (turnsOk /\ area = Expected(s))
    /\ area' = area + 1
    /\ Done1(s)
    /\ UNCHANGED <<turns, waiting, sig, pipes, output, bytes>>

charatatime(s) ==
    /\ Next1(s, "putc")
    /\ output' = Append(output, s)
    /\ Done1(s)
    /\ UNCHANGED <<turns, waiting, sig, pipes, area, turnsOk, bytes>>

\* lockabyte: F_SETLKW waits for the other's lock, unless the other waits for
\* ours: then it fails with EDEADLK and the process exits, which unlocks.
lockabyte(s, b) ==
    /\ Next1(s, b)
    /\ \/ /\ bytes[b] = "none"
          /\ bytes' = [bytes EXCEPT ![b] = s]
          /\ Done1(s)
       \/ /\ bytes[b] = Other(s)
          /\ \E a \in {"lock0", "lock1"} \ {b} : bytes[a] = s /\ Next1(Other(s), a)
          /\ bytes' = [x \in DOMAIN bytes |-> IF bytes[x] = s THEN "none" ELSE bytes[x]]
          /\ steps' = [steps EXCEPT ![s] = <<>>]
    /\ UNCHANGED <<turns, waiting, sig, pipes, area, turnsOk, output>>

\* A process that has ended holds no locks.
Unlock(s) ==
    /\ steps[s] = <<>> /\ \E b \in DOMAIN bytes : bytes[b] = s
    /\ bytes' = [x \in DOMAIN bytes |-> IF bytes[x] = s THEN "none" ELSE bytes[x]]
    /\ UNCHANGED <<turns, steps, waiting, sig, pipes, area, turnsOk, output>>

\* TELL_PARENT, TELL_CHILD: a signal, or a byte.
TellSignal(s) ==
    /\ turns.by = "signals" /\ Next1(s, "tell")
    /\ sig' = [sig EXCEPT ![Other(s)].pending = TRUE]
    /\ Done1(s)
    /\ UNCHANGED <<turns, waiting, pipes, area, turnsOk, output, bytes>>

TellByte(s) ==
    /\ turns.by = "pipes" /\ Next1(s, "tell")
    /\ pipes' = [pipes EXCEPT ![Other(s)] = @ + 1]
    /\ Done1(s)
    /\ UNCHANGED <<turns, waiting, sig, area, turnsOk, output, bytes>>

\* WAIT_PARENT, WAIT_CHILD by pipes: read blocks until there is a byte.
WaitByte(s) ==
    /\ turns.by = "pipes" /\ Next1(s, "wait") /\ pipes[s] > 0
    /\ pipes' = [pipes EXCEPT ![s] = @ - 1]
    /\ Done1(s)
    /\ UNCHANGED <<turns, waiting, sig, area, turnsOk, output, bytes>>
\* Mutant: sigflag stays set.
MutFlagStays(s) ==
    /\ turns.by = "signals" /\ Next1(s, "wait")
    /\ waiting' = [waiting EXCEPT ![s] = IF sig[s].sigflag THEN "reset" ELSE "suspend"]
    /\ UNCHANGED <<turns, steps, sig, pipes, area, turnsOk, output, bytes>>

\* By signals: sigflag is tested and, if it is clear, sigsuspend is called.  At
\* the end sigflag is cleared and the mask of before TELL_WAIT is set: from
\* then on the signals are not blocked.
WaitTests(s) ==
    /\ turns.by = "signals" /\ Next1(s, "wait")
    /\ IF sig[s].sigflag
         THEN /\ sig' = [sig EXCEPT ![s].sigflag = FALSE]
              /\ waiting' = [waiting EXCEPT ![s] = "reset"]
         ELSE /\ waiting' = [waiting EXCEPT ![s] = "suspend"]
              /\ UNCHANGED sig
    /\ UNCHANGED <<turns, steps, pipes, area, turnsOk, output, bytes>>

WaitResets(s) ==
    /\ waiting[s] = "reset"
    /\ sig' = [sig EXCEPT ![s].masked = FALSE]
    /\ waiting' = [waiting EXCEPT ![s] = "no"]
    /\ Done1(s)
    /\ UNCHANGED <<turns, pipes, area, turnsOk, output, bytes>>

\* sigsuspend begins: the empty mask is set and s sleeps.
Suspends(s) ==
    /\ waiting[s] = "suspend"
    /\ waiting' = [waiting EXCEPT ![s] = "asleep"]
    /\ UNCHANGED <<turns, steps, sig, pipes, area, turnsOk, output, bytes>>

\* sig_usr runs; it ends sigsuspend, which restores the mask.
sig_usr(s) ==
    /\ sig[s].pending /\ (~sig[s].masked \/ waiting[s] = "asleep")
    /\ sig' = [sig EXCEPT ![s].pending = FALSE, ![s].sigflag = TRUE]
    /\ waiting' = [waiting EXCEPT ![s] = IF @ = "asleep" THEN "no" ELSE @]
    /\ UNCHANGED <<turns, steps, pipes, area, turnsOk, output, bytes>>

TellStep(s) == \/ update(s) \/ charatatime(s) \/ lockabyte(s, "lock0") \/ lockabyte(s, "lock1") \/ Unlock(s)
               \/ TellSignal(s) \/ TellByte(s) \/ WaitByte(s) \/ WaitTests(s) \/ WaitResets(s) \/ Suspends(s)

TellNext == TELL_WAIT \/ \E s \in Sides : TellStep(s) \/ sig_usr(s)

\* Both processes are scheduled and signals are delivered.
TellFairness == \A s \in Sides : WF_tellVars(TellStep(s)) /\ WF_tellVars(sig_usr(s))

TellSpec == TellInit /\ [][TellNext]_tellVars /\ TellFairness

----------------------------------------------------------------------------
\* Parent and child take turns, whatever the signals and the scheduler do: the
\* checks of devzero (expected i, got i) hold in every round, the signals of a
\* later round included, and in tellwait2 the parent's line comes first and
\* whole.
TheyTakeTurns ==
    /\ turnsOk
    /\ \A i, j \in DOMAIN output : i < j /\ output[i] = "child" => output[j] = "child"

\* Nobody waits for ever.  deadlock.c ends because one side gets EDEADLK.
\* Left out is devzero over signals for more than one round: the first
\* WAIT_CHILD unblocks the signals, so in a later one the signal can come after
\* the test of sigflag and before sigsuspend, which then never returns.
TurnsEnd ==
    (turns.name # "none" /\ (turns.by = "signals" => turns.rounds = 1)) ~> (\A s \in Sides : steps[s] = <<>>)

============================================================================
