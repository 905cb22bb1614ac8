----------------------------- MODULE OpendProofs -----------------------------
(***************************************************************************)
(* Proofs about the open servers and their clients (Opend), for any set of *)
(* clients and any number of requests: the server watches the connections  *)
(* it has open (WatchedAreOpen), and csopen returns the answer to what was *)
(* asked (AnswerIsForTheAsker).                                            *)
(***************************************************************************)
EXTENDS Opend, FiniteSetTheorems, SequenceTheorems, WellFoundedInduction, TLAPS

-----------------------------------------------------------------------------
(* The state. *)

Fds == 2..(Cardinality(OpenClients) + 1)
Uids == OpenClients \cup {Opener, "root"}
Entry == [fd : Nat, uid : Uids]
PollEntry == [fd : Nat, revents : {"none", "in", "hup"}]
About == [n : Nat, uid : Uids]
Item == [type : {"fd", "text", "status"}, about : About]
Piece == [kind : Lines \cup {"head", "tail"}, n : Nat]
Task == [pc : {"handle", "status"}, c : OpenClients, piece : Piece, uid : Uids]
Socket == [up : Seq(Piece), down : Seq(Item), fd : {Free} \cup Fds,
           cli : BOOLEAN, srv : BOOLEAN, reset : BOOLEAN]
Client == [pc : {"main", "wait", "gone"}, csfd : {"none", "open", "half"}, line : Nat,
           kind : {"none"} \cup Lines, long : BOOLEAN, answer : {"none", "fd", "status"},
           for : Nat, printed : SUBSET About]
Loop == [pc : {"start", "select", "accept", "scan", "dead"}, i : Nat, rset : SUBSET Nat,
         allset : SUBSET Nat, maxi : Nat, numfd : Nat]

OpendTypes ==
    /\ loop \in {"none", "select", "poll", "fe"}
    /\ cli \in [OpenClients -> Client]
    /\ sock \in [OpenClients -> Socket]
    /\ backlog \in Seq(OpenClients)
    /\ serv \in Loop
    /\ client \in Seq(Entry)
    /\ pollfd \in Seq(PollEntry)
    /\ task \in [Servers -> Task \cup {NoTask}]
    /\ errmsg \in [Servers -> About]
    /\ lines \in Nat /\ mishaps \in Nat

Running == serv.pc \notin {"start", "dead"}

\* A descriptor of the server belongs to one connection, which was made once and
\* is not in the queue any more.
Connections ==
    /\ \A c, d \in OpenClients : sock[c].fd = sock[d].fd /\ sock[c].fd # Free => c = d
    /\ \A i, j \in 1..Len(backlog) : backlog[i] = backlog[j] => i = j
    /\ \A i \in 1..Len(backlog) : LET c == backlog[i] IN sock[c].fd = Free /\ sock[c].srv /\ cli[c].csfd # "none"
    /\ \A c \in OpenClients : sock[c].fd # Free => cli[c].csfd # "none"
    /\ Running => \A c \in OpenClients : sock[c].fd # Free => sock[c].srv
    /\ \A c \in OpenClients : cli[c].csfd = "none" => sock[c].up = <<>> /\ ~sock[c].srv
    /\ Running => loop \in {"select", "poll"}
    /\ serv.pc = "start" => /\ backlog = <<>> /\ client = <<>> /\ pollfd = <<>> /\ serv.maxi = 0
                            /\ \A c \in OpenClients : sock[c].fd = Free
    /\ serv.pc = "accept" => backlog # <<>>

OpenFds(so) == {so[c].fd : c \in OpenClients} \ {Free}

\* client[] has each of the descriptors fds once, with its user.
TableOf(table, so, fds) ==
    /\ \A i \in 1..Len(table) : table[i].fd \in {Free} \cup fds
    /\ \A fd \in fds : \E i \in 1..Len(table) : table[i].fd = fd
    /\ \A i, j \in 1..Len(table) : table[i].fd = table[j].fd /\ table[i].fd # Free => i = j
    /\ \A i \in 1..Len(table), c \in OpenClients : table[i].fd = so[c].fd /\ so[c].fd # Free => table[i].uid = c

SelectOf(table, sv, so) ==
    /\ TableOf(table, so, OpenFds(so))
    /\ sv.allset = OpenFds(so) \cup {listenfd}
    /\ sv.maxi <= Len(table) /\ \A i \in 1..Len(table) : table[i].fd # Free => i <= sv.maxi
    /\ sv.pc = "scan" => Free \notin sv.rset /\ sv.i >= 1

PollOf(table, pfd, sv, so) ==
    /\ TableOf(table, so, OpenFds(so) \cup {listenfd})
    /\ sv.numfd \in 1..Len(pfd) /\ pfd[1].fd = listenfd
    /\ \A i \in 2..sv.numfd : pfd[i].fd \in OpenFds(so)
    /\ \A fd \in OpenFds(so) : \E i \in 2..sv.numfd : pfd[i].fd = fd
    /\ \A i, j \in 2..sv.numfd : pfd[i].fd = pfd[j].fd => i = j
    /\ sv.numfd = Cardinality(OpenFds(so)) + 1
    /\ sv.pc \in {"accept", "scan"} => sv.i >= 2

Watched ==
    Running => IF loop = "select" THEN SelectOf(client, serv, sock) ELSE PollOf(client, pollfd, serv, sock)

\* Who handles what: the one server, or each client's own.
Handled ==
    /\ loop # "fe" => \A c \in OpenClients : task[c] = NoTask
    /\ ~Running => task[Opener] = NoTask
    /\ loop \in {"none", "fe"} => serv.pc = "start"
    /\ \A c \in OpenClients : task[c] # NoTask => task[c].c = c
    /\ \A s \in Servers : task[s] # NoTask => /\ sock[task[s].c].srv
                                              /\ loop # "poll" => task[s].uid = task[s].c

WatchInv == OpendTypes /\ Connections /\ Watched /\ Handled

-----------------------------------------------------------------------------
(* What a client is told. *)

IsOn(t, c) == t # NoTask /\ t.c = c
OnIt(tk, c) == \E s \in Servers : IsOn(tk[s], c)
Request(k) == [kind |-> k.kind, n |-> k.line]
RightText(k, c, lp, t) == k.kind # "many" => t.n = k.line /\ (lp # "poll" => t.uid = c)

RightItem(k, c, lp, x) ==
    /\ x.type = "text" => RightText(k, c, lp, x.about)
    /\ x.type = "fd" => k.kind = "file" /\ x.about.n = k.line
    /\ x.type = "status" => k.kind # "file" /\ x.about.n = k.line

\* What the client has got, when csopen has returned.
RightAnswer(k, c, lp) ==
    k.answer # "none" => /\ k.for = k.line /\ (k.answer = "fd") = (k.kind = "file")
                         /\ \A t \in k.printed : RightText(k, c, lp, t)

\* A client that does not ask finds nothing in its socket, nor does the server.
\* One that waits has its request in the socket, or at the server, or its answer
\* on the way, up to its end.
Idling(k, so, tk, c) ==
    so.down = <<>> /\ (so.srv => so.up = <<>>) /\ ~OnIt(tk, c)

Waiting(k, so, tk, c, lp) ==
    /\ \A t \in k.printed : RightText(k, c, lp, t)
    /\ \A i \in 1..Len(so.down) : /\ RightItem(k, c, lp, so.down[i])
                                  /\ so.down[i].type # "text" => i = Len(so.down) /\ ~OnIt(tk, c)
    /\ so.srv /\ so.up # <<>> => so.up = <<Request(k)>> /\ so.down = <<>> /\ ~OnIt(tk, c)
    /\ \A s \in Servers : IsOn(tk[s], c) => /\ tk[s].piece = Request(k)
                                            /\ tk[s].pc = "status" => k.kind # "file"

Honest(k, so, tk, c, lp) ==
    ~k.long => /\ k.pc = "main" => RightAnswer(k, c, lp) /\ Idling(k, so, tk, c)
               /\ k.pc = "wait" => Waiting(k, so, tk, c, lp)

Answers == \A c \in OpenClients : Honest(cli[c], sock[c], task, c, loop)

OpendInv == WatchInv /\ Answers

-----------------------------------------------------------------------------
(* The tables of the server. *)

\* A set of numbers that is not empty has a least one.
LEMMA LeastNumber == ASSUME NEW T \in SUBSET Nat, T # {} PROVE Min(T) \in T /\ \A m \in T : Min(T) <= m
<1>1. PICK R : R = OpToRel(<, Nat)
  OBVIOUS
<1>2. IsWellFoundedOn(R, Nat)
  BY <1>1, NatLessThanWellFounded
<1>3. \A m, n \in Nat : m < n => <<m, n>> \in R
  BY <1>1 DEF OpToRel
<1>4. PICK n \in T : \A m \in T : ~(<<m, n>> \in R)
  BY <1>2, WFMin
<1>5. n \in Nat
  BY <1>4
<1>6. ASSUME NEW m \in T PROVE n <= m
  <2>1. m \in Nat
    OBVIOUS
  <2>2. ~(<<m, n>> \in R)
    BY <1>4
  <2>3. ~(m < n)
    BY <2>1, <2>2, <1>3, <1>5, Zenon
  <2> QED
    BY <2>1, <2>3, <1>5
<1> QED
  BY <1>4, <1>6 DEF Min

\* The descriptor is in an entry of t; the entries in use are where they were.
Added(table, t, fd, uid) ==
    /\ t \in Seq(Entry) /\ Len(table) <= Len(t)
    /\ \E i \in 1..Len(t) :
          /\ t[i] = [fd |-> fd, uid |-> uid]
          /\ \A j \in 1..Len(t) : j # i => t[j].fd = Free \/ (j <= Len(table) /\ t[j] = table[j])
          /\ \A j \in 1..Len(table) : table[j].fd # Free => j # i /\ t[j] = table[j]

\* client_add takes an entry that is free or new (client.c).
LEMMA ClientAdds ==
    ASSUME NEW table \in Seq(Entry), NEW fd \in Nat, NEW uid \in Uids
    PROVE  Added(table, client_add(table, fd, uid), fd, uid)
<1> DEFINE free == {i \in DOMAIN table : table[i].fd = Free}
           grown == IF free = {} THEN table \o FreeEntries(NAlloc) ELSE table
           n == IF free = {} THEN Len(table) + 1 ELSE Min(free)
<1> DEFINE t == client_add(table, fd, uid)
<1>1. t = [grown EXCEPT ![n] = [fd |-> fd, uid |-> uid]]
  BY DEF client_add
<1>2. NAlloc \in Nat \ {0} /\ Len(table) \in Nat /\ Free = 0
  BY OpendAssumption DEF Free
<1>3. FreeEntries(NAlloc) \in Seq(Entry) /\ Len(FreeEntries(NAlloc)) = NAlloc
        /\ \A j \in 1..NAlloc : FreeEntries(NAlloc)[j].fd = Free
  BY <1>2 DEF FreeEntries, Entry, Uids
<1>4. grown \in Seq(Entry) /\ Len(table) <= Len(grown)
        /\ (\A j \in 1..Len(table) : grown[j] = table[j])
        /\ (\A j \in 1..Len(grown) : j > Len(table) => grown[j].fd = Free)
        /\ (free = {} => Len(grown) > Len(table))
  <2>1. CASE free = {}
    <3>1. grown = table \o FreeEntries(NAlloc)
      BY <2>1
    <3> HIDE DEF grown, free
    <3>2. grown \in Seq(Entry) /\ Len(grown) = Len(table) + NAlloc
      <4> DEFINE F == FreeEntries(NAlloc)
      <4>1. F \in Seq(Entry) /\ Len(F) = NAlloc /\ grown = table \o F
        BY <3>1, <1>3
      <4> HIDE DEF F
      <4>2. grown \in Seq(Entry)
        BY <4>1
      <4>3. Len(table \o F) = Len(table) + Len(F)
        BY <4>1, ConcatProperties
      <4> QED
        BY <4>1, <4>2, <4>3, <1>2
    <3>3. \A j \in 1..Len(table) : grown[j] = table[j]
      BY <3>1, <1>2, <1>3
    <3>4. \A j \in 1..Len(grown) : j > Len(table) => grown[j] = FreeEntries(NAlloc)[j - Len(table)] /\ j - Len(table) \in 1..NAlloc
      BY <3>1, <3>2, <1>2, <1>3
    <3> QED
      BY <3>2, <3>3, <3>4, <1>2, <1>3
  <2>2. CASE free # {}
    <3>1. grown = table
      BY <2>2
    <3> HIDE DEF grown, free
    <3> QED
      BY <3>1, <2>2, <1>2
  <2> QED
    BY <2>1, <2>2
<1>5. n \in 1..Len(grown) /\ (n <= Len(table) => table[n].fd = Free)
  <2>1. CASE free = {}
    <3>1. n = Len(table) + 1
      BY <2>1
    <3> HIDE DEF grown, free, n
    <3> QED
      BY <3>1, <1>2, <1>4, <2>1
  <2>2. CASE free # {}
    <3>1. n = Min(free)
      BY <2>2
    <3>2. free \in SUBSET Nat
      BY <1>2
    <3>3. n \in free
      BY <3>1, <3>2, <2>2, LeastNumber
    <3>4. n \in 1..Len(table) /\ table[n].fd = Free
      BY <3>3
    <3> HIDE DEF grown, free, n
    <3> QED
      BY <3>4, <1>4, <1>2
  <2> QED
    BY <2>1, <2>2
<1> HIDE DEF grown, free, n, t
<1>6. [fd |-> fd, uid |-> uid] \in Entry
  BY DEF Entry
<1>7. t \in Seq(Entry) /\ Len(t) = Len(grown)
  BY <1>1, <1>4, <1>5, <1>6
<1>8. t[n] = [fd |-> fd, uid |-> uid] /\ \A j \in 1..Len(t) : j # n => t[j] = grown[j]
  BY <1>1, <1>4, <1>5, <1>7
<1>9. \A j \in 1..Len(t) : j # n => t[j].fd = Free \/ (j <= Len(table) /\ t[j] = table[j])
  BY <1>8, <1>4, <1>7, <1>2
<1>10. \A j \in 1..Len(table) : table[j].fd # Free => j # n /\ t[j] = table[j]
  BY <1>8, <1>4, <1>5, <1>7, <1>2
<1>11. Added(table, t, fd, uid)
  BY <1>4, <1>5, <1>7, <1>8, <1>9, <1>10, <1>2 DEF Added
<1> QED
  BY <1>11 DEF t

\* What client_add makes of the table: it has one descriptor more.
LEMMA TableAdds ==
    ASSUME NEW table \in Seq(Entry), NEW fd \in Nat, NEW uid \in Uids, NEW t, Added(table, t, fd, uid),
           NEW so, NEW sp, NEW fds, TableOf(table, so, fds), fd # Free, Free \notin fds, fd \notin fds,
           \A c \in OpenClients : so[c].fd # fd /\ IF sp[c].fd = fd THEN c = uid ELSE sp[c].fd = so[c].fd
    PROVE  TableOf(t, sp, fds \cup {fd})
<1>1. t \in Seq(Entry) /\ Len(table) <= Len(t) /\ Len(t) \in Nat /\ Len(table) \in Nat
  BY DEF Added
<1>2. PICK i \in 1..Len(t) :
                 /\ t[i] = [fd |-> fd, uid |-> uid]
                 /\ \A j \in 1..Len(t) : j # i => t[j].fd = Free \/ (j <= Len(table) /\ t[j] = table[j])
                 /\ \A j \in 1..Len(table) : table[j].fd # Free => j # i /\ t[j] = table[j]
  BY Zenon DEF Added
<1>3. t[i].fd = fd /\ t[i].uid = uid
  BY <1>2
<1>4. \A j \in 1..Len(t) : j # i => t[j].fd = Free \/ (j \in 1..Len(table) /\ t[j] = table[j])
  BY <1>1, <1>2
<1>5. \A j \in 1..Len(t) : t[j].fd \in {Free} \cup fds \cup {fd}
  BY <1>3, <1>4 DEF TableOf
<1>6. \A f \in fds \cup {fd} : \E j \in 1..Len(t) : t[j].fd = f
  <2> SUFFICES ASSUME NEW f \in fds, f # fd PROVE \E j \in 1..Len(t) : t[j].fd = f
    BY <1>3
  <2>1. PICK j \in 1..Len(table) : table[j].fd = f
    BY DEF TableOf
  <2> QED
    BY <2>1, <1>1, <1>2
<1>7. \A j, k \in 1..Len(t) : t[j].fd = t[k].fd /\ t[j].fd # Free => j = k
  <2> SUFFICES ASSUME NEW j \in 1..Len(t), NEW k \in 1..Len(t), t[j].fd = t[k].fd, t[j].fd # Free PROVE j = k
    OBVIOUS
  <2>1. j # i => j \in 1..Len(table) /\ t[j] = table[j] /\ table[j].fd \in fds
    BY <1>4 DEF TableOf
  <2>2. k # i => k \in 1..Len(table) /\ t[k] = table[k] /\ table[k].fd \in fds
    BY <1>4 DEF TableOf
  <2> QED
    BY <2>1, <2>2, <1>3 DEF TableOf
<1>8. \A j \in 1..Len(t), c \in OpenClients : t[j].fd = sp[c].fd /\ sp[c].fd # Free => t[j].uid = c
  <2> SUFFICES ASSUME NEW j \in 1..Len(t), NEW c \in OpenClients, t[j].fd = sp[c].fd, sp[c].fd # Free PROVE t[j].uid = c
    OBVIOUS
  <2>1. CASE j = i
    BY <2>1, <1>3
  <2>2. CASE j # i
    <3>1. j \in 1..Len(table) /\ t[j] = table[j] /\ table[j].fd \in fds
      BY <2>2, <1>4 DEF TableOf
    <3>2. sp[c].fd = so[c].fd
      BY <3>1
    <3> QED
      BY <3>1, <3>2 DEF TableOf
  <2> QED
    BY <2>1, <2>2
<1> QED
  BY <1>5, <1>6, <1>7, <1>8 DEF TableOf

\* EntryOf finds the entry of a descriptor (client.c, loop.select.c).
LEMMA EntryIsFound ==
    ASSUME NEW table \in Seq(Entry), NEW fd, \E i \in 1..Len(table) : table[i].fd = fd
    PROVE  EntryOf(table, fd) \in 1..Len(table) /\ table[EntryOf(table, fd)].fd = fd
<1> DEFINE T == {i \in DOMAIN table : table[i].fd = fd}
<1>1. T \in SUBSET Nat /\ T # {}
  OBVIOUS
<1>2. Min(T) \in T
  BY <1>1, LeastNumber
<1> QED
  BY <1>2 DEF EntryOf

\* The descriptor fd of the table is closed: it was the client c's.
Closes(table, fd, c, so, sp, fds) ==
    /\ TableOf(table, so, fds) /\ fd # Free /\ fd \in fds
    /\ \A d \in OpenClients : sp[d].fd = IF d = c THEN Free ELSE so[d].fd

\* What client_del makes of the table: it has one descriptor less.
LEMMA TableDels ==
    ASSUME NEW table \in Seq(Entry), NEW fd, NEW c, NEW so, NEW sp, NEW fds, Closes(table, fd, c, so, sp, fds), NEW t, t = client_del(table, fd)
    PROVE  t \in Seq(Entry) /\ Len(t) = Len(table) /\ TableOf(t, sp, fds \ {fd})
             /\ \A j \in 1..Len(t) : t[j].fd # Free => table[j].fd # Free
<1>0. TableOf(table, so, fds) /\ fd # Free /\ fd \in fds /\ \A d \in OpenClients : sp[d].fd = IF d = c THEN Free ELSE so[d].fd
  BY DEF Closes
<1> DEFINE i == EntryOf(table, fd)
<1>1. i \in 1..Len(table) /\ table[i].fd = fd
  BY <1>0, EntryIsFound DEF TableOf
<1>2. t = [table EXCEPT ![i].fd = Free]
  BY DEF client_del
<1> HIDE DEF i
<1>3. [table[i] EXCEPT !.fd = Free] \in Entry
  <2>1. \A e \in Entry : [e EXCEPT !.fd = Free] \in Entry
    BY DEF Entry, Free
  <2>2. table[i] \in Entry
    BY <1>1
  <2> QED
    BY <2>1, <2>2
<1>4. t = [table EXCEPT ![i] = [table[i] EXCEPT !.fd = Free]]
  BY <1>1, <1>2
<1>5. t \in Seq(Entry) /\ Len(t) = Len(table)
  BY <1>3, <1>4, <1>1
<1>6. t[i].fd = Free /\ \A j \in 1..Len(t) : j # i => t[j] = table[j]
  BY <1>1, <1>3, <1>4, <1>5 DEF Entry
<1>7. \A j \in 1..Len(t) : t[j].fd \in {Free} \cup (fds \ {fd})
  BY <1>0, <1>1, <1>5, <1>6 DEF TableOf
<1>8. \A f \in fds \ {fd} : \E j \in 1..Len(t) : t[j].fd = f
  BY <1>0, <1>1, <1>5, <1>6 DEF TableOf
<1>9. \A j, k \in 1..Len(t) : t[j].fd = t[k].fd /\ t[j].fd # Free => j = k
  BY <1>0, <1>5, <1>6 DEF TableOf
<1>10. \A j \in 1..Len(t), d \in OpenClients : t[j].fd = sp[d].fd /\ sp[d].fd # Free => t[j].uid = d
  BY <1>0, <1>5, <1>6 DEF TableOf
<1> QED
  BY <1>5, <1>6, <1>7, <1>8, <1>9, <1>10 DEF TableOf

-----------------------------------------------------------------------------
(* Descriptors. *)

\* The descriptors of the server are finitely many, at most one for each client.
LEMMA DescriptorsAreFinite ==
    ASSUME NEW so \in [OpenClients -> Socket]
    PROVE  /\ IsFiniteSet(OpenFds(so)) /\ Cardinality(OpenFds(so)) \in Nat
           /\ OpenFds(so) \subseteq Fds /\ Fds \subseteq Nat /\ Free \notin Fds /\ listenfd \notin Fds /\ listenfd # Free
           /\ IsFiniteSet(Fds) /\ Cardinality(Fds) = Cardinality(OpenClients) /\ Cardinality(OpenClients) \in Nat
<1>1. IsFiniteSet(OpenClients) /\ Cardinality(OpenClients) \in Nat
  BY OpendAssumption, FS_CardinalityType
<1>2. IsFiniteSet(Fds) /\ Cardinality(Fds) = IF 2 > Cardinality(OpenClients) + 1 THEN 0 ELSE (Cardinality(OpenClients) + 1) - 2 + 1
  BY <1>1, FS_Interval DEF Fds
<1>3. Cardinality(Fds) = Cardinality(OpenClients)
  BY <1>1, <1>2
<1>4. OpenFds(so) \subseteq Fds
  BY DEF OpenFds, Socket
<1>5. IsFiniteSet(OpenFds(so)) /\ Cardinality(OpenFds(so)) \in Nat
  BY <1>2, <1>4, FS_Subset, FS_CardinalityType
<1> QED
  BY <1>1, <1>2, <1>3, <1>4, <1>5 DEF Fds, Free, listenfd

\* While a client has no descriptor yet, a number is left for it (serv_accept).
LEMMA ANumberIsFree ==
    ASSUME sock \in [OpenClients -> Socket], NEW c \in OpenClients, sock[c].fd = Free
    PROVE  NewFd \in Fds /\ NewFd \notin OpenFds(sock) /\ \A d \in OpenClients : sock[d].fd # NewFd
<1> DEFINE others == OpenClients \ {c}
           used == {sock[d].fd : d \in others}
           f == [d \in others |-> sock[d].fd]
           left == (2..(Cardinality(OpenClients) + 1)) \ {sock[d].fd : d \in OpenClients}
<1>1. IsFiniteSet(Fds) /\ Cardinality(Fds) = Cardinality(OpenClients) /\ Cardinality(OpenClients) \in Nat /\ Fds \subseteq Nat /\ Free \notin Fds
  BY DescriptorsAreFinite
<1>2. IsFiniteSet(others) /\ Cardinality(others) = Cardinality(OpenClients) - 1
  BY OpendAssumption, FS_RemoveElement
<1>3. IsFiniteSet(used) /\ Cardinality(used) <= Cardinality(others)
  <2>1. f \in Surjection(others, used)
    BY DEF Surjection
  <2> HIDE DEF others, used, f
  <2> QED
    BY <2>1, <1>2, FS_Surjection
<1>4. IsFiniteSet(used) /\ Cardinality(used) <= Cardinality(others) /\ Cardinality(used) \in Nat
  BY <1>3, FS_CardinalityType
<1>5. ~(Fds \subseteq used)
  <2> HIDE DEF used, others
  <2>1. SUFFICES ASSUME Fds \subseteq used PROVE FALSE
    OBVIOUS
  <2>2. Cardinality(Fds) <= Cardinality(used)
    BY <2>1, <1>4, FS_Subset
  <2> QED
    BY <2>2, <1>1, <1>2, <1>4
<1>6. left \in SUBSET Nat /\ left # {}
  BY <1>5, <1>1 DEF Fds
<1>7. Min(left) \in left
  BY <1>6, LeastNumber
<1>8. NewFd = Min(left)
  BY DEF NewFd
<1>9. NewFd \in left
  BY <1>7, <1>8
<1> QED
  BY <1>9 DEF Fds, OpenFds

\* A descriptor that is open belongs to one connection.
LEMMA OwnerOwns ==
    ASSUME NEW fd \in OpenFds(sock), \A c, d \in OpenClients : sock[c].fd = sock[d].fd /\ sock[c].fd # Free => c = d
    PROVE  Owner(fd) \in OpenClients /\ sock[Owner(fd)].fd = fd /\ fd # Free /\ \A c \in OpenClients : sock[c].fd = fd => c = Owner(fd)
BY DEF Owner, OpenFds

\* One more descriptor, and one less.
LEMMA OneMore ==
    ASSUME NEW so \in [OpenClients -> Socket], NEW sp, NEW c \in OpenClients, so[c].fd = Free, sp[c].fd # Free,
           \A d \in OpenClients \ {c} : sp[d].fd = so[d].fd /\ so[d].fd # sp[c].fd
    PROVE  OpenFds(sp) = OpenFds(so) \cup {sp[c].fd} /\ Cardinality(OpenFds(sp)) = Cardinality(OpenFds(so)) + 1
<1>1. OpenFds(sp) = OpenFds(so) \cup {sp[c].fd} /\ sp[c].fd \notin OpenFds(so)
  BY DEF OpenFds
<1>2. IsFiniteSet(OpenFds(so))
  BY DescriptorsAreFinite
<1> QED
  BY <1>1, <1>2, FS_AddElement

\* The descriptor of a connection is closed.
LEMMA OneLess ==
    ASSUME NEW so \in [OpenClients -> Socket], NEW sp, NEW c \in OpenClients, so[c].fd # Free, sp[c].fd = Free,
           \A d \in OpenClients \ {c} : sp[d].fd = so[d].fd /\ so[d].fd # so[c].fd
    PROVE  OpenFds(sp) = OpenFds(so) \ {so[c].fd} /\ Cardinality(OpenFds(sp)) = Cardinality(OpenFds(so)) - 1
<1>1. OpenFds(sp) = OpenFds(so) \ {so[c].fd} /\ so[c].fd \in OpenFds(so)
  BY DEF OpenFds
<1>2. IsFiniteSet(OpenFds(so))
  BY DescriptorsAreFinite
<1>3. Cardinality(OpenFds(so) \ {so[c].fd}) = Cardinality(OpenFds(so)) - 1
  BY <1>1, <1>2, FS_RemoveElement
<1> QED
  BY <1>1, <1>3

-----------------------------------------------------------------------------
(* The server watches what it has open: the clients' steps. *)

\* The records of the state keep their types when a field is set.
LEMMA SocketFields ==
    ASSUME NEW k \in Socket
    PROVE  /\ \A u \in Seq(Piece) : [k EXCEPT !.up = u] \in Socket
           /\ \A d \in Seq(Item) : [k EXCEPT !.down = d] \in Socket
           /\ \A f \in {Free} \cup Fds : [k EXCEPT !.fd = f] \in Socket
           /\ \A b \in BOOLEAN : /\ [k EXCEPT !.cli = b] \in Socket
                                 /\ [k EXCEPT !.srv = b] \in Socket
                                 /\ [k EXCEPT !.reset = b] \in Socket
BY DEF Socket

\* Connections made, requests sent and answers read leave the server's side alone.
LEMMA ServersSideStays ==
    ASSUME NEW so, NEW sp, \A c \in OpenClients : sp[c].fd = so[c].fd
    PROVE  /\ OpenFds(sp) = OpenFds(so)
           /\ \A table, fds : TableOf(table, so, fds) => TableOf(table, sp, fds)
           /\ \A table, sv : SelectOf(table, sv, so) => SelectOf(table, sv, sp)
           /\ \A table, pfd, sv : PollOf(table, pfd, sv, so) => PollOf(table, pfd, sv, sp)
<1>1. OpenFds(sp) = OpenFds(so)
  BY DEF OpenFds
<1>2. \A table, fds : TableOf(table, so, fds) => TableOf(table, sp, fds)
  BY DEF TableOf
<1>3. ASSUME NEW table, NEW sv, SelectOf(table, sv, so) PROVE SelectOf(table, sv, sp)
  BY <1>1, <1>2, <1>3 DEF SelectOf
<1>4. ASSUME NEW table, NEW pfd, NEW sv, PollOf(table, pfd, sv, so) PROVE PollOf(table, pfd, sv, sp)
  BY <1>1, <1>2, <1>4 DEF PollOf
<1> QED
  BY <1>1, <1>2, <1>3, <1>4

\* What a client's step may do to the connections: it makes its own, once.
LEMMA ClientsStayAway ==
    ASSUME WatchInv, UNCHANGED <<loop, serv, client, pollfd, task, errmsg>>, OpendTypes',
           \A c \in OpenClients : sock'[c].fd = sock[c].fd /\ (sock[c].srv => sock'[c].srv),
           Connections'
    PROVE  WatchInv'
<1> DEFINE so == sock sp == sock'
<1>1. \A table, sv : SelectOf(table, sv, so) => SelectOf(table, sv, sp)
  BY ServersSideStays
<1>2. \A table, pfd, sv : PollOf(table, pfd, sv, so) => PollOf(table, pfd, sv, sp)
  BY ServersSideStays
<1>3. Watched'
  <2> HIDE DEF so, sp
  <2>1. Running' = Running
    BY DEF Running
  <2>2. CASE Running /\ loop = "select"
    <3>1. SelectOf(client, serv, so)
      BY <2>2 DEF WatchInv, Watched, so
    <3>2. SelectOf(client, serv, sp)
      BY <3>1, <1>1
    <3>3. SelectOf(client', serv', sock')
      BY <3>2 DEF sp
    <3> QED
      BY <3>3, <2>2 DEF Watched
  <2>3. CASE Running /\ loop # "select"
    <3>1. PollOf(client, pollfd, serv, so)
      BY <2>3 DEF WatchInv, Watched, so
    <3>2. PollOf(client, pollfd, serv, sp)
      BY <3>1, <1>2
    <3>3. PollOf(client', pollfd', serv', sock')
      BY <3>2 DEF sp
    <3> QED
      BY <3>3, <2>3 DEF Watched
  <2> QED
    BY <2>1, <2>2, <2>3 DEF Watched
<1>4. Handled'
  BY DEF WatchInv, Handled, OpendTypes, Task, NoTask, Running, Servers
<1> QED
  BY <1>3, <1>4 DEF WatchInv

\* run: one of the three programs is started.
LEMMA StartIsWatched == WatchInv /\ StartOpend => WatchInv'
<1> SUFFICES ASSUME WatchInv, StartOpend PROVE WatchInv'
  OBVIOUS
<1>1. serv.pc = "start" /\ UNCHANGED <<cli, sock, backlog, serv, client, pollfd, task, errmsg, lines, mishaps>> /\ loop' \in {"select", "poll", "fe"} /\ loop = "none"
  BY DEF WatchInv, Handled, StartOpend
<1>2. OpendTypes'
  BY <1>1 DEF WatchInv, OpendTypes
<1>3. Connections'
  BY <1>1 DEF WatchInv, Connections, Running
<1>4. Watched' /\ Handled'
  BY <1>1 DEF WatchInv, Watched, Handled, Running
<1> QED
  BY <1>2, <1>3, <1>4 DEF WatchInv

\* cli_conn: the connection is made.
LEMMA ConnIsWatched == ASSUME NEW c \in OpenClients, WatchInv, cli_conn(c) PROVE WatchInv'
<1>0. UNCHANGED <<loop, serv, client, pollfd, task, errmsg, mishaps>> /\ cli[c].csfd = "none"
  BY DEF cli_conn
<1>1. CASE UNCHANGED <<cli, sock, backlog>> /\ lines' = lines + 1
  <2>1. OpendTypes' /\ Connections'
    BY <1>0, <1>1 DEF WatchInv, OpendTypes, Connections, Running
  <2> QED
    BY <2>1, <1>0, <1>1, ClientsStayAway
<1>2. CASE /\ cli' = [cli EXCEPT ![c].csfd = "open"]
           /\ sock' = [sock EXCEPT ![c].cli = TRUE, ![c].srv = TRUE]
           /\ backlog' = Append(backlog, c)
           /\ serv.pc \notin {"start", "dead"}
           /\ UNCHANGED lines
  <2>1. /\ cli \in [OpenClients -> Client] /\ sock \in [OpenClients -> Socket] /\ backlog \in Seq(OpenClients)
        /\ Connections
    BY DEF WatchInv, OpendTypes
  <2>2. cli' \in [OpenClients -> Client] /\ cli'[c].csfd = "open" /\ \A d \in OpenClients \ {c} : cli'[d] = cli[d]
    BY <1>2, <2>1 DEF Client
  <2>3. sock' = [sock EXCEPT ![c] = [[sock[c] EXCEPT !.cli = TRUE] EXCEPT !.srv = TRUE]]
    BY <1>2, <2>1
  <2>4. /\ sock' \in [OpenClients -> Socket] /\ sock'[c].fd = sock[c].fd /\ sock'[c].srv
        /\ \A d \in OpenClients \ {c} : sock'[d] = sock[d]
    BY <2>1, <2>3 DEF Socket
  <2>5. /\ backlog' \in Seq(OpenClients) /\ Len(backlog') = Len(backlog) + 1 /\ backlog'[Len(backlog) + 1] = c
        /\ \A i \in 1..Len(backlog) : backlog'[i] = backlog[i]
    BY <1>2, <2>1
  <2>6. OpendTypes'
    BY <1>0, <1>2, <2>2, <2>4, <2>5 DEF WatchInv, OpendTypes
  <2>7. \A i \in 1..Len(backlog) : backlog[i] # c
    BY <2>1, <1>0 DEF Connections
  <2>8. sock[c].fd = Free
    BY <2>1, <1>0 DEF Connections
  <2>9. \A i \in 1..Len(backlog') : IF i = Len(backlog) + 1 THEN backlog'[i] = c ELSE i \in 1..Len(backlog) /\ backlog'[i] = backlog[i]
    BY <2>5, <2>1
  <2>10. \A i, j \in 1..Len(backlog') : backlog'[i] = backlog'[j] => i = j
    BY <2>1, <2>7, <2>9 DEF Connections
  <2>11. \A i \in 1..Len(backlog') : sock'[backlog'[i]].fd = Free /\ sock'[backlog'[i]].srv /\ cli'[backlog'[i]].csfd # "none"
    BY <2>1, <2>2, <2>4, <2>7, <2>8, <2>9 DEF Connections
  <2>12. Connections'
    BY <1>0, <1>2, <2>1, <2>2, <2>4, <2>5, <2>8, <2>10, <2>11 DEF Connections, Running
  <2> QED
    BY <2>4, <2>6, <2>12, <1>0, ClientsStayAway
<1> QED
  BY <1>1, <1>2 DEF cli_conn, OpenFails

\* csopen of open.fe: the client has a server of its own, or none.
LEMMA ForkIsWatched == ASSUME NEW c \in OpenClients, WatchInv, ForkServer(c) PROVE WatchInv'
<1>0. /\ UNCHANGED <<loop, backlog, serv, client, pollfd, task, errmsg>> /\ cli[c].csfd = "none"
      /\ lines' \in Nat /\ mishaps' \in Nat
  BY DEF ForkServer, Mishap, OpenFails, WatchInv, OpendTypes
<1>1. /\ cli \in [OpenClients -> Client] /\ sock \in [OpenClients -> Socket] /\ backlog \in Seq(OpenClients)
      /\ Connections
  BY DEF WatchInv, OpendTypes
<1>2. /\ cli' \in [OpenClients -> Client] /\ cli'[c].csfd # "none" /\ \A d \in OpenClients \ {c} : cli'[d] = cli[d]
  <2>1. cli' = [cli EXCEPT ![c].csfd = "open"] \/ cli' = [cli EXCEPT ![c].csfd = "half"]
    BY DEF ForkServer
  <2>2. \A k \in Client, v \in {"open", "half"} : [k EXCEPT !.csfd = v] \in Client /\ [k EXCEPT !.csfd = v].csfd = v
    BY DEF Client
  <2>3. PICK v \in {"open", "half"} : cli' = [cli EXCEPT ![c] = [cli[c] EXCEPT !.csfd = v]]
    BY <2>1, <1>1
  <2> QED
    BY <2>2, <2>3, <1>1
<1>3. sock' \in {[sock EXCEPT ![c] = [[sock[c] EXCEPT !.cli = TRUE] EXCEPT !.srv = TRUE]],
                 sock, [sock EXCEPT ![c] = [sock[c] EXCEPT !.cli = TRUE]]}
  BY <1>1 DEF ForkServer
<1>4. /\ sock' \in [OpenClients -> Socket] /\ sock'[c].fd = sock[c].fd /\ (sock[c].srv => sock'[c].srv)
      /\ \A d \in OpenClients \ {c} : sock'[d] = sock[d]
  <2>1. CASE sock' = [sock EXCEPT ![c] = [[sock[c] EXCEPT !.cli = TRUE] EXCEPT !.srv = TRUE]]
    BY <2>1, <1>1 DEF Socket
  <2>2. CASE sock' = sock
    BY <2>2, <1>1
  <2>3. CASE sock' = [sock EXCEPT ![c] = [sock[c] EXCEPT !.cli = TRUE]]
    BY <2>3, <1>1 DEF Socket
  <2> QED
    BY <1>3, <2>1, <2>2, <2>3
<1>5. OpendTypes'
  BY <1>0, <1>2, <1>4 DEF WatchInv, OpendTypes
<1>6. Connections'
  BY <1>0, <1>1, <1>2, <1>4 DEF Connections, Running
<1> QED
  BY <1>0, <1>4, <1>5, <1>6, ClientsStayAway

\* What a client's end that closes, and its requests and reads, leave alone.
LEMMA ClientsEndIsWatched ==
    ASSUME NEW c \in OpenClients, WatchInv, UNCHANGED <<loop, backlog, serv, client, pollfd, task, errmsg>>,
           lines' \in Nat, mishaps' \in Nat,
           cli' \in [OpenClients -> Client], sock' \in [OpenClients -> Socket],
           \A d \in OpenClients \ {c} : cli'[d] = cli[d] /\ sock'[d] = sock[d],
           sock'[c].fd = sock[c].fd, sock'[c].srv = sock[c].srv, cli'[c].csfd = cli[c].csfd,
           cli[c].csfd = "none" => sock'[c].up = sock[c].up
    PROVE  WatchInv'
<1>1. OpendTypes'
  BY DEF WatchInv, OpendTypes
<1>2. cli \in [OpenClients -> Client] /\ sock \in [OpenClients -> Socket] /\ backlog \in Seq(OpenClients) /\ Connections
  BY DEF WatchInv, OpendTypes
<1>3. \A d \in OpenClients : /\ sock'[d].fd = sock[d].fd /\ sock'[d].srv = sock[d].srv /\ cli'[d].csfd = cli[d].csfd
                             /\ (cli[d].csfd = "none" => sock'[d].up = sock[d].up)
  OBVIOUS
<1>4. \A i \in 1..Len(backlog) : backlog[i] \in OpenClients
  BY <1>2
<1>5. Connections'
  <2>1. \A d, e \in OpenClients : sock'[d].fd = sock'[e].fd /\ sock'[d].fd # Free => d = e
    BY <1>2, <1>3 DEF Connections
  <2>2. /\ \A i, j \in 1..Len(backlog') : backlog'[i] = backlog'[j] => i = j
        /\ \A i \in 1..Len(backlog') : sock'[backlog'[i]].fd = Free /\ sock'[backlog'[i]].srv /\ cli'[backlog'[i]].csfd # "none"
    BY <1>2, <1>3, <1>4 DEF Connections
  <2>3. \A d \in OpenClients : cli'[d].csfd = "none" => sock'[d].up = <<>> /\ ~sock'[d].srv
    BY <1>2, <1>3 DEF Connections
  <2>4. /\ \A d \in OpenClients : sock'[d].fd # Free => cli'[d].csfd # "none"
        /\ (Running' => \A d \in OpenClients : sock'[d].fd # Free => sock'[d].srv)
        /\ (Running' => loop' \in {"select", "poll"})
        /\ (serv'.pc = "start" => /\ backlog' = <<>> /\ client' = <<>> /\ pollfd' = <<>> /\ serv'.maxi = 0
                                  /\ \A d \in OpenClients : sock'[d].fd = Free)
        /\ (serv'.pc = "accept" => backlog' # <<>>)
    BY <1>2, <1>3 DEF Connections, Running
  <2> QED
    BY <2>1, <2>2, <2>3, <2>4 DEF Connections
<1> QED
  BY <1>1, <1>3, <1>5, ClientsStayAway

\* What HangUp makes of the client and its socket.
LEMMA HangUpCloses ==
    ASSUME NEW c \in OpenClients, WatchInv, HangUp(c)
    PROVE  /\ cli' \in [OpenClients -> Client] /\ sock' \in [OpenClients -> Socket]
           /\ \A d \in OpenClients \ {c} : cli'[d] = cli[d] /\ sock'[d] = sock[d]
           /\ sock'[c].fd = sock[c].fd /\ sock'[c].srv = sock[c].srv /\ sock'[c].up = sock[c].up
           /\ cli'[c].csfd = cli[c].csfd /\ cli'[c].pc = "gone"
<1>1. cli \in [OpenClients -> Client] /\ sock \in [OpenClients -> Socket]
  BY DEF WatchInv, OpendTypes
<1>2. /\ cli' \in [OpenClients -> Client] /\ cli'[c].csfd = cli[c].csfd /\ cli'[c].pc = "gone"
      /\ \A d \in OpenClients \ {c} : cli'[d] = cli[d]
  <2>1. cli' = [cli EXCEPT ![c] = [cli[c] EXCEPT !.pc = "gone", !.kind = "none", !.answer = "none", !.for = 0, !.printed = {}]]
    BY <1>1 DEF HangUp
  <2>2. \A k \in Client : LET g == [k EXCEPT !.pc = "gone", !.kind = "none", !.answer = "none", !.for = 0, !.printed = {}]
                          IN g \in Client /\ g.csfd = k.csfd /\ g.pc = "gone"
    BY DEF Client
  <2> QED
    BY <2>1, <2>2, <1>1
<1>3. /\ sock' \in [OpenClients -> Socket] /\ sock'[c].fd = sock[c].fd /\ sock'[c].srv = sock[c].srv /\ sock'[c].up = sock[c].up
      /\ \A d \in OpenClients \ {c} : sock'[d] = sock[d]
  <2>1. sock' = [sock EXCEPT ![c] = [[[sock[c] EXCEPT !.cli = FALSE] EXCEPT !.down = <<>>] EXCEPT !.reset = (sock[c].down # <<>>)]]
    BY <1>1 DEF HangUp
  <2>2. <<>> \in Seq(Item)
    OBVIOUS
  <2>3. \A k \in Socket, b \in BOOLEAN : LET g == [[[k EXCEPT !.cli = FALSE] EXCEPT !.down = <<>>] EXCEPT !.reset = b]
                         IN g \in Socket /\ g.fd = k.fd /\ g.srv = k.srv /\ g.up = k.up
    BY <2>2 DEF Socket
  <2> QED
    BY <2>1, <2>3, <1>1
<1> QED
  BY <1>2, <1>3

\* The client exits, is killed, or aborts.
LEMMA HangUpIsWatched ==
    ASSUME NEW c \in OpenClients, WatchInv, HangUp(c), lines' \in Nat, mishaps' \in Nat,
           UNCHANGED <<loop, backlog, serv, client, pollfd, task, errmsg>>
    PROVE  WatchInv'
BY HangUpCloses, ClientsEndIsWatched

\* A request is written in one or two pieces.
LEMMA PiecesAreTyped ==
    ASSUME NEW kind \in Lines, NEW n \in Nat
    PROVE  Pieces(kind, n) \in Seq(Piece) /\ (kind # "long" => Pieces(kind, n) = <<[kind |-> kind, n |-> n]>>)
<1>1. \A k \in Lines \cup {"head", "tail"} : [kind |-> k, n |-> n] \in Piece
  BY DEF Piece
<1> QED
  BY <1>1 DEF Pieces

\* csopen writes a request.
LEMMA csopenIsWatched == ASSUME NEW c \in OpenClients, WatchInv, csopen(c) PROVE WatchInv'
<1>a. lines \in Nat /\ mishaps \in Nat
  BY DEF WatchInv, OpendTypes
<1>b. lines' \in {lines, lines + 1} /\ UNCHANGED <<loop, backlog, serv, client, pollfd, task, errmsg, mishaps>> /\ cli[c].csfd # "none"
  BY DEF csopen
<1>0. UNCHANGED <<loop, backlog, serv, client, pollfd, task, errmsg, mishaps>> /\ mishaps' \in Nat /\ lines' \in Nat /\ cli[c].csfd # "none"
  BY <1>a, <1>b
<1>1. CASE HangUp(c)
  BY <1>0, <1>1, HangUpIsWatched
<1>2. ASSUME NEW kind \in Lines,
             cli' = [cli EXCEPT ![c] = [@ EXCEPT !.pc = "wait", !.line = lines', !.kind = kind, !.long = cli[c].long \/ kind = "long",
                                                       !.answer = "none", !.for = 0, !.printed = {}]],
             sock' = [sock EXCEPT ![c].up = @ \o Pieces(kind, lines')]
      PROVE  WatchInv'
  <2>1. cli \in [OpenClients -> Client] /\ sock \in [OpenClients -> Socket] /\ sock[c].up \in Seq(Piece)
    BY DEF WatchInv, OpendTypes, Socket
  <2>2. sock[c].up \o Pieces(kind, lines') \in Seq(Piece)
    BY <2>1, <1>0, PiecesAreTyped, ConcatProperties
  <2>3. /\ sock' \in [OpenClients -> Socket] /\ sock'[c].fd = sock[c].fd /\ sock'[c].srv = sock[c].srv
        /\ \A d \in OpenClients \ {c} : sock'[d] = sock[d]
    <3>1. sock' = [sock EXCEPT ![c] = [sock[c] EXCEPT !.up = sock[c].up \o Pieces(kind, lines')]]
      BY <1>2, <2>1
    <3>2. \A k \in Socket, u \in Seq(Piece) : LET g == [k EXCEPT !.up = u] IN g \in Socket /\ g.fd = k.fd /\ g.srv = k.srv
      BY DEF Socket
    <3> QED
      BY <3>1, <3>2, <2>1, <2>2
  <2>4. /\ cli' \in [OpenClients -> Client] /\ cli'[c].csfd = cli[c].csfd
        /\ \A d \in OpenClients \ {c} : cli'[d] = cli[d]
    <3>1. cli' = [cli EXCEPT ![c] = [cli[c] EXCEPT !.pc = "wait", !.line = lines', !.kind = kind, !.long = cli[c].long \/ kind = "long",
                                                       !.answer = "none", !.for = 0, !.printed = {}]]
      BY <1>2, <2>1
    <3>2. \A k \in Client, n \in Nat : LET g == [k EXCEPT !.pc = "wait", !.line = n, !.kind = kind, !.long = k.long \/ kind = "long",
                                                       !.answer = "none", !.for = 0, !.printed = {}]
                                       IN g \in Client /\ g.csfd = k.csfd
      BY ZenonT(30) DEF Client
    <3> QED
      BY <3>1, <3>2, <2>1, <1>0
  <2> QED
    BY <2>3, <2>4, <1>0, ClientsEndIsWatched
<1> QED
  BY <1>1, <1>2 DEF csopen

\* recvmsg returns at least one item of what is there.
LEMMA SomethingIsReceived ==
    ASSUME NEW down \in Seq(Item), down # <<>>
    PROVE  /\ Received(down) \in 1..Len(down)
           /\ Received(down) < Len(down) => down[Received(down)].type = "fd"
<1> DEFINE fds == {i \in DOMAIN down : down[i].type = "fd"}
<1>1. Len(down) \in Nat /\ Len(down) > 0 /\ fds \in SUBSET Nat
  OBVIOUS
<1>2. CASE fds = {}
  <2>1. Received(down) = Len(down)
    BY <1>2 DEF Received
  <2> QED
    BY <2>1, <1>1
<1>3. CASE fds # {}
  <2>1. Received(down) = Min(fds)
    BY <1>3 DEF Received
  <2>2. Min(fds) \in fds
    BY <1>1, <1>3, LeastNumber
  <2> QED
    BY <2>1, <2>2, <1>1
<1> QED
  BY <1>2, <1>3

\* What recv_fd reads, and what stays in the socket.
LEMMA WhatIsReceived ==
    ASSUME NEW down \in Seq(Item), down # <<>>, NEW got, got = SubSeq(down, 1, Received(down))
    PROVE  /\ got \in Seq(Item) /\ Len(got) = Received(down) /\ got # <<>> /\ Len(got) \in 1..Len(down)
           /\ \A i \in 1..Len(got) : got[i] = down[i]
           /\ SubSeq(down, Len(got) + 1, Len(down)) \in Seq(Item)
           /\ (Len(got) = Len(down) => SubSeq(down, Len(got) + 1, Len(down)) = <<>>)
           /\ Len(SubSeq(down, Len(got) + 1, Len(down))) = Len(down) - Len(got)
           /\ \A i \in 1..(Len(down) - Len(got)) : SubSeq(down, Len(got) + 1, Len(down))[i] = down[i + Len(got)]
<1> DEFINE n == Received(down)
<1>1. n \in 1..Len(down) /\ Len(down) \in Nat
  BY SomethingIsReceived
<1> HIDE DEF n
<1>2. got = SubSeq(down, 1, n)
  BY DEF n
<1>3. got \in Seq(Item) /\ Len(got) = n /\ \A i \in 1..n : got[i] = down[i]
  <2>1. \A i \in 1..n : down[i] \in Item
    BY <1>1
  <2>2. 1 \in Int /\ n \in Int
    BY <1>1
  <2>3. /\ SubSeq(down, 1, n) \in Seq(Item)
        /\ Len(SubSeq(down, 1, n)) = IF 1 <= n THEN n - 1 + 1 ELSE 0
        /\ \A i \in 1..(n - 1 + 1) : SubSeq(down, 1, n)[i] = down[1 + i - 1]
    BY <2>1, <2>2, SubSeqProperties
  <2>4. Len(SubSeq(down, 1, n)) = n /\ n - 1 + 1 = n
    BY <1>1, <2>3
  <2>5. \A i \in 1..n : SubSeq(down, 1, n)[i] = down[i]
    <3> SUFFICES ASSUME NEW i \in 1..n PROVE SubSeq(down, 1, n)[i] = down[i]
      OBVIOUS
    <3>1. SubSeq(down, 1, n)[i] = down[1 + i - 1] /\ 1 + i - 1 = i
      BY <1>1, <2>3, <2>4
    <3> QED
      BY <3>1
  <2> QED
    BY <1>2, <2>3, <2>4, <2>5
<1>4. got # <<>> /\ Len(got) \in 1..Len(down)
  BY <1>1, <1>3
<1> DEFINE rest == SubSeq(down, n + 1, Len(down))
<1>5. /\ rest \in Seq(Item) /\ Len(rest) = Len(down) - n
      /\ \A i \in 1..(Len(down) - n) : rest[i] = down[i + n]
  <2>1. \A i \in (n + 1)..Len(down) : down[i] \in Item
    BY <1>1
  <2>2. /\ rest \in Seq(Item)
        /\ Len(rest) = IF n + 1 <= Len(down) THEN Len(down) - (n + 1) + 1 ELSE 0
        /\ \A i \in 1..(Len(down) - (n + 1) + 1) : rest[i] = down[(n + 1) + i - 1]
    BY <1>1, <2>1, SubSeqProperties
  <2> HIDE DEF rest
  <2> QED
    BY <1>1, <2>2
<1>6. n = Len(down) => rest = <<>>
  <2> HIDE DEF rest
  <2> QED
    BY <1>1, <1>5
<1> QED
  BY <1>3, <1>4, <1>5, <1>6 DEF n

\* recv_fd reads an answer, aborts, or finds the end.
LEMMA recvIsWatched == ASSUME NEW c \in OpenClients, WatchInv, recv_fd(c) PROVE WatchInv'
<1>0. /\ UNCHANGED <<loop, backlog, serv, client, pollfd, task, errmsg, mishaps, lines>>
      /\ mishaps' \in Nat /\ lines' \in Nat
  BY DEF recv_fd, WatchInv, OpendTypes
<1>a. cli \in [OpenClients -> Client] /\ sock \in [OpenClients -> Socket] /\ sock[c].down \in Seq(Item)
  BY DEF WatchInv, OpendTypes, Socket
<1>1. CASE HangUp(c)
  BY <1>0, <1>1, HangUpIsWatched
<1> DEFINE got == SubSeq(sock[c].down, 1, Received(sock[c].down))
           last == got[Len(got)]
           texts == {got[i].about : i \in {j \in DOMAIN got : got[j].type = "text"}}
<1>2. CASE /\ sock[c].down # <<>>
           /\ sock' = [sock EXCEPT ![c].down = SubSeq(@, Len(got) + 1, Len(@))]
           /\ cli' = [cli EXCEPT ![c].printed = @ \cup texts,
                                    ![c].pc = IF last.type = "text" THEN "wait" ELSE "main",
                                    ![c].answer = IF last.type = "text" THEN @ ELSE last.type,
                                    ![c].for = IF last.type = "text" THEN @ ELSE last.about.n]
  <2> DEFINE rest == SubSeq(sock[c].down, Len(got) + 1, Len(sock[c].down))
  <2>1. got \in Seq(Item) /\ got # <<>> /\ rest \in Seq(Item)
    BY <1>2, <1>a, WhatIsReceived
  <2>2. sock' = [sock EXCEPT ![c] = [sock[c] EXCEPT !.down = rest]]
    BY <1>2, <1>a
  <2>3. PICK a \in {"none", "fd", "status"}, f \in Nat, p \in SUBSET About, w \in {"main", "wait"} :
           cli' = [cli EXCEPT ![c] = [[[[cli[c] EXCEPT !.printed = p] EXCEPT !.pc = w] EXCEPT !.answer = a] EXCEPT !.for = f]]
    <3>1. last \in Item
      BY <2>1
    <3>2. texts \in SUBSET About /\ cli[c].printed \in SUBSET About /\ cli[c].answer \in {"none", "fd", "status"} /\ cli[c].for \in Nat
      BY <2>1, <1>a DEF Client, Item
    <3> DEFINE p == cli[c].printed \cup texts
               w == IF last.type = "text" THEN "wait" ELSE "main"
               a == IF last.type = "text" THEN cli[c].answer ELSE last.type
               f == IF last.type = "text" THEN cli[c].for ELSE last.about.n
    <3>3. cli' = [cli EXCEPT ![c] = [[[[cli[c] EXCEPT !.printed = p] EXCEPT !.pc = w] EXCEPT !.answer = a] EXCEPT !.for = f]]
      <4> HIDE DEF got, last, texts
      <4> QED
        BY <1>2, <1>a DEF Client
    <3>4. a \in {"none", "fd", "status"} /\ f \in Nat /\ p \in SUBSET About /\ w \in {"main", "wait"}
      <4> HIDE DEF got, last, texts
      <4> QED
        BY <3>1, <3>2 DEF Item, About
    <3> HIDE DEF p, w, a, f
    <3> QED
      BY <3>3, <3>4
  <2>4. /\ cli' \in [OpenClients -> Client] /\ cli'[c].csfd = cli[c].csfd
        /\ \A d \in OpenClients \ {c} : cli'[d] = cli[d]
    <3>1. \A k \in Client : LET g == [[[[k EXCEPT !.printed = p] EXCEPT !.pc = w] EXCEPT !.answer = a] EXCEPT !.for = f]
                            IN g \in Client /\ g.csfd = k.csfd
      BY DEF Client
    <3> QED
      BY <3>1, <2>3, <1>a
  <2>5. /\ sock' \in [OpenClients -> Socket] /\ sock'[c].fd = sock[c].fd /\ sock'[c].srv = sock[c].srv /\ sock'[c].up = sock[c].up
        /\ \A d \in OpenClients \ {c} : sock'[d] = sock[d]
    <3> HIDE DEF rest
    <3>1. \A k \in Socket : LET g == [k EXCEPT !.down = rest] IN g \in Socket /\ g.fd = k.fd /\ g.srv = k.srv /\ g.up = k.up
      BY <2>1 DEF Socket
    <3> QED
      BY <3>1, <2>2, <1>a
  <2> QED
    BY <2>4, <2>5, <1>0, ClientsEndIsWatched
<1>3. CASE cli' = [cli EXCEPT ![c].pc = "main", ![c].answer = "none"] /\ UNCHANGED sock
  <2>1. cli' = [cli EXCEPT ![c] = [[cli[c] EXCEPT !.pc = "main"] EXCEPT !.answer = "none"]]
    BY <1>3, <1>a
  <2>2. \A k \in Client : LET g == [[k EXCEPT !.pc = "main"] EXCEPT !.answer = "none"] IN g \in Client /\ g.csfd = k.csfd
    BY DEF Client
  <2>3. /\ cli' \in [OpenClients -> Client] /\ cli'[c].csfd = cli[c].csfd
        /\ \A d \in OpenClients \ {c} : cli'[d] = cli[d]
    BY <2>1, <2>2, <1>a
  <2> QED
    BY <2>3, <1>3, <1>a, <1>0, ClientsEndIsWatched
<1> QED
  BY <1>1, <1>2, <1>3 DEF recv_fd

\* The client's input ends, or it is killed.
LEMMA ExitIsWatched == ASSUME NEW c \in OpenClients, WatchInv, ClientExit(c) \/ KillClient(c) PROVE WatchInv'
<1>1. HangUp(c) /\ UNCHANGED <<loop, backlog, serv, client, pollfd, task, errmsg>> /\ mishaps' \in Nat /\ lines' \in Nat
  BY DEF ClientExit, KillClient, Mishap, WatchInv, OpendTypes
<1> QED
  BY <1>1, HangUpIsWatched

-----------------------------------------------------------------------------
(* The server watches what it has open: the server's steps. *)

\* A table holds at least as many entries as descriptors.
LEMMA TableIsLong ==
    ASSUME NEW table \in Seq(Entry), NEW so, NEW fds, TableOf(table, so, fds)
    PROVE  Cardinality(fds) <= Len(table) /\ Cardinality(fds) \in Nat
<1> DEFINE n == Len(table)
           all == {table[i].fd : i \in 1..n}
           f == [i \in 1..n |-> table[i].fd]
<1>1. n \in Nat /\ IsFiniteSet(1..n) /\ Cardinality(1..n) = n
  <2>1. n \in Nat
    OBVIOUS
  <2>2. IsFiniteSet(1..n) /\ Cardinality(1..n) = IF 1 > n THEN 0 ELSE n - 1 + 1
    BY <2>1, FS_Interval
  <2> QED
    BY <2>1, <2>2
<1>2. f \in Surjection(1..n, all)
  BY DEF Surjection
<1>3. IsFiniteSet(all) /\ Cardinality(all) <= Cardinality(1..n)
  <2> HIDE DEF all, f, n
  <2> QED
    BY <1>1, <1>2, FS_Surjection
<1>4. fds \subseteq all
  BY DEF TableOf
<1>5. IsFiniteSet(fds) /\ Cardinality(fds) <= Cardinality(all)
  <2> HIDE DEF all
  <2> QED
    BY <1>3, <1>4, FS_Subset
<1>6. Cardinality(fds) \in Nat /\ Cardinality(all) \in Nat
  BY <1>3, <1>5, FS_CardinalityType
<1>7. n \in Nat /\ Cardinality(fds) <= n
  <2> HIDE DEF all, n
  <2> QED
    BY <1>1, <1>3, <1>5, <1>6
<1> QED
  BY <1>6, <1>7

\* The set-up of the select loop, and of the poll loop.
LEMMA ListenIsWatched == WatchInv /\ serv_listen => WatchInv'
<1> SUFFICES ASSUME WatchInv, serv_listen PROVE WatchInv'
  OBVIOUS
<1>1. /\ loop \in {"select", "poll"} /\ serv.pc = "start" /\ UNCHANGED <<loop, cli, sock, backlog, task, errmsg, lines>>
      /\ backlog = <<>> /\ client = <<>> /\ pollfd = <<>> /\ serv.maxi = 0 /\ serv \in Loop
      /\ \A c \in OpenClients : sock[c].fd = Free
      /\ sock \in [OpenClients -> Socket] /\ mishaps \in Nat
  BY DEF serv_listen, WatchInv, OpendTypes, Connections
<1>2. mishaps' \in Nat
  BY <1>1 DEF serv_listen, Mishap
<1>3. OpenFds(sock) = {} /\ Cardinality({}) = 0 /\ listenfd = 1 /\ Free = 0 /\ NAlloc \in Nat \ {0}
  BY <1>1, FS_EmptySet, OpendAssumption DEF OpenFds, Free, listenfd
<1>4. Handled' \/ serv'.pc = "start"
  BY <1>1 DEF WatchInv, Handled, Running
<1>5. ASSUME serv' \in Loop, client' \in Seq(Entry), pollfd' \in Seq(PollEntry), serv'.pc \in {"select", "dead"},
             serv'.pc = "select" => Watched'
      PROVE  WatchInv'
  <2>1. OpendTypes'
    BY <1>1, <1>2, <1>5 DEF WatchInv, OpendTypes
  <2>2. Connections'
    BY <1>1, <1>5 DEF WatchInv, Connections, Running
  <2>3. Handled'
    BY <1>4, <1>5
  <2>4. Watched'
    BY <1>5 DEF Watched, Running
  <2> QED
    BY <2>1, <2>2, <2>3, <2>4 DEF WatchInv
<1>6. CASE loop = "select" /\ SelectSetup
  <2>1. serv' = [[serv EXCEPT !.pc = "select"] EXCEPT !.allset = {listenfd}] /\ client' = <<>> /\ pollfd' = <<>>
    BY <1>1, <1>6 DEF SelectSetup
  <2>2. serv' \in Loop /\ serv'.pc = "select" /\ serv'.allset = {listenfd} /\ serv'.maxi = 0
    <3>1. \A l \in Loop, a \in SUBSET Nat : LET g == [[l EXCEPT !.pc = "select"] EXCEPT !.allset = a]
                                            IN g \in Loop /\ g.pc = "select" /\ g.allset = a /\ g.maxi = l.maxi
      BY DEF Loop
    <3>2. {listenfd} \in SUBSET Nat
      BY <1>3
    <3> QED
      BY <3>1, <3>2, <2>1, <1>1
  <2>3. SelectOf(client', serv', sock)
    BY <1>3, <2>1, <2>2 DEF SelectOf, TableOf
  <2>4. Watched'
    BY <2>2, <2>3, <1>1, <1>6 DEF Watched
  <2> QED
    BY <1>5, <2>1, <2>2, <2>4
<1>7. CASE loop = "poll" /\ PollSetup
  <2>1. serv' = [[serv EXCEPT !.pc = "select"] EXCEPT !.numfd = 1] /\ client' = client_add(<<>>, listenfd, "root")
        /\ pollfd' = [FreePollfds(NAlloc) EXCEPT ![1].fd = listenfd]
    BY <1>1, <1>7 DEF PollSetup
  <2>2. serv' \in Loop /\ serv'.pc = "select" /\ serv'.numfd = 1
    BY <1>1, <2>1 DEF Loop
  <2>3. /\ pollfd' \in Seq(PollEntry) /\ Len(pollfd') = NAlloc /\ pollfd'[1].fd = listenfd
    <3>1. /\ FreePollfds(NAlloc) \in Seq(PollEntry) /\ Len(FreePollfds(NAlloc)) = NAlloc
          /\ FreePollfds(NAlloc)[1] = [fd |-> Free, revents |-> "none"]
      BY <1>3 DEF FreePollfds, PollEntry
    <3>a. [[fd |-> Free, revents |-> "none"] EXCEPT !.fd = listenfd] = [fd |-> listenfd, revents |-> "none"]
      OBVIOUS
    <3>b. pollfd' = [FreePollfds(NAlloc) EXCEPT ![1] = [FreePollfds(NAlloc)[1] EXCEPT !.fd = listenfd]]
      BY <2>1, <3>1, <1>3
    <3>2. pollfd' = [FreePollfds(NAlloc) EXCEPT ![1] = [fd |-> listenfd, revents |-> "none"]]
      BY <3>a, <3>b, <3>1
    <3>3. [fd |-> listenfd, revents |-> "none"] \in PollEntry
      BY <1>3 DEF PollEntry
    <3> QED
      BY <3>1, <3>2, <3>3, <1>3
  <2>4. Added(<<>>, client', listenfd, "root") /\ "root" \in Uids /\ <<>> \in Seq(Entry) /\ listenfd \in Nat
    <3>1. "root" \in Uids /\ listenfd \in Nat
      BY <1>3 DEF Uids
    <3>2. <<>> \in Seq(Entry)
      OBVIOUS
    <3>3. Added(<<>>, client_add(<<>>, listenfd, "root"), listenfd, "root")
      BY <3>1, <3>2, ClientAdds
    <3> QED
      BY <3>1, <3>2, <3>3, <2>1
  <2>5. client' \in Seq(Entry)
    BY <2>4 DEF Added
  <2>6. TableOf(<<>>, sock, {})
    BY DEF TableOf
  <2>7. TableOf(client', sock, {} \cup {listenfd})
    <3>1. \A c \in OpenClients : sock[c].fd # listenfd /\ IF sock[c].fd = listenfd THEN c = "root" ELSE sock[c].fd = sock[c].fd
      BY <1>1, <1>3
    <3>2. listenfd # Free /\ Free \notin {} /\ listenfd \notin {}
      BY <1>3
    <3> QED
      BY <2>4, <2>6, <3>1, <3>2, TableAdds
  <2>8. {} \cup {listenfd} = OpenFds(sock) \cup {listenfd}
    BY <1>3
  <2>9. PollOf(client', pollfd', serv', sock)
    BY <1>3, <2>2, <2>3, <2>7, <2>8 DEF PollOf
  <2>10. Watched'
    BY <2>2, <2>9, <1>1, <1>7 DEF Watched
  <2> QED
    BY <1>5, <2>2, <2>3, <2>5, <2>10
<1>8. CASE serv' = [serv EXCEPT !.pc = "dead"] /\ UNCHANGED <<client, pollfd>>
  <2>1. serv' \in Loop /\ serv'.pc = "dead" /\ client' \in Seq(Entry) /\ pollfd' \in Seq(PollEntry)
    BY <1>1, <1>8 DEF Loop
  <2> QED
    BY <1>5, <2>1
<1> QED
  BY <1>6, <1>7, <1>8 DEF serv_listen

\* What select and poll return, and the end of a scan: the watched stay watched.
LEMMA LoopIsWatched ==
    ASSUME WatchInv, Running, UNCHANGED <<loop, cli, sock, backlog, client, task, errmsg, mishaps, lines>>,
           pollfd' \in Seq(PollEntry), Len(pollfd') = Len(pollfd), \A i \in 1..Len(pollfd) : pollfd'[i].fd = pollfd[i].fd,
           serv' \in Loop, serv'.pc \in {"select", "accept", "scan"}, serv'.allset = serv.allset, serv'.maxi = serv.maxi, serv'.numfd = serv.numfd,
           loop = "select" /\ serv'.pc = "scan" => Free \notin serv'.rset /\ serv'.i >= 1,
           loop = "poll" /\ serv'.pc \in {"accept", "scan"} => serv'.i >= 2,
           serv'.pc = "accept" => backlog # <<>>
    PROVE  WatchInv'
<1>1. OpendTypes'
  BY DEF WatchInv, OpendTypes
<1>2. Connections'
  BY DEF WatchInv, Connections, Running
<1>3. Handled' /\ loop \in {"select", "poll"}
  BY DEF WatchInv, Handled, Running, Connections
<1>4. CASE loop = "select"
  <2>1. SelectOf(client, serv, sock)
    BY <1>4 DEF WatchInv, Watched
  <2>2. SelectOf(client, serv', sock)
    BY <2>1, <1>4 DEF SelectOf
  <2>3. Watched'
    BY <2>2, <1>4 DEF Watched
  <2> QED
    BY <1>1, <1>2, <1>3, <2>3 DEF WatchInv
<1>5. CASE loop = "poll"
  <2>1. PollOf(client, pollfd, serv, sock) /\ serv \in Loop /\ pollfd \in Seq(PollEntry)
    BY <1>5 DEF WatchInv, Watched, OpendTypes
  <2>2. \A i \in 1..serv.numfd : pollfd'[i].fd = pollfd[i].fd
    BY <2>1 DEF PollOf, Loop
  <2>3. serv.numfd \in Nat /\ serv.numfd >= 1 /\ \A i \in 2..serv.numfd : i \in 1..serv.numfd
    BY <2>1 DEF PollOf, Loop
  <2>4. PollOf(client, pollfd', serv', sock)
    BY <2>1, <2>2, <2>3, <1>5 DEF PollOf
  <2>5. Watched'
    BY <2>4, <1>5 DEF Watched
  <2> QED
    BY <1>1, <1>2, <1>3, <2>5 DEF WatchInv
<1> QED
  BY <1>3, <1>4, <1>5

\* select returns the descriptors that are ready.
LEMMA SelectIsWatched == WatchInv /\ SelectReturns => WatchInv'
<1> SUFFICES ASSUME WatchInv, SelectReturns PROVE WatchInv'
  OBVIOUS
<1> DEFINE ready == {fd \in serv.allset : Readable(fd)}
<1>1. /\ loop = "select" /\ serv.pc = "select" /\ Running
      /\ UNCHANGED <<loop, cli, sock, backlog, client, pollfd, task, errmsg, mishaps, lines>>
      /\ serv' = [serv EXCEPT !.rset = ready, !.i = 1, !.pc = IF listenfd \in ready THEN "accept" ELSE "scan"]
      /\ serv \in Loop /\ sock \in [OpenClients -> Socket] /\ pollfd \in Seq(PollEntry)
      /\ SelectOf(client, serv, sock)
  BY DEF SelectReturns, WatchInv, OpendTypes, Watched, Running
<1>2. ready \in SUBSET Nat /\ Free \notin ready
  BY <1>1, DescriptorsAreFinite DEF SelectOf, Loop
<1>3. listenfd \in ready => backlog # <<>>
  BY DEF Readable
<1>4. /\ serv' \in Loop /\ serv'.pc \in {"accept", "scan"} /\ serv'.allset = serv.allset /\ serv'.maxi = serv.maxi /\ serv'.numfd = serv.numfd
      /\ serv'.rset = ready /\ serv'.i = 1 /\ (serv'.pc = "accept" => listenfd \in ready)
  <2> HIDE DEF ready
  <2> DEFINE w == IF listenfd \in ready THEN "accept" ELSE "scan"
  <2>2. w \in {"accept", "scan"} /\ (w = "accept" => listenfd \in ready) /\ serv' = [serv EXCEPT !.rset = ready, !.i = 1, !.pc = w]
    BY <1>1
  <2> HIDE DEF w
  <2>3. serv \in Loop /\ ready \in SUBSET Nat
    BY <1>1, <1>2
  <2> HIDE DEF ready
  <2>4. serv' \in Loop
    BY <2>2, <2>3 DEF Loop
  <2>5. serv'.rset = ready /\ serv'.i = 1 /\ serv'.pc = w
    BY <2>2, <2>3 DEF Loop
  <2>6. serv'.allset = serv.allset /\ serv'.maxi = serv.maxi /\ serv'.numfd = serv.numfd
    BY <2>2, <2>3 DEF Loop
  <2> QED
    BY <2>2, <2>4, <2>5, <2>6
<1> HIDE DEF ready
<1> QED
  BY <1>1, <1>2, <1>3, <1>4, LoopIsWatched

\* poll returns the events of each entry.
LEMMA PollIsWatched == WatchInv /\ PollReturns => WatchInv'
<1> SUFFICES ASSUME WatchInv, PollReturns PROVE WatchInv'
  OBVIOUS
<1> DEFINE ready == {i \in 1..serv.numfd : Readable(pollfd[i].fd)}
<1>1. /\ loop = "poll" /\ serv.pc = "select" /\ Running
      /\ UNCHANGED <<loop, cli, sock, backlog, client, task, errmsg, mishaps, lines>>
      /\ serv' = [serv EXCEPT !.i = 2, !.pc = IF 1 \in ready THEN "accept" ELSE "scan"]
      /\ pollfd' = [i \in DOMAIN pollfd |->
                           IF i \in 1..serv.numfd THEN [pollfd[i] EXCEPT !.revents = Revents(pollfd[i].fd)] ELSE pollfd[i]]
      /\ serv \in Loop /\ sock \in [OpenClients -> Socket] /\ pollfd \in Seq(PollEntry)
      /\ PollOf(client, pollfd, serv, sock)
  BY DEF PollReturns, WatchInv, OpendTypes, Watched, Running
<1>2. 1 \in ready => backlog # <<>>
  BY <1>1 DEF Readable, PollOf
<1>3. /\ serv' \in Loop /\ serv'.pc \in {"accept", "scan"} /\ serv'.allset = serv.allset /\ serv'.maxi = serv.maxi /\ serv'.numfd = serv.numfd
      /\ serv'.i = 2 /\ (serv'.pc = "accept" => 1 \in ready)
  <2> HIDE DEF ready
  <2> DEFINE w == IF 1 \in ready THEN "accept" ELSE "scan"
  <2>2. w \in {"accept", "scan"} /\ (w = "accept" => 1 \in ready) /\ serv' = [serv EXCEPT !.i = 2, !.pc = w]
    BY <1>1
  <2> HIDE DEF w
  <2>3. serv \in Loop
    BY <1>1
  <2>4. serv' \in Loop
    BY <2>2, <2>3 DEF Loop
  <2>5. serv'.i = 2 /\ serv'.pc = w
    BY <2>2, <2>3 DEF Loop
  <2>6. serv'.allset = serv.allset /\ serv'.maxi = serv.maxi /\ serv'.numfd = serv.numfd
    BY <2>2, <2>3 DEF Loop
  <2> QED
    BY <2>2, <2>4, <2>5, <2>6
<1>4. pollfd' \in Seq(PollEntry) /\ Len(pollfd') = Len(pollfd) /\ \A i \in 1..Len(pollfd) : pollfd'[i].fd = pollfd[i].fd
  <2>1. \A e \in PollEntry, r \in {"none", "in", "hup"} : LET g == [e EXCEPT !.revents = r] IN g \in PollEntry /\ g.fd = e.fd
    BY DEF PollEntry
  <2>2. \A fd : Revents(fd) \in {"none", "in", "hup"}
    BY DEF Revents
  <2>3. \A i \in 1..Len(pollfd) : pollfd'[i] \in PollEntry /\ pollfd'[i].fd = pollfd[i].fd
    <3> SUFFICES ASSUME NEW i \in 1..Len(pollfd) PROVE pollfd'[i] \in PollEntry /\ pollfd'[i].fd = pollfd[i].fd
      OBVIOUS
    <3>1. pollfd[i] \in PollEntry /\ i \in DOMAIN pollfd
      BY <1>1
    <3>2. pollfd'[i] = IF i \in 1..serv.numfd THEN [pollfd[i] EXCEPT !.revents = Revents(pollfd[i].fd)] ELSE pollfd[i]
      BY <1>1, <3>1
    <3> QED
      BY <2>1, <2>2, <3>1, <3>2, ZenonT(30)
  <2>4. DOMAIN pollfd' = 1..Len(pollfd) /\ Len(pollfd) \in Nat
    BY <1>1
  <2>5. pollfd' = [i \in 1..Len(pollfd) |-> pollfd'[i]]
    BY <1>1, <2>4
  <2>6. [i \in 1..Len(pollfd) |-> pollfd'[i]] \in Seq(PollEntry)
    BY <2>3, <2>4
  <2>7. pollfd' \in Seq(PollEntry) /\ Len(pollfd') = Len(pollfd)
    BY <2>5, <2>6, <2>4
  <2> QED
    BY <2>3, <2>7
<1> HIDE DEF ready
<1> QED
  BY <1>1, <1>2, <1>3, <1>4, LoopIsWatched

\* The loop starts again.
LEMMA ScanEndIsWatched == WatchInv /\ EndOfScan => WatchInv'
<1> SUFFICES ASSUME WatchInv, EndOfScan PROVE WatchInv'
  OBVIOUS
<1>1. /\ serv.pc = "scan" /\ Running
      /\ UNCHANGED <<loop, cli, sock, backlog, client, pollfd, task, errmsg, mishaps, lines>>
      /\ serv' = [serv EXCEPT !.pc = "select", !.rset = {}]
      /\ serv \in Loop /\ pollfd \in Seq(PollEntry)
  BY DEF EndOfScan, WatchInv, OpendTypes, Running
<1>2. serv' \in Loop /\ serv'.pc = "select" /\ serv'.allset = serv.allset /\ serv'.maxi = serv.maxi /\ serv'.numfd = serv.numfd
  BY <1>1 DEF Loop
<1> QED
  BY <1>1, <1>2, LoopIsWatched

\* The connection at the head of the queue is of a client that has no descriptor yet.
LEMMA HeadIsNew ==
    ASSUME WatchInv, serv.pc = "accept"
    PROVE  LET c == Head(backlog)
           IN  /\ c \in OpenClients /\ sock[c].fd = Free /\ cli[c].csfd # "none"
               /\ Tail(backlog) \in Seq(OpenClients) /\ Len(Tail(backlog)) = Len(backlog) - 1 /\ Len(backlog) \in Nat
               /\ \A i \in 1..Len(Tail(backlog)) : Tail(backlog)[i] = backlog[i + 1] /\ backlog[i + 1] # c
<1>1. backlog \in Seq(OpenClients) /\ backlog # <<>>
  BY DEF WatchInv, OpendTypes, Connections
<1>2. Len(backlog) \in Nat /\ Len(backlog) >= 1 /\ Head(backlog) = backlog[1] /\ 1 \in 1..Len(backlog)
  BY <1>1
<1>3. /\ Tail(backlog) \in Seq(OpenClients) /\ Len(Tail(backlog)) = Len(backlog) - 1
      /\ \A i \in 1..Len(Tail(backlog)) : Tail(backlog)[i] = backlog[i + 1]
  BY <1>1, HeadTailProperties
<1>4. \A i \in 1..Len(Tail(backlog)) : backlog[i + 1] # backlog[1]
  BY <1>2, <1>3 DEF WatchInv, Connections
<1> QED
  BY <1>1, <1>2, <1>3, <1>4 DEF WatchInv, Connections

\* The server that ends closes all its sockets, or the one it was forked for.
LEMMA EndIsWatched ==
    ASSUME WatchInv, NEW s \in Servers, ServerEnds(s), UNCHANGED <<loop, cli, client, pollfd, lines>>,
           errmsg' \in [Servers -> About], mishaps' \in Nat,
           s = Opener => Running, s # Opener => loop = "fe"
    PROVE  WatchInv'
<1>1. /\ sock \in [OpenClients -> Socket] /\ task \in [Servers -> Task \cup {NoTask}] /\ serv \in Loop
      /\ backlog \in Seq(OpenClients) /\ Connections /\ Handled
  BY DEF WatchInv, OpendTypes
<1>2. /\ task' \in [Servers -> Task \cup {NoTask}] /\ task'[s] = NoTask
      /\ \A r \in Servers \ {s} : task'[r] = task[r]
  BY <1>1 DEF ServerEnds
<1>3. CASE s = Opener
  <2>1. /\ serv' = [serv EXCEPT !.pc = "dead"] /\ backlog' = <<>>
        /\ sock' = [c \in OpenClients |-> [sock[c] EXCEPT !.srv = FALSE]]
    BY <1>3 DEF ServerEnds
  <2>2. serv' \in Loop /\ serv'.pc = "dead"
    BY <2>1, <1>1 DEF Loop
  <2>3. /\ sock' \in [OpenClients -> Socket]
        /\ \A c \in OpenClients : sock'[c].fd = sock[c].fd /\ sock'[c].up = sock[c].up /\ ~sock'[c].srv
    <3>1. \A k \in Socket : LET g == [k EXCEPT !.srv = FALSE] IN g \in Socket /\ g.fd = k.fd /\ g.up = k.up /\ ~g.srv
      BY DEF Socket
    <3> QED
      BY <3>1, <2>1, <1>1
  <2>4. OpendTypes'
    BY <1>2, <2>1, <2>2, <2>3 DEF WatchInv, OpendTypes
  <2>5. Connections'
    BY <1>1, <2>1, <2>2, <2>3 DEF Connections, Running
  <2>6. loop \notin {"none", "fe"} /\ Opener \notin OpenClients
    BY <1>1, <1>3, OpendAssumption DEF Connections, Opener
  <2>7. \A c \in OpenClients : task[c] = NoTask /\ c \in Servers
    BY <1>1, <2>6 DEF Handled, Servers
  <2>8. \A r \in Servers : task'[r] = NoTask
    BY <1>2, <1>3, <2>7 DEF Servers
  <2>9. Handled' /\ Watched'
    BY <2>2, <2>6, <2>7, <2>8 DEF Handled, Watched, Running, Servers
  <2> QED
    BY <2>4, <2>5, <2>9 DEF WatchInv
<1>4. CASE s # Opener
  <2>1. s \in OpenClients /\ loop = "fe" /\ serv.pc = "start" /\ ~Running
    BY <1>1, <1>4 DEF Servers, Handled, Running
  <2>2. sock' = [sock EXCEPT ![s] = [sock[s] EXCEPT !.srv = FALSE]] /\ UNCHANGED <<serv, backlog>>
    BY <1>1, <1>4, <2>1 DEF ServerEnds
  <2>3. /\ sock' \in [OpenClients -> Socket] /\ ~sock'[s].srv /\ sock'[s].fd = sock[s].fd /\ sock'[s].up = sock[s].up
        /\ \A c \in OpenClients \ {s} : sock'[c] = sock[c]
    <3>1. \A k \in Socket : LET g == [k EXCEPT !.srv = FALSE] IN g \in Socket /\ g.fd = k.fd /\ g.up = k.up /\ ~g.srv
      BY DEF Socket
    <3> QED
      BY <3>1, <2>1, <2>2, <1>1
  <2>4. OpendTypes'
    BY <1>2, <2>2, <2>3 DEF WatchInv, OpendTypes
  <2>5. Connections'
    BY <1>1, <2>1, <2>2, <2>3 DEF Connections, Running
  <2>6. Watched' /\ Running' = FALSE
    BY <2>1, <2>2 DEF Watched, Running
  <2>7. \A r \in Servers : task'[r] # NoTask => r \in OpenClients /\ r # s /\ task'[r] = task[r] /\ task[r].c = r /\ sock'[r] = sock[r]
    BY <1>1, <1>2, <2>1, <2>3 DEF Servers, Handled
  <2>8. task'[Opener] = NoTask
    BY <1>1, <1>2, <1>4, <2>1 DEF Handled, Servers
  <2>9. Handled'
    BY <1>1, <2>1, <2>2, <2>6, <2>7, <2>8 DEF Handled, Servers
  <2> QED
    BY <2>4, <2>5, <2>6, <2>9 DEF WatchInv
<1> QED
  BY <1>3, <1>4

\* A new connection enters client[] and the set of select.
LEMMA AcceptSelectIsWatched ==
    ASSUME WatchInv, serv.pc = "accept", loop = "select", NEW c, c = Head(backlog), NEW fd, fd = NewFd,
           sock' = [sock EXCEPT ![c].fd = fd], AcceptSelect(fd, c)
    PROVE  /\ client' \in Seq(Entry) /\ pollfd' \in Seq(PollEntry) /\ serv' \in Loop /\ serv'.pc = "select"
           /\ SelectOf(client', serv', sock')
<1>1. /\ c \in OpenClients /\ sock[c].fd = Free /\ sock \in [OpenClients -> Socket] /\ client \in Seq(Entry)
      /\ pollfd \in Seq(PollEntry) /\ serv \in Loop /\ SelectOf(client, serv, sock) /\ serv.maxi \in Nat
  BY HeadIsNew DEF WatchInv, OpendTypes, Watched, Running, Loop
<1>2. fd \in Fds /\ fd \in Nat /\ fd # Free /\ fd \notin OpenFds(sock) /\ \A d \in OpenClients : sock[d].fd # fd
  BY <1>1, ANumberIsFree, DescriptorsAreFinite
<1>3. /\ sock'[c].fd = fd /\ \A d \in OpenClients \ {c} : sock'[d] = sock[d]
  BY <1>1, <1>2 DEF Socket
<1> DEFINE sp == sock'
<1>4. OpenFds(sp) = OpenFds(sock) \cup {fd}
  <2> HIDE DEF sp
  <2>1. sp[c].fd = fd /\ \A d \in OpenClients \ {c} : sp[d].fd = sock[d].fd /\ sock[d].fd # sp[c].fd
    BY <1>2, <1>3 DEF sp
  <2> QED
    BY <1>1, <1>2, <2>1, OneMore, SMTT(30)
<1> DEFINE table == client_add(client, fd, c)
           i == EntryOf(table, fd)
<1>5. client' = table /\ serv' = [serv EXCEPT !.pc = "select", !.allset = @ \cup {fd}, !.maxi = IF i > @ THEN i ELSE @] /\ UNCHANGED pollfd
  BY DEF AcceptSelect
<1>6. Added(client, table, fd, c)
  BY <1>1, <1>2, ClientAdds DEF Uids
<1> HIDE DEF sp, table
<1>7. TableOf(client, sock, OpenFds(sock)) /\ Free \notin OpenFds(sock)
  BY <1>1 DEF SelectOf, OpenFds
<1>8. TableOf(table, sp, OpenFds(sock) \cup {fd})
  <2>1. \A d \in OpenClients : sock[d].fd # fd /\ IF sp[d].fd = fd THEN d = c ELSE sp[d].fd = sock[d].fd
    BY <1>2, <1>3 DEF sp
  <2>2. c \in Uids
    BY <1>1 DEF Uids
  <2> QED
    BY <1>1, <1>2, <1>6, <1>7, <2>1, <2>2, TableAdds
<1>9. table \in Seq(Entry) /\ Len(table) \in Nat /\ Len(client) <= Len(table) /\ Len(client) \in Nat
  BY <1>6, <1>1 DEF Added
<1>10. i \in 1..Len(table) /\ table[i].fd = fd
  <2>1. \E j \in 1..Len(table) : table[j].fd = fd
    BY <1>8 DEF TableOf
  <2> QED
    BY <2>1, <1>9, EntryIsFound
<1> HIDE DEF i
<1> DEFINE m == IF i > serv.maxi THEN i ELSE serv.maxi
<1>11. serv' \in Loop /\ serv'.pc = "select" /\ serv'.allset = serv.allset \cup {fd} /\ serv'.maxi = m
  <2>1. m \in Nat /\ serv.allset \cup {fd} \in SUBSET Nat
    BY <1>1, <1>2, <1>9, <1>10 DEF Loop
  <2>2. serv' = [serv EXCEPT !.pc = "select", !.allset = serv.allset \cup {fd}, !.maxi = m]
    BY <1>5, <1>1 DEF Loop
  <2> HIDE DEF m
  <2>3. serv' \in Loop
    BY <2>1, <2>2, <1>1 DEF Loop
  <2>4. serv'.pc = "select" /\ serv'.allset = serv.allset \cup {fd} /\ serv'.maxi = m
    BY <2>2, <1>1 DEF Loop
  <2> QED
    BY <2>3, <2>4
<1>12. m <= Len(table) /\ \A j \in 1..Len(table) : table[j].fd # Free => j <= m
  <2>1. m <= Len(table) /\ i <= m /\ serv.maxi <= m /\ m \in Nat
    BY <1>1, <1>9, <1>10 DEF SelectOf
  <2> SUFFICES ASSUME NEW j \in 1..Len(table), table[j].fd # Free PROVE j <= m
    BY <2>1
  <2>2. CASE table[j].fd = fd
    <3>1. j = i
      BY <2>2, <1>8, <1>10, <1>2 DEF TableOf
    <3> QED
      BY <3>1, <2>1
  <2>3. CASE table[j].fd # fd
    <3>1. j \in 1..Len(client) /\ table[j] = client[j]
      BY <2>3, <1>6, <1>9 DEF Added
    <3>2. j <= serv.maxi
      BY <3>1, <1>1 DEF SelectOf
    <3> HIDE DEF m
    <3> QED
      BY <3>2, <2>1, <1>1
  <2> QED
    BY <2>2, <2>3
<1> HIDE DEF m
<1>13. SelectOf(table, serv', sp)
  <2>1. serv'.allset = OpenFds(sp) \cup {listenfd}
    BY <1>1, <1>4, <1>11 DEF SelectOf
  <2>2. TableOf(table, sp, OpenFds(sp))
    BY <1>4, <1>8
  <2> QED
    BY <2>1, <2>2, <1>11, <1>12 DEF SelectOf
<1> QED
  BY <1>1, <1>5, <1>9, <1>11, <1>13 DEF sp

\* A new connection enters client[] and pollfd[], which grows when it is full.
LEMMA AcceptPollIsWatched ==
    ASSUME WatchInv, serv.pc = "accept", loop = "poll", NEW c, c = Head(backlog), NEW fd, fd = NewFd,
           sock' = [sock EXCEPT ![c].fd = fd], AcceptPoll(fd, c)
    PROVE  /\ client' \in Seq(Entry) /\ pollfd' \in Seq(PollEntry) /\ serv' \in Loop /\ serv'.pc = "scan"
           /\ PollOf(client', pollfd', serv', sock')
<1>1. /\ c \in OpenClients /\ sock[c].fd = Free /\ sock \in [OpenClients -> Socket] /\ client \in Seq(Entry)
      /\ pollfd \in Seq(PollEntry) /\ serv \in Loop /\ PollOf(client, pollfd, serv, sock) /\ serv.numfd \in Nat /\ serv.i \in Nat
  BY HeadIsNew DEF WatchInv, OpendTypes, Watched, Running, Loop
<1>2. fd \in Fds /\ fd \in Nat /\ fd # Free /\ fd # listenfd /\ fd \notin OpenFds(sock) /\ \A d \in OpenClients : sock[d].fd # fd
  BY <1>1, ANumberIsFree, DescriptorsAreFinite
<1>3. /\ sock'[c].fd = fd /\ \A d \in OpenClients \ {c} : sock'[d] = sock[d]
  BY <1>1, <1>2 DEF Socket
<1> DEFINE sp == sock' n == serv.numfd
<1>4. OpenFds(sp) = OpenFds(sock) \cup {fd} /\ Cardinality(OpenFds(sp)) = Cardinality(OpenFds(sock)) + 1
  <2> HIDE DEF sp
  <2>1. sp[c].fd = fd /\ \A d \in OpenClients \ {c} : sp[d].fd = sock[d].fd /\ sock[d].fd # sp[c].fd
    BY <1>2, <1>3 DEF sp
  <2> QED
    BY <1>1, <1>2, <2>1, OneMore
<1> DEFINE table == client_add(client, fd, c)
           grown == IF n = Len(pollfd) THEN grow_pollfd(pollfd) ELSE pollfd
<1>5. /\ client' = table /\ serv' = [serv EXCEPT !.pc = "scan", !.numfd = @ + 1]
      /\ pollfd' = [grown EXCEPT ![n + 1] = [fd |-> fd, revents |-> "none"]]
  BY DEF AcceptPoll
<1>6. Added(client, table, fd, c)
  BY <1>1, <1>2, ClientAdds DEF Uids
<1>7. TableOf(client, sock, OpenFds(sock) \cup {listenfd}) /\ Free \notin OpenFds(sock) \cup {listenfd}
  BY <1>1 DEF PollOf, OpenFds, Free, listenfd
<1>8. TableOf(table, sp, (OpenFds(sock) \cup {listenfd}) \cup {fd}) /\ table \in Seq(Entry)
  <2> HIDE DEF table
  <2>1. \A d \in OpenClients : sock[d].fd # fd /\ IF sp[d].fd = fd THEN d = c ELSE sp[d].fd = sock[d].fd
    BY <1>2, <1>3
  <2>2. c \in Uids /\ fd \notin OpenFds(sock) \cup {listenfd}
    BY <1>1, <1>2 DEF Uids
  <2>3. table \in Seq(Entry)
    BY <1>6 DEF Added
  <2> HIDE DEF sp
  <2> QED
    BY <1>1, <1>2, <1>6, <1>7, <2>1, <2>2, <2>3, TableAdds, SMTT(30)
<1> HIDE DEF table
<1>9. n \in Nat /\ n >= 1 /\ n <= Len(pollfd) /\ Len(pollfd) \in Nat
  BY <1>1 DEF PollOf
<1> HIDE DEF n
<1>10. /\ grown \in Seq(PollEntry) /\ Len(grown) \in Nat /\ Len(grown) >= n + 1
       /\ \A i \in 1..n : grown[i] = pollfd[i]
  <2>1. CASE n = Len(pollfd)
    <3> DEFINE F == FreePollfds(NAlloc)
    <3>1. F \in Seq(PollEntry) /\ Len(F) = NAlloc /\ NAlloc \in Nat \ {0}
      <4>1. \A i \in 1..NAlloc : [fd |-> Free, revents |-> "none"] \in PollEntry
        BY DEF PollEntry, Free
      <4> QED
        BY <4>1, OpendAssumption DEF FreePollfds
    <3>2. grown = pollfd \o F
      BY <2>1 DEF grow_pollfd
    <3> HIDE DEF F, grown
    <3>3. /\ pollfd \o F \in Seq(PollEntry) /\ Len(pollfd \o F) = Len(pollfd) + Len(F)
          /\ \A i \in 1 .. Len(pollfd) + Len(F) : (pollfd \o F)[i] = IF i <= Len(pollfd) THEN pollfd[i] ELSE F[i - Len(pollfd)]
      BY <1>1, <3>1, ConcatProperties
    <3>4. Len(grown) = n + NAlloc
      BY <2>1, <3>1, <3>2, <3>3
    <3>5. \A i \in 1..n : i \in 1..(Len(pollfd) + Len(F)) /\ i <= Len(pollfd)
      BY <2>1, <3>1, <1>9
    <3>6. \A i \in 1..n : grown[i] = pollfd[i]
      BY <3>2, <3>3, <3>5
    <3> QED
      BY <3>1, <3>2, <3>3, <3>4, <3>6, <1>9
  <2>2. CASE n # Len(pollfd)
    BY <2>2, <1>1, <1>9
  <2> QED
    BY <2>1, <2>2
<1> HIDE DEF grown
<1>11. /\ pollfd' \in Seq(PollEntry) /\ Len(pollfd') = Len(grown) /\ pollfd'[n + 1].fd = fd
       /\ \A i \in 1..n : pollfd'[i] = pollfd[i]
  <2>1. [fd |-> fd, revents |-> "none"] \in PollEntry /\ n + 1 \in 1..Len(grown)
    BY <1>2, <1>9, <1>10 DEF PollEntry
  <2>2. pollfd' \in Seq(PollEntry) /\ Len(pollfd') = Len(grown) /\ \A i \in 1..Len(grown) : pollfd'[i] = IF i = n + 1 THEN [fd |-> fd, revents |-> "none"] ELSE grown[i]
    BY <1>5, <1>10, <2>1
  <2>3. \A i \in 1..n : i \in 1..Len(grown) /\ i # n + 1
    BY <1>9, <1>10
  <2> QED
    BY <1>10, <2>1, <2>2, <2>3
<1>12. serv' \in Loop /\ serv'.pc = "scan" /\ serv'.numfd = n + 1 /\ serv'.i = serv.i
  <2>1. serv' = [serv EXCEPT !.pc = "scan", !.numfd = n + 1] /\ n + 1 \in Nat
    BY <1>5, <1>1, <1>9 DEF Loop, n
  <2> QED
    BY <2>1, <1>1 DEF Loop
<1>13. PollOf(table, pollfd', serv', sp)
  <2>1. TableOf(table, sp, OpenFds(sp) \cup {listenfd})
    <3>1. OpenFds(sp) \cup {listenfd} = (OpenFds(sock) \cup {listenfd}) \cup {fd}
      BY <1>4
    <3> QED
      BY <1>8, <3>1
  <2>2. n + 1 \in 1..Len(pollfd') /\ pollfd'[1].fd = listenfd
    BY <1>1, <1>9, <1>10, <1>11 DEF PollOf
  <2>3. \A i \in 2..(n + 1) : i # n + 1 => i \in 2..n /\ i \in 1..n
    BY <1>9
  <2>a. \A i \in 2..n : i \in 2..(n + 1) /\ i \in 1..n
    BY <1>9
  <2>b. n + 1 \in 2..(n + 1)
    BY <1>9
  <2>4. \A i \in 2..(n + 1) : IF i = n + 1 THEN pollfd'[i].fd = fd ELSE i \in 2..n /\ pollfd'[i].fd = pollfd[i].fd /\ pollfd[i].fd \in OpenFds(sock)
    BY <2>3, <1>11, <1>1 DEF PollOf, n
  <2>5. \A i \in 2..(n + 1) : pollfd'[i].fd \in OpenFds(sp)
    BY <2>4, <1>4
  <2>6. \A f \in OpenFds(sp) : \E i \in 2..(n + 1) : pollfd'[i].fd = f
    <3> SUFFICES ASSUME NEW f \in OpenFds(sp) PROVE \E i \in 2..(n + 1) : pollfd'[i].fd = f
      OBVIOUS
    <3>1. CASE f = fd
      BY <3>1, <2>b, <1>11
    <3>2. CASE f # fd
      <4>1. f \in OpenFds(sock)
        BY <3>2, <1>4
      <4>2. PICK i \in 2..n : pollfd[i].fd = f
        BY <4>1, <1>1 DEF PollOf, n
      <4> QED
        BY <4>2, <2>a, <1>11
    <3> QED
      BY <3>1, <3>2
  <2>7. \A i, j \in 2..(n + 1) : pollfd'[i].fd = pollfd'[j].fd => i = j
    BY <2>4, <1>2, <1>1 DEF PollOf, n
  <2>8. n + 1 = Cardinality(OpenFds(sp)) + 1
    <3>1. Cardinality(OpenFds(sock)) \in Nat
      BY <1>1, DescriptorsAreFinite
    <3> QED
      BY <3>1, <1>1, <1>4 DEF PollOf, n
  <2>9. serv'.i >= 2
    BY <1>1, <1>12 DEF PollOf
  <2> HIDE DEF sp
  <2> QED
    BY <2>1, <2>2, <2>5, <2>6, <2>7, <2>8, <2>9, <1>12 DEF PollOf
<1> QED
  BY <1>5, <1>8, <1>11, <1>12, <1>13

\* serv_accept takes a connection, or ends the server.
LEMMA AcceptIsWatched == WatchInv /\ serv_accept => WatchInv'
<1> SUFFICES ASSUME WatchInv, serv_accept PROVE WatchInv'
  OBVIOUS
<1>1. /\ serv.pc = "accept" /\ UNCHANGED <<loop, cli, errmsg, lines>> /\ Running /\ loop \in {"select", "poll"}
      /\ errmsg \in [Servers -> About] /\ mishaps \in Nat /\ Connections /\ sock \in [OpenClients -> Socket]
      /\ backlog \in Seq(OpenClients)
  BY DEF serv_accept, Running, WatchInv, OpendTypes, Connections
<1>2. CASE /\ Mishap
           /\ ServerEnds(Opener)
           /\ UNCHANGED <<client, pollfd>>
  <2>1. Opener \in Servers /\ mishaps' \in Nat
    BY <1>1, <1>2 DEF Servers, Mishap
  <2> QED
    BY <1>1, <1>2, <2>1, EndIsWatched
<1> DEFINE c == Head(backlog)
           fd == NewFd
<1>3. CASE /\ backlog' = Tail(backlog)
           /\ sock' = [sock EXCEPT ![c].fd = NewFd]
           /\ IF loop = "select" THEN AcceptSelect(NewFd, c) ELSE AcceptPoll(NewFd, c)
           /\ UNCHANGED <<task, mishaps>>
  <2>1. /\ c \in OpenClients /\ sock[c].fd = Free /\ cli[c].csfd # "none"
        /\ Tail(backlog) \in Seq(OpenClients) /\ Len(Tail(backlog)) = Len(backlog) - 1 /\ Len(backlog) \in Nat
        /\ \A i \in 1..Len(Tail(backlog)) : Tail(backlog)[i] = backlog[i + 1] /\ backlog[i + 1] # c
    BY <1>1, HeadIsNew
  <2>2. fd \in Fds /\ fd # Free /\ \A d \in OpenClients : sock[d].fd # fd
    BY <1>1, <2>1, ANumberIsFree, DescriptorsAreFinite
  <2>a. c = backlog[1] /\ 1 \in 1..Len(backlog)
    BY <1>1 DEF Connections
  <2> HIDE DEF c, fd
  <2>3. /\ sock' \in [OpenClients -> Socket] /\ sock'[c].fd = fd /\ sock'[c].srv = sock[c].srv /\ sock'[c].up = sock[c].up
        /\ \A d \in OpenClients \ {c} : sock'[d] = sock[d]
    <3>1. sock' = [sock EXCEPT ![c] = [sock[c] EXCEPT !.fd = fd]]
      BY <1>1, <1>3, <2>1 DEF fd
    <3>2. \A k \in Socket, f \in {Free} \cup Fds : LET g == [k EXCEPT !.fd = f] IN g \in Socket /\ g.fd = f /\ g.srv = k.srv /\ g.up = k.up
      BY DEF Socket
    <3> QED
      BY <3>1, <3>2, <2>1, <2>2, <1>1
  <2>4. /\ client' \in Seq(Entry) /\ pollfd' \in Seq(PollEntry) /\ serv' \in Loop /\ serv'.pc \in {"select", "scan"}
        /\ IF loop = "select" THEN SelectOf(client', serv', sock') ELSE PollOf(client', pollfd', serv', sock')
    <3>1. CASE loop = "select"
      <4>1. AcceptSelect(fd, c) /\ sock' = [sock EXCEPT ![c].fd = fd]
        BY <1>3, <3>1 DEF fd
      <4>2. c = Head(backlog) /\ fd = NewFd
        BY DEF c, fd
      <4> QED
        BY <4>1, <4>2, <3>1, <1>1, AcceptSelectIsWatched
    <3>2. CASE loop = "poll"
      <4>1. AcceptPoll(fd, c) /\ sock' = [sock EXCEPT ![c].fd = fd]
        BY <1>3, <3>2 DEF fd
      <4>2. c = Head(backlog) /\ fd = NewFd
        BY DEF c, fd
      <4> QED
        BY <4>1, <4>2, <3>2, <1>1, AcceptPollIsWatched
    <3> QED
      BY <3>1, <3>2, <1>1
  <2>5. OpendTypes'
    BY <1>1, <1>3, <2>1, <2>3, <2>4 DEF WatchInv, OpendTypes
  <2>6. Connections'
    <3>1. \A i \in 1..Len(backlog') : i + 1 \in 1..Len(backlog) /\ backlog'[i] = backlog[i + 1] /\ backlog[i + 1] # c /\ backlog[i + 1] \in OpenClients
      BY <1>1, <1>3, <2>1
    <3>2. \A i, j \in 1..Len(backlog') : backlog'[i] = backlog'[j] => i = j
      <4> SUFFICES ASSUME NEW i \in 1..Len(backlog'), NEW j \in 1..Len(backlog'), backlog'[i] = backlog'[j] PROVE i = j
        OBVIOUS
      <4>1. i + 1 = j + 1
        BY <1>1, <3>1 DEF Connections
      <4>2. i \in Nat /\ j \in Nat
        BY <1>3, <2>1
      <4> QED
        BY <4>1, <4>2
    <3>3. \A i \in 1..Len(backlog') : sock'[backlog'[i]].fd = Free /\ sock'[backlog'[i]].srv /\ cli'[backlog'[i]].csfd # "none"
      BY <1>1, <2>3, <3>1 DEF Connections
    <3>4. sock[c].srv
      BY <1>1, <2>a DEF Connections
    <3>5. \A d \in OpenClients : sock'[d].fd # Free => sock'[d].srv
      BY <1>1, <2>3, <3>4 DEF Connections
    <3>6. /\ \A d, e \in OpenClients : sock'[d].fd = sock'[e].fd /\ sock'[d].fd # Free => d = e
          /\ \A d \in OpenClients : sock'[d].fd # Free => cli'[d].csfd # "none"
          /\ \A d \in OpenClients : cli'[d].csfd = "none" => sock'[d].up = <<>> /\ ~sock'[d].srv
      <4>1. \A d, e \in OpenClients : sock'[d].fd = sock'[e].fd /\ sock'[d].fd # Free => d = e
        BY <1>1, <2>1, <2>2, <2>3 DEF Connections
      <4>2. \A d \in OpenClients : sock'[d].fd # Free => cli'[d].csfd # "none"
        BY <1>1, <2>1, <2>3 DEF Connections
      <4>3. \A d \in OpenClients : cli'[d].csfd = "none" => sock'[d].up = <<>> /\ ~sock'[d].srv
        BY <1>1, <2>1, <2>3 DEF Connections
      <4> QED
        BY <4>1, <4>2, <4>3
    <3>7. serv'.pc \notin {"start", "accept"} /\ loop' \in {"select", "poll"}
      BY <1>1, <2>4
    <3> QED
      BY <3>2, <3>3, <3>5, <3>6, <3>7 DEF Connections
  <2>7. Watched'
    BY <2>4, <1>1 DEF Watched
  <2>8. Handled'
    BY <1>1, <1>3, <2>3, <2>4 DEF WatchInv, Handled, Running, OpendTypes, Servers, Task, NoTask
  <2> QED
    BY <2>5, <2>6, <2>7, <2>8 DEF WatchInv
<1> QED
  BY <1>2, <1>3 DEF serv_accept

\* The entry the scan serves next: its descriptor is open, and its owner's.
ServedEntry(j, fd, c) ==
    /\ j \in Nat /\ j >= 1 /\ j \in 1..Len(client) /\ fd \in OpenFds(sock) /\ fd # Free
    /\ c \in OpenClients /\ sock[c].fd = fd /\ sock[c].srv /\ \A d \in OpenClients : sock[d].fd = fd => d = c
    /\ client[j].uid \in Uids
    /\ loop = "select" => client[j].fd = fd /\ client[j].uid = c
    /\ loop = "poll" => j \in 2..serv.numfd /\ pollfd[j].fd = fd

\* What ServeEntry takes from the tables (loop.select.c, loop.poll.c).
LEMMA ServedIsOpen ==
    ASSUME WatchInv, serv.pc = "scan", ReadyEntries # {}, NEW j, j = Min(ReadyEntries),
           NEW fd, fd = IF loop = "select" THEN client[j].fd ELSE pollfd[j].fd, NEW c, c = Owner(fd)
    PROVE  ServedEntry(j, fd, c)
<1>1. /\ sock \in [OpenClients -> Socket] /\ client \in Seq(Entry) /\ pollfd \in Seq(PollEntry) /\ serv \in Loop
      /\ Running /\ loop \in {"select", "poll"}
      /\ \A d, e \in OpenClients : sock[d].fd = sock[e].fd /\ sock[d].fd # Free => d = e
      /\ \A d \in OpenClients : sock[d].fd # Free => sock[d].srv
  BY DEF WatchInv, OpendTypes, Connections, Running
<1>2. ReadyEntries \in SUBSET Nat
  <2>1. serv.i \in Nat /\ serv.maxi \in Nat /\ serv.numfd \in Nat
    BY <1>1 DEF Loop
  <2> QED
    BY <2>1 DEF ReadyEntries
<1>3. j \in ReadyEntries /\ j \in Nat
  BY <1>2, LeastNumber
<1>4. fd \in OpenFds(sock) => /\ c \in OpenClients /\ sock[c].fd = fd /\ sock[c].srv /\ fd # Free
                              /\ \A d \in OpenClients : sock[d].fd = fd => d = c
  BY <1>1, OwnerOwns
<1>5. CASE loop = "select"
  <2>1. SelectOf(client, serv, sock) /\ serv.i \in Nat /\ serv.maxi \in Nat
    BY <1>1, <1>5 DEF WatchInv, Watched, Loop
  <2>2. j \in serv.i..serv.maxi /\ client[j].fd \in serv.rset /\ fd = client[j].fd
    BY <1>3, <1>5 DEF ReadyEntries
  <2>3. j >= 1 /\ j \in 1..Len(client) /\ fd # Free
    BY <1>1, <2>1, <2>2, <1>3 DEF SelectOf
  <2>4. fd \in OpenFds(sock)
    BY <2>1, <2>2, <2>3 DEF SelectOf, TableOf
  <2>5. client[j].uid = c
    BY <1>4, <2>1, <2>2, <2>3, <2>4 DEF SelectOf, TableOf
  <2> QED
    BY <1>3, <1>4, <1>5, <2>2, <2>3, <2>4, <2>5 DEF ServedEntry, Uids
<1>6. CASE loop = "poll"
  <2>1. PollOf(client, pollfd, serv, sock) /\ serv.i \in Nat /\ serv.numfd \in Nat
    BY <1>1, <1>6 DEF WatchInv, Watched, Loop
  <2>2. j \in serv.i..serv.numfd /\ fd = pollfd[j].fd
    BY <1>3, <1>6 DEF ReadyEntries
  <2>3. j >= 2 /\ j \in 2..serv.numfd
    BY <1>1, <2>1, <2>2, <1>3, <1>6 DEF PollOf
  <2>4. fd \in OpenFds(sock)
    BY <2>1, <2>2, <2>3 DEF PollOf
  <2>5. serv.numfd <= Len(client)
    <3> DEFINE fds == OpenFds(sock) \cup {listenfd}
    <3>1. IsFiniteSet(OpenFds(sock)) /\ Cardinality(OpenFds(sock)) \in Nat /\ listenfd \notin OpenFds(sock)
      BY <1>1, DescriptorsAreFinite
    <3>2. Cardinality(fds) = Cardinality(OpenFds(sock)) + 1
      BY <3>1, FS_AddElement
    <3>3. TableOf(client, sock, fds)
      BY <2>1 DEF PollOf
    <3>4. Cardinality(fds) <= Len(client)
      BY <3>3, <1>1, TableIsLong
    <3> HIDE DEF fds
    <3> QED
      BY <3>2, <3>4, <2>1 DEF PollOf
  <2>6. j \in 1..Len(client)
    BY <2>1, <2>3, <2>5, <1>1
  <2>7. client[j].uid \in Uids
    <3>1. client[j] \in Entry
      BY <2>6, <1>1
    <3> QED
      BY <3>1 DEF Entry
  <2> QED
    BY <1>3, <1>4, <1>6, <2>2, <2>3, <2>4, <2>6, <2>7 DEF ServedEntry
<1> QED
  BY <1>1, <1>5, <1>6

\* The client hung up: what Remove makes of the connections and of client[].
LEMMA RemoveCloses ==
    ASSUME WatchInv, NEW j, NEW fd, NEW c, ServedEntry(j, fd, c), c = Owner(fd), Remove(fd, j)
    PROVE  /\ sock' \in [OpenClients -> Socket] /\ sock'[c].fd = Free /\ ~sock'[c].srv /\ sock'[c].up = <<>>
           /\ sock'[c].down = sock[c].down /\ sock'[c].cli = sock[c].cli
           /\ \A d \in OpenClients \ {c} : sock'[d] = sock[d]
           /\ OpenFds(sock') = OpenFds(sock) \ {fd} /\ Cardinality(OpenFds(sock')) = Cardinality(OpenFds(sock)) - 1
<1>1. sock \in [OpenClients -> Socket] /\ c \in OpenClients /\ sock[c].fd = fd /\ fd # Free /\ \A d \in OpenClients : sock[d].fd = fd => d = c
  BY DEF WatchInv, OpendTypes, ServedEntry
<1>2. sock' = [sock EXCEPT ![c] = [[[sock[c] EXCEPT !.fd = Free] EXCEPT !.srv = FALSE] EXCEPT !.up = <<>>]]
  BY <1>1 DEF Remove
<1>3. /\ sock' \in [OpenClients -> Socket] /\ sock'[c].fd = Free /\ ~sock'[c].srv /\ sock'[c].up = <<>>
      /\ sock'[c].down = sock[c].down /\ sock'[c].cli = sock[c].cli
      /\ \A d \in OpenClients \ {c} : sock'[d] = sock[d]
  <2>1. <<>> \in Seq(Piece)
    OBVIOUS
  <2>2. \A k \in Socket : LET g == [[[k EXCEPT !.fd = Free] EXCEPT !.srv = FALSE] EXCEPT !.up = <<>>]
                          IN g \in Socket /\ g.fd = Free /\ ~g.srv /\ g.up = <<>> /\ g.down = k.down /\ g.cli = k.cli
    BY <2>1 DEF Socket
  <2> QED
    BY <2>2, <1>1, <1>2
<1> DEFINE sp == sock'
<1>4. OpenFds(sp) = OpenFds(sock) \ {fd} /\ Cardinality(OpenFds(sp)) = Cardinality(OpenFds(sock)) - 1
  <2>1. sp[c].fd = Free /\ \A d \in OpenClients \ {c} : sp[d].fd = sock[d].fd /\ sock[d].fd # sock[c].fd
    BY <1>1, <1>3
  <2> HIDE DEF sp
  <2> QED
    BY <1>1, <2>1, OneLess
<1> QED
  BY <1>3, <1>4

\* The select loop forgets the descriptor.
LEMMA RemoveSelectIsWatched ==
    ASSUME WatchInv, serv.pc = "scan", loop = "select", NEW j, NEW fd, NEW c, ServedEntry(j, fd, c), c = Owner(fd), Remove(fd, j)
    PROVE  /\ client' \in Seq(Entry) /\ pollfd' \in Seq(PollEntry) /\ serv' \in Loop /\ serv'.pc = "scan"
           /\ SelectOf(client', serv', sock')
<1>1. /\ sock \in [OpenClients -> Socket] /\ client \in Seq(Entry) /\ pollfd \in Seq(PollEntry) /\ serv \in Loop
      /\ SelectOf(client, serv, sock) /\ c \in OpenClients /\ fd \in OpenFds(sock) /\ fd # Free
  BY DEF WatchInv, OpendTypes, Watched, Running, ServedEntry
<1>2. /\ client' = client_del(client, fd) /\ serv' = [serv EXCEPT !.allset = @ \ {fd}, !.i = EntryOf(client, fd) + 1] /\ UNCHANGED pollfd
  BY DEF Remove, RemoveSelect
<1> DEFINE sp == sock' i == EntryOf(client, fd) + 1 t == client_del(client, fd)
<1>3. /\ sp[c].fd = Free /\ \A d \in OpenClients \ {c} : sp[d] = sock[d]
      /\ OpenFds(sp) = OpenFds(sock) \ {fd}
  BY RemoveCloses
<1>4. t \in Seq(Entry) /\ Len(t) = Len(client) /\ TableOf(t, sp, OpenFds(sock) \ {fd})
      /\ \A k \in 1..Len(t) : t[k].fd # Free => client[k].fd # Free
  <2>1. \A d \in OpenClients : sp[d].fd = IF d = c THEN Free ELSE sock[d].fd
    BY <1>3
  <2>2. TableOf(client, sock, OpenFds(sock))
    BY <1>1 DEF SelectOf
  <2>3. t = client_del(client, fd)
    OBVIOUS
  <2> HIDE DEF sp, t
  <2>4. Closes(client, fd, c, sock, sp, OpenFds(sock))
    BY <1>1, <2>1, <2>2 DEF Closes
  <2> QED
    BY <1>1, <2>3, <2>4, TableDels
<1>5. i \in Nat /\ i >= 1
  <2>1. EntryOf(client, fd) \in 1..Len(client)
    BY <1>1, EntryIsFound DEF SelectOf, TableOf
  <2> QED
    BY <2>1, <1>1
<1> HIDE DEF sp, i, t
<1>6. serv' \in Loop /\ serv'.pc = "scan" /\ serv'.allset = serv.allset \ {fd} /\ serv'.i = i /\ serv'.rset = serv.rset /\ serv'.maxi = serv.maxi
  <2>1. serv' = [serv EXCEPT !.allset = serv.allset \ {fd}, !.i = i] /\ serv.allset \ {fd} \in SUBSET Nat
    BY <1>1, <1>2 DEF Loop, i
  <2> QED
    BY <2>1, <1>1, <1>5 DEF Loop
<1>7. SelectOf(t, serv', sp)
  <2>1. serv'.allset = OpenFds(sp) \cup {listenfd}
    <3>1. listenfd # fd
      BY <1>1, DescriptorsAreFinite
    <3> QED
      BY <3>1, <1>1, <1>3, <1>6 DEF SelectOf
  <2>2. serv'.maxi <= Len(t) /\ \A k \in 1..Len(t) : t[k].fd # Free => k <= serv'.maxi
    BY <1>1, <1>4, <1>6 DEF SelectOf
  <2>3. serv'.pc = "scan" => Free \notin serv'.rset /\ serv'.i >= 1
    BY <1>1, <1>5, <1>6 DEF SelectOf
  <2> QED
    BY <1>3, <1>4, <2>1, <2>2, <2>3 DEF SelectOf
<1> QED
  BY <1>1, <1>2, <1>4, <1>6, <1>7 DEF t, sp

\* The poll loop moves its last entry to the one that becomes free.
LEMMA RemovePollIsWatched ==
    ASSUME WatchInv, serv.pc = "scan", loop = "poll", NEW j, NEW fd, NEW c, ServedEntry(j, fd, c), c = Owner(fd), Remove(fd, j)
    PROVE  /\ client' \in Seq(Entry) /\ pollfd' \in Seq(PollEntry) /\ serv' \in Loop /\ serv'.pc = "scan"
           /\ PollOf(client', pollfd', serv', sock')
<1>1. /\ sock \in [OpenClients -> Socket] /\ client \in Seq(Entry) /\ pollfd \in Seq(PollEntry) /\ serv \in Loop
      /\ PollOf(client, pollfd, serv, sock) /\ c \in OpenClients /\ fd \in OpenFds(sock) /\ fd # Free /\ serv.numfd \in Nat /\ serv.i \in Nat
      /\ j \in 2..serv.numfd /\ pollfd[j].fd = fd
  BY DEF WatchInv, OpendTypes, Watched, Running, ServedEntry, Loop
<1> DEFINE sp == sock' t == client_del(client, fd) n == serv.numfd
<1>2. /\ client' = t
      /\ pollfd' = IF j < n THEN [pollfd EXCEPT ![j] = pollfd[n]] ELSE pollfd
      /\ serv' = [serv EXCEPT !.numfd = @ - 1, !.i = IF j < n THEN j ELSE j + 1]
  BY <1>1 DEF Remove, RemovePoll
<1>3. /\ sp[c].fd = Free /\ \A d \in OpenClients \ {c} : sp[d] = sock[d]
      /\ OpenFds(sp) = OpenFds(sock) \ {fd} /\ Cardinality(OpenFds(sp)) = Cardinality(OpenFds(sock)) - 1
  BY RemoveCloses
<1>4. fd # listenfd /\ Cardinality(OpenFds(sock)) \in Nat
  BY <1>1, DescriptorsAreFinite
<1>5. t \in Seq(Entry) /\ TableOf(t, sp, (OpenFds(sock) \cup {listenfd}) \ {fd})
  <2>1. \A d \in OpenClients : sp[d].fd = IF d = c THEN Free ELSE sock[d].fd
    BY <1>3
  <2>2. TableOf(client, sock, OpenFds(sock) \cup {listenfd}) /\ fd \in OpenFds(sock) \cup {listenfd}
    BY <1>1 DEF PollOf
  <2>3. t = client_del(client, fd)
    OBVIOUS
  <2> HIDE DEF sp, t
  <2>4. Closes(client, fd, c, sock, sp, OpenFds(sock) \cup {listenfd})
    BY <1>1, <2>1, <2>2 DEF Closes
  <2> QED
    BY <1>1, <2>3, <2>4, TableDels
<1> HIDE DEF sp, t
<1>6. n \in Nat /\ n >= 2 /\ n <= Len(pollfd) /\ Len(pollfd) \in Nat /\ j \in Nat /\ j >= 2 /\ j <= n
  BY <1>1 DEF PollOf
<1>7. /\ pollfd' \in Seq(PollEntry) /\ Len(pollfd') = Len(pollfd)
      /\ \A k \in 1..n : pollfd'[k] = IF k = j /\ j < n THEN pollfd[n] ELSE pollfd[k]
  <2>1. pollfd[n] \in PollEntry /\ j \in 1..Len(pollfd) /\ \A k \in 1..n : k \in 1..Len(pollfd)
    BY <1>1, <1>6
  <2>2. CASE j < n
    <3>1. pollfd' = [pollfd EXCEPT ![j] = pollfd[n]]
      BY <1>2, <2>2
    <3> QED
      BY <3>1, <2>1, <2>2, <1>1
  <2>3. CASE ~(j < n)
    BY <2>3, <1>1, <1>2
  <2> QED
    BY <2>2, <2>3
<1> DEFINE i == IF j < n THEN j ELSE j + 1
<1>8. serv' \in Loop /\ serv'.pc = "scan" /\ serv'.numfd = n - 1 /\ serv'.i = i /\ i \in Nat /\ i >= 2
  <2>1. i \in Nat /\ i >= 2 /\ n - 1 \in Nat
    BY <1>6
  <2>2. serv' = [serv EXCEPT !.numfd = n - 1, !.i = i]
    BY <1>1, <1>2 DEF Loop
  <2> HIDE DEF i, n
  <2>3. serv' \in Loop
    BY <2>1, <2>2, <1>1 DEF Loop
  <2>4. serv'.pc = serv.pc /\ serv'.numfd = n - 1 /\ serv'.i = i
    BY <2>2, <1>1 DEF Loop
  <2> QED
    BY <2>1, <2>3, <2>4
<1> HIDE DEF i
<1>9. PollOf(t, pollfd', serv', sp)
  <2>1. TableOf(t, sp, OpenFds(sp) \cup {listenfd})
    <3>1. OpenFds(sp) \cup {listenfd} = (OpenFds(sock) \cup {listenfd}) \ {fd}
      BY <1>3, <1>4
    <3> QED
      BY <1>5, <3>1
  <2>2. n - 1 \in 1..Len(pollfd') /\ pollfd'[1].fd = listenfd
    BY <1>1, <1>6, <1>7 DEF PollOf
  <2>3. \A k, l \in 2..n : pollfd[k].fd = pollfd[l].fd => k = l
    BY <1>1 DEF PollOf
  <2>4. \A k \in 2..(n - 1) : k \in 2..n /\ k \in 1..n /\ k # n /\ n \in 2..n
    BY <1>6
  <2>5. \A k \in 2..(n - 1) : pollfd'[k] = IF k = j THEN pollfd[n] ELSE pollfd[k]
    BY <1>6, <1>7, <2>4
  <2>6. \A k \in 2..n : pollfd[k].fd \in OpenFds(sock) /\ (k # j => pollfd[k].fd # fd)
    BY <1>1, <2>3 DEF PollOf
  <2>7. \A k \in 2..(n - 1) : pollfd'[k].fd \in OpenFds(sp)
    BY <2>4, <2>5, <2>6, <1>3
  <2>8. \A f \in OpenFds(sp) : \E k \in 2..(n - 1) : pollfd'[k].fd = f
    <3> SUFFICES ASSUME NEW f \in OpenFds(sp) PROVE \E k \in 2..(n - 1) : pollfd'[k].fd = f
      OBVIOUS
    <3>1. f \in OpenFds(sock) /\ f # fd
      BY <1>3
    <3>2. PICK k \in 2..n : pollfd[k].fd = f
      BY <3>1, <1>1 DEF PollOf
    <3>3. k # j
      BY <3>1, <3>2, <1>1
    <3>4. CASE k = n
      <4>1. j \in 2..(n - 1)
        BY <3>3, <3>4, <1>6
      <4> QED
        BY <4>1, <3>2, <3>4, <2>5
    <3>5. CASE k # n
      <4>1. k \in 2..(n - 1)
        BY <3>5, <1>6
      <4> QED
        BY <4>1, <3>2, <3>3, <2>5
    <3> QED
      BY <3>4, <3>5
  <2>9. \A k, l \in 2..(n - 1) : pollfd'[k].fd = pollfd'[l].fd => k = l
    BY <2>3, <2>4, <2>5
  <2>10. n - 1 = Cardinality(OpenFds(sp)) + 1
    <3>1. n = Cardinality(OpenFds(sock)) + 1
      BY <1>1 DEF PollOf
    <3> HIDE DEF n
    <3> QED
      BY <3>1, <1>3, <1>4
  <2> HIDE DEF n
  <2> QED
    BY <2>1, <2>2, <2>7, <2>8, <2>9, <2>10, <1>8 DEF PollOf
<1> QED
  BY <1>2, <1>5, <1>7, <1>8, <1>9 DEF sp, t

\* The descriptor of a client that hung up is closed and watched no more.
LEMMA RemoveIsWatched ==
    ASSUME WatchInv, serv.pc = "scan", task[Opener] = NoTask, NEW j, NEW fd, NEW c, ServedEntry(j, fd, c), c = Owner(fd), Remove(fd, j),
           UNCHANGED <<loop, cli, backlog, task, errmsg, mishaps, lines>>
    PROVE  WatchInv'
<1>1. /\ loop \in {"select", "poll"} /\ Connections /\ Handled /\ c \in OpenClients /\ sock[c].fd # Free
      /\ sock \in [OpenClients -> Socket] /\ backlog \in Seq(OpenClients)
  BY DEF WatchInv, Connections, Running, ServedEntry, OpendTypes
<1>2. /\ sock' \in [OpenClients -> Socket] /\ sock'[c].fd = Free /\ ~sock'[c].srv /\ sock'[c].up = <<>>
      /\ \A d \in OpenClients \ {c} : sock'[d] = sock[d]
  BY RemoveCloses
<1>3. /\ client' \in Seq(Entry) /\ pollfd' \in Seq(PollEntry) /\ serv' \in Loop /\ serv'.pc = "scan"
      /\ IF loop = "select" THEN SelectOf(client', serv', sock') ELSE PollOf(client', pollfd', serv', sock')
  <2>1. CASE loop = "select"
    BY <2>1, RemoveSelectIsWatched
  <2>2. CASE loop = "poll"
    BY <2>2, RemovePollIsWatched
  <2> QED
    BY <2>1, <2>2, <1>1
<1>4. OpendTypes'
  BY <1>2, <1>3 DEF WatchInv, OpendTypes
<1>5. \A i \in 1..Len(backlog) : backlog[i] \in OpenClients /\ backlog[i] # c
  BY <1>1 DEF Connections
<1>6. Connections'
  <2>1. \A d, e \in OpenClients : sock'[d].fd = sock'[e].fd /\ sock'[d].fd # Free => d = e
    BY <1>1, <1>2 DEF Connections
  <2>2. /\ \A i, k \in 1..Len(backlog') : backlog'[i] = backlog'[k] => i = k
        /\ \A i \in 1..Len(backlog') : LET d == backlog'[i] IN sock'[d].fd = Free /\ sock'[d].srv /\ cli'[d].csfd # "none"
    BY <1>1, <1>2, <1>5 DEF Connections
  <2>3. \A d \in OpenClients : /\ sock'[d].fd # Free => cli'[d].csfd # "none" /\ sock'[d].srv
                               /\ cli'[d].csfd = "none" => sock'[d].up = <<>> /\ ~sock'[d].srv
    BY <1>1, <1>2 DEF Connections, Running
  <2> QED
    BY <1>1, <1>3, <2>1, <2>2, <2>3 DEF Connections
<1>7. Watched'
  BY <1>3 DEF Watched
<1>8. Handled'
  <2>1. \A s \in Servers : task[s] = NoTask
    BY <1>1 DEF Handled, Servers
  <2> QED
    BY <1>1, <1>3, <2>1 DEF Handled, Running, Servers
<1> QED
  BY <1>4, <1>6, <1>7, <1>8 DEF WatchInv

\* What reading requests and writing answers leave alone.
LEMMA RequestsAreWatched ==
    ASSUME WatchInv, UNCHANGED <<loop, cli, backlog, client, pollfd, mishaps, lines>>, OpendTypes', Handled',
           serv'.pc = serv.pc, serv'.allset = serv.allset, serv'.maxi = serv.maxi, serv'.numfd = serv.numfd, serv'.rset = serv.rset,
           serv'.i >= serv.i,
           \A c \in OpenClients : /\ sock'[c].fd = sock[c].fd /\ sock'[c].srv = sock[c].srv
                                  /\ (cli[c].csfd = "none" => sock'[c].up = sock[c].up)
    PROVE  WatchInv'
<1>1. /\ Connections /\ backlog \in Seq(OpenClients) /\ serv.i \in Nat /\ serv'.i \in Nat
      /\ \A i \in 1..Len(backlog) : backlog[i] \in OpenClients
  BY DEF WatchInv, OpendTypes, Loop
<1>2. Connections'
  <2>1. \A d, e \in OpenClients : sock'[d].fd = sock'[e].fd /\ sock'[d].fd # Free => d = e
    BY <1>1 DEF Connections
  <2>2. /\ \A i, k \in 1..Len(backlog') : backlog'[i] = backlog'[k] => i = k
        /\ \A i \in 1..Len(backlog') : LET d == backlog'[i] IN sock'[d].fd = Free /\ sock'[d].srv /\ cli'[d].csfd # "none"
    BY <1>1 DEF Connections
  <2>3. \A d \in OpenClients : /\ sock'[d].fd # Free => cli'[d].csfd # "none"
                               /\ cli'[d].csfd = "none" => sock'[d].up = <<>> /\ ~sock'[d].srv
    BY <1>1 DEF Connections
  <2>4. /\ (Running' => \A d \in OpenClients : sock'[d].fd # Free => sock'[d].srv)
        /\ (Running' => loop' \in {"select", "poll"})
        /\ (serv'.pc = "start" => /\ backlog' = <<>> /\ client' = <<>> /\ pollfd' = <<>> /\ serv'.maxi = 0
                                  /\ \A d \in OpenClients : sock'[d].fd = Free)
        /\ (serv'.pc = "accept" => backlog' # <<>>)
    BY <1>1 DEF Connections, Running
  <2> QED
    BY <2>1, <2>2, <2>3, <2>4 DEF Connections
<1> DEFINE so == sock sp == sock'
<1>3. /\ \A table, sv : SelectOf(table, sv, so) => SelectOf(table, sv, sp)
      /\ \A table, pfd, sv : PollOf(table, pfd, sv, so) => PollOf(table, pfd, sv, sp)
  BY ServersSideStays
<1> HIDE DEF so, sp
<1>4. CASE Running /\ loop = "select"
  <2>1. SelectOf(client, serv, so)
    BY <1>4 DEF WatchInv, Watched, so
  <2>2. SelectOf(client, serv', so)
    BY <2>1, <1>1 DEF SelectOf
  <2>3. SelectOf(client', serv', sock')
    BY <2>2, <1>3 DEF sp
  <2>4. Watched'
    BY <2>3, <1>4 DEF Watched
  <2> QED
    BY <2>4, <1>2 DEF WatchInv
<1>5. CASE Running /\ loop # "select"
  <2>1. PollOf(client, pollfd, serv, so)
    BY <1>5 DEF WatchInv, Watched, so
  <2>2. PollOf(client, pollfd, serv', so)
    BY <2>1, <1>1 DEF PollOf
  <2>3. PollOf(client', pollfd', serv', sock')
    BY <2>2, <1>3 DEF sp
  <2>4. Watched'
    BY <2>3, <1>5 DEF Watched
  <2> QED
    BY <2>4, <1>2 DEF WatchInv
<1>6. CASE ~Running
  <2>1. Watched'
    BY <1>6 DEF Watched, Running
  <2> QED
    BY <2>1, <1>2 DEF WatchInv
<1> QED
  BY <1>4, <1>5, <1>6

\* A request is read: from the connection of c, by the server s.
Reads(s, c, uid) ==
    /\ sock[c].up # <<>>
    /\ task' = [task EXCEPT ![s] = [pc |-> "handle", c |-> c, piece |-> Head(sock[c].up), uid |-> uid]]
    /\ sock' = [sock EXCEPT ![c].up = Tail(@)]

\* What a read makes of the tasks and the connection.
LEMMA ReadsTake ==
    ASSUME WatchInv, NEW s \in Servers, NEW c \in OpenClients, NEW uid \in Uids, Reads(s, c, uid)
    PROVE  /\ task' \in [Servers -> Task \cup {NoTask}] /\ sock' \in [OpenClients -> Socket]
           /\ task'[s] = [pc |-> "handle", c |-> c, piece |-> Head(sock[c].up), uid |-> uid] /\ task'[s] \in Task
           /\ \A r \in Servers \ {s} : task'[r] = task[r]
           /\ sock[c].up \in Seq(Piece) /\ sock[c].up # <<>> /\ sock'[c].up = Tail(sock[c].up) /\ sock'[c].down = sock[c].down
           /\ sock'[c].fd = sock[c].fd /\ sock'[c].srv = sock[c].srv /\ sock'[c].cli = sock[c].cli
           /\ \A d \in OpenClients \ {c} : sock'[d] = sock[d]
           /\ cli[c].csfd # "none"
<1>1. /\ sock \in [OpenClients -> Socket] /\ task \in [Servers -> Task \cup {NoTask}] /\ sock[c].up \in Seq(Piece)
      /\ sock[c].up # <<>> /\ sock[c] \in Socket
  BY DEF WatchInv, OpendTypes, Socket, Reads
<1>2. Head(sock[c].up) \in Piece /\ Tail(sock[c].up) \in Seq(Piece)
  BY <1>1
<1>3. [pc |-> "handle", c |-> c, piece |-> Head(sock[c].up), uid |-> uid] \in Task
  BY <1>2 DEF Task
<1>4. /\ task' \in [Servers -> Task \cup {NoTask}]
      /\ task'[s] = [pc |-> "handle", c |-> c, piece |-> Head(sock[c].up), uid |-> uid] /\ task'[s] \in Task
      /\ \A r \in Servers \ {s} : task'[r] = task[r]
  BY <1>1, <1>3 DEF Reads
<1>5. sock' = [sock EXCEPT ![c] = [sock[c] EXCEPT !.up = Tail(sock[c].up)]]
  BY <1>1 DEF Reads
<1>6. LET g == [sock[c] EXCEPT !.up = Tail(sock[c].up)]
      IN  g \in Socket /\ g.up = Tail(sock[c].up) /\ g.down = sock[c].down /\ g.fd = sock[c].fd /\ g.srv = sock[c].srv /\ g.cli = sock[c].cli
  BY <1>1, <1>2 DEF Socket
<1>7. cli[c].csfd # "none"
  BY <1>1 DEF WatchInv, Connections
<1> QED
  BY <1>1, <1>4, <1>5, <1>6, <1>7

\* One entry of a scan: a request is read, or the client is gone.
LEMMA EntryIsWatched == WatchInv /\ ServeEntry => WatchInv'
<1> SUFFICES ASSUME WatchInv, ServeEntry PROVE WatchInv'
  OBVIOUS
<1> DEFINE j == Min(ReadyEntries)
           fd == IF loop = "select" THEN client[j].fd ELSE pollfd[j].fd
           c == Owner(fd)
           hup == loop = "poll" /\ pollfd[j].revents = "hup"
<1>1. /\ serv.pc = "scan" /\ task[Opener] = NoTask /\ ReadyEntries # {} /\ UNCHANGED <<loop, cli, errmsg, mishaps, lines>>
      /\ Running /\ serv \in Loop /\ errmsg \in [Servers -> About] /\ mishaps \in Nat /\ Opener \in Servers
  BY DEF ServeEntry, Running, WatchInv, OpendTypes, Servers
<1>2. ServedEntry(j, fd, c)
  <2> HIDE DEF j
  <2>1. j = Min(ReadyEntries)
    BY DEF j
  <2> QED
    BY <1>1, <2>1, ServedIsOpen
<1>3. CASE /\ ~hup /\ sock[c].up # <<>>
           /\ task' = [task EXCEPT ![Opener] = [pc |-> "handle", c |-> c, piece |-> Head(sock[c].up), uid |-> client[j].uid]]
           /\ sock' = [sock EXCEPT ![c].up = Tail(@)]
           /\ serv' = [serv EXCEPT !.i = j + 1]
           /\ UNCHANGED <<backlog, client, pollfd>>
  <2> DEFINE uid == client[j].uid
  <2>1. Reads(Opener, c, uid)
    BY <1>3 DEF Reads
  <2>2. /\ c \in OpenClients /\ uid \in Uids /\ j \in Nat /\ sock[c].srv /\ (loop = "select" => uid = c) /\ loop \in {"select", "poll"}
    BY <1>1, <1>2 DEF ServedEntry, WatchInv, Connections
  <2>3. j >= serv.i /\ serv.i \in Nat
    <3>1. ReadyEntries \in SUBSET Nat /\ serv.i \in Nat /\ \A k \in ReadyEntries : k >= serv.i
      BY <1>1 DEF ReadyEntries, Loop
    <3>2. j \in ReadyEntries
      BY <3>1, <1>1, LeastNumber
    <3> HIDE DEF j
    <3> QED
      BY <3>1, <3>2
  <2>4. UNCHANGED <<backlog, client, pollfd>> /\ serv' = [serv EXCEPT !.i = j + 1]
    BY <1>3
  <2> HIDE DEF j, fd, c, hup, uid
  <2>5. /\ serv' \in Loop /\ serv'.pc = serv.pc /\ serv'.allset = serv.allset /\ serv'.maxi = serv.maxi /\ serv'.numfd = serv.numfd
        /\ serv'.rset = serv.rset /\ serv'.i = j + 1
    BY <2>2, <2>4, <1>1 DEF Loop
  <2>6. /\ task' \in [Servers -> Task \cup {NoTask}] /\ sock' \in [OpenClients -> Socket]
        /\ task'[Opener].c = c /\ task'[Opener].uid = uid
        /\ \A r \in Servers \ {Opener} : task'[r] = task[r]
        /\ sock'[c].fd = sock[c].fd /\ sock'[c].srv = sock[c].srv /\ cli[c].csfd # "none"
        /\ \A d \in OpenClients \ {c} : sock'[d] = sock[d]
    <3>1. /\ task' \in [Servers -> Task \cup {NoTask}] /\ sock' \in [OpenClients -> Socket]
          /\ task'[Opener] = [pc |-> "handle", c |-> c, piece |-> Head(sock[c].up), uid |-> uid]
          /\ \A r \in Servers \ {Opener} : task'[r] = task[r]
      BY <1>1, <2>1, <2>2, ReadsTake
    <3>2. /\ sock'[c].fd = sock[c].fd /\ sock'[c].srv = sock[c].srv /\ cli[c].csfd # "none"
          /\ \A d \in OpenClients \ {c} : sock'[d] = sock[d]
      BY <1>1, <2>1, <2>2, ReadsTake
    <3> QED
      BY <3>1, <3>2
  <2>7. OpendTypes'
    BY <1>1, <2>4, <2>5, <2>6 DEF WatchInv, OpendTypes
  <2>8. Handled'
    <3>1. Opener \notin OpenClients
      BY OpendAssumption DEF Opener
    <3>2. \A d \in OpenClients : task'[d] = NoTask
      BY <2>2, <2>6, <3>1 DEF WatchInv, Handled, Servers
    <3> QED
      BY <1>1, <2>2, <2>5, <2>6, <3>2 DEF Handled, Running, Servers
  <2>9. serv'.i >= serv.i
    BY <2>2, <2>3, <2>5
  <2>10. \A d \in OpenClients : /\ sock'[d].fd = sock[d].fd /\ sock'[d].srv = sock[d].srv
                                 /\ (cli[d].csfd = "none" => sock'[d].up = sock[d].up)
    BY <2>6
  <2> QED
    BY <1>1, <2>4, <2>5, <2>7, <2>8, <2>9, <2>10, RequestsAreWatched
<1>4. CASE Remove(fd, j) /\ UNCHANGED <<backlog, task>>
  <2>1. c = Owner(fd)
    OBVIOUS
  <2> HIDE DEF j, fd, c
  <2> QED
    BY <1>1, <1>2, <1>4, <2>1, RemoveIsWatched
<1>5. CASE ServerEnds(Opener) /\ UNCHANGED <<client, pollfd>>
  BY <1>1, <1>5, EndIsWatched
<1> QED
  BY <1>3, <1>4, <1>5 DEF ServeEntry

\* main of opend.fe reads a request, or exits.
LEMMA ForkedReadIsWatched == ASSUME NEW c \in OpenClients, WatchInv, ForkedRead(c) PROVE WatchInv'
<1>1. /\ loop = "fe" /\ sock[c].srv /\ task[c] = NoTask /\ UNCHANGED <<loop, cli, client, pollfd, errmsg, mishaps, lines>>
      /\ c \in Servers /\ c # Opener /\ errmsg \in [Servers -> About] /\ mishaps \in Nat /\ serv \in Loop /\ c \in Uids
  BY OpendAssumption DEF ForkedRead, Servers, WatchInv, OpendTypes, Opener, Uids
<1>2. CASE Reads(c, c, c) /\ UNCHANGED <<serv, backlog>>
  <2>1. /\ task' \in [Servers -> Task \cup {NoTask}] /\ sock' \in [OpenClients -> Socket]
        /\ task'[c].c = c /\ task'[c].uid = c
        /\ \A r \in Servers \ {c} : task'[r] = task[r]
        /\ sock'[c].fd = sock[c].fd /\ sock'[c].srv = sock[c].srv /\ cli[c].csfd # "none"
        /\ \A d \in OpenClients \ {c} : sock'[d] = sock[d]
    <3>1. /\ task' \in [Servers -> Task \cup {NoTask}] /\ sock' \in [OpenClients -> Socket]
          /\ task'[c] = [pc |-> "handle", c |-> c, piece |-> Head(sock[c].up), uid |-> c]
          /\ \A r \in Servers \ {c} : task'[r] = task[r]
      BY <1>1, <1>2, ReadsTake
    <3>2. /\ sock'[c].fd = sock[c].fd /\ sock'[c].srv = sock[c].srv /\ cli[c].csfd # "none"
          /\ \A d \in OpenClients \ {c} : sock'[d] = sock[d]
      BY <1>1, <1>2, ReadsTake
    <3> QED
      BY <3>1, <3>2
  <2>2. OpendTypes'
    BY <1>1, <1>2, <2>1 DEF WatchInv, OpendTypes
  <2>3. Handled'
    <3>1. /\ \A d \in OpenClients : task[d] # NoTask => task[d].c = d
          /\ \A t \in Servers : task[t] # NoTask => sock[task[t].c].srv /\ (loop # "poll" => task[t].uid = task[t].c)
          /\ serv.pc = "start" /\ task[Opener] = NoTask
      BY <1>1 DEF WatchInv, Handled, Running
    <3>2. \A d \in OpenClients : task'[d] # NoTask => task'[d].c = d
      BY <2>1, <3>1 DEF Servers
    <3>3. \A t \in Servers : task'[t] # NoTask => sock'[task'[t].c].srv /\ (loop # "poll" => task'[t].uid = task'[t].c)
      <4> SUFFICES ASSUME NEW t \in Servers, task'[t] # NoTask PROVE sock'[task'[t].c].srv /\ (loop # "poll" => task'[t].uid = task'[t].c)
        OBVIOUS
      <4>1. CASE t = c
        BY <4>1, <2>1, <1>1
      <4>2. CASE t # c
        <5>1. task'[t] = task[t] /\ t \in OpenClients
          BY <4>2, <2>1, <3>1, <1>1 DEF Servers
        <5> QED
          BY <5>1, <4>2, <2>1, <3>1
      <4> QED
        BY <4>1, <4>2
    <3>4. task'[Opener] = NoTask
      BY <2>1, <3>1, <1>1 DEF Servers
    <3> QED
      BY <1>1, <1>2, <3>1, <3>2, <3>3, <3>4 DEF Handled, Running
  <2>4. serv.i >= serv.i
    BY <1>1 DEF Loop
  <2> QED
    BY <1>1, <1>2, <2>1, <2>2, <2>3, <2>4, RequestsAreWatched
<1>3. CASE ServerEnds(c)
  BY <1>1, <1>3, EndIsWatched
<1> QED
  BY <1>2, <1>3 DEF ForkedRead, Reads

\* Items are written to the connection of c: a part of the answer.
LEMMA SendsAdd ==
    ASSUME WatchInv, NEW c \in OpenClients, NEW items \in Seq(Item), SendTo(c, items)
    PROVE  /\ sock' \in [OpenClients -> Socket] /\ sock[c].down \in Seq(Item) /\ sock'[c].down = sock[c].down \o items
           /\ sock'[c].up = sock[c].up /\ sock'[c].fd = sock[c].fd /\ sock'[c].srv = sock[c].srv /\ sock'[c].cli = sock[c].cli
           /\ \A d \in OpenClients \ {c} : sock'[d] = sock[d]
<1>1. sock \in [OpenClients -> Socket] /\ sock[c] \in Socket /\ sock[c].down \in Seq(Item)
  BY DEF WatchInv, OpendTypes, Socket
<1>2. sock[c].down \o items \in Seq(Item)
  BY <1>1, ConcatProperties
<1>3. sock' = [sock EXCEPT ![c] = [sock[c] EXCEPT !.down = sock[c].down \o items]]
  BY <1>1 DEF SendTo
<1>4. LET g == [sock[c] EXCEPT !.down = sock[c].down \o items]
      IN  g \in Socket /\ g.down = sock[c].down \o items /\ g.up = sock[c].up /\ g.fd = sock[c].fd /\ g.srv = sock[c].srv /\ g.cli = sock[c].cli
  BY <1>1, <1>2 DEF Socket
<1> QED
  BY <1>1, <1>3, <1>4

\* A step of a server on the request it handles keeps the watch.
LEMMA TaskStepIsWatched ==
    ASSUME WatchInv, NEW s \in Servers, task[s] # NoTask, UNCHANGED <<loop, cli, backlog, serv, client, pollfd, mishaps, lines>>,
           sock' \in [OpenClients -> Socket], errmsg' \in [Servers -> About],
           \A c \in OpenClients : sock'[c].fd = sock[c].fd /\ sock'[c].srv = sock[c].srv /\ sock'[c].up = sock[c].up,
           task' \in [Servers -> Task \cup {NoTask}],
           \A r \in Servers \ {s} : task'[r] = task[r],
           task'[s] # NoTask => task'[s].c = task[s].c /\ task'[s].uid = task[s].uid
    PROVE  WatchInv'
<1>1. OpendTypes'
  BY DEF WatchInv, OpendTypes
<1>2. \A r \in Servers : task'[r] # NoTask => task[r] # NoTask /\ task'[r].c = task[r].c /\ task'[r].uid = task[r].uid
  OBVIOUS
<1>3. \A r \in Servers : task[r] # NoTask => task[r].c \in OpenClients
  BY DEF WatchInv, OpendTypes, Task
<1>4. Opener \in Servers /\ \A c \in OpenClients : c \in Servers
  BY DEF Servers
<1>5. Handled'
  <2>1. loop' # "fe" => \A c \in OpenClients : task'[c] = NoTask
    BY <1>2, <1>4 DEF WatchInv, Handled
  <2>2. ~Running' => task'[Opener] = NoTask
    BY <1>2, <1>4 DEF WatchInv, Handled, Running
  <2>3. \A c \in OpenClients : task'[c] # NoTask => task'[c].c = c
    BY <1>2, <1>4 DEF WatchInv, Handled
  <2>4. \A r \in Servers : task'[r] # NoTask => sock'[task'[r].c].srv /\ (loop' # "poll" => task'[r].uid = task'[r].c)
    BY <1>2, <1>3 DEF WatchInv, Handled
  <2>5. loop' \in {"none", "fe"} => serv'.pc = "start"
    BY DEF WatchInv, Handled
  <2> QED
    BY <2>1, <2>2, <2>3, <2>4, <2>5 DEF Handled
<1>6. serv'.i >= serv.i
  BY DEF WatchInv, OpendTypes, Loop
<1> QED
  BY <1>1, <1>5, <1>6, RequestsAreWatched

\* The server a request is handled by runs, or is the client's own.
LEMMA HandlersRun ==
    ASSUME WatchInv, NEW s \in Servers, task[s] # NoTask
    PROVE  (s = Opener => Running) /\ (s # Opener => loop = "fe") /\ task[s] \in Task /\ task[s].c \in OpenClients
             /\ task[s].piece \in Piece /\ task[s].uid \in Uids /\ task[s].pc \in {"handle", "status"}
<1>1. task[s] \in Task
  BY DEF WatchInv, OpendTypes
<1> QED
  BY <1>1 DEF WatchInv, Handled, Servers, Task

\* What handle_request writes to the client, and to errmsg.
Answer(s) ==
    LET t == task[s]
    IN  IF t.piece.kind = "file" THEN <<[type |-> "fd", about |-> [n |-> t.piece.n, uid |-> t.c]]>>
        ELSE IF Complaint(s) = NoText THEN <<>> ELSE <<[type |-> "text", about |-> Complaint(s)]>>

\* The answers have the types of the items a client reads.
LEMMA AnswersAreTyped ==
    ASSUME WatchInv, NEW s \in Servers, task[s] # NoTask
    PROVE  /\ Complaint(s) \in About /\ Answer(s) \in Seq(Item)
           /\ <<[type |-> "status", about |-> [n |-> task[s].piece.n, uid |-> task[s].c]]>> \in Seq(Item)
<1>1. /\ task[s].c \in OpenClients /\ task[s].piece \in Piece /\ task[s].uid \in Uids /\ errmsg[s] \in About
  BY HandlersRun DEF WatchInv, OpendTypes
<1>2. task[s].piece.n \in Nat /\ task[s].c \in Uids
  BY <1>1 DEF Piece, Uids
<1>3. Complaint(s) \in About
  BY <1>1, <1>2 DEF Complaint, About
<1>4. [n |-> task[s].piece.n, uid |-> task[s].c] \in About
  BY <1>2 DEF About
<1>5. \A a \in About, ty \in {"fd", "text", "status"} : [type |-> ty, about |-> a] \in Item
  BY DEF Item
<1>6. \A x \in Item : <<x>> \in Seq(Item)
  OBVIOUS
<1>7. <<>> \in Seq(Item)
  OBVIOUS
<1>8. Answer(s) \in Seq(Item)
  BY <1>3, <1>4, <1>5, <1>6, <1>7 DEF Answer
<1> QED
  BY <1>3, <1>4, <1>5, <1>6, <1>8

\* handle_request, when the client is there.
Handles(s) ==
    LET t == task[s]
        ok == t.piece.kind = "file"
    IN  /\ SendTo(t.c, Answer(s))
        /\ task' = [task EXCEPT ![s] = IF ok THEN NoTask ELSE [@ EXCEPT !.pc = "status"]]
        /\ errmsg' = [errmsg EXCEPT ![s] = IF ok THEN @ ELSE Complaint(s)]
        /\ UNCHANGED <<serv, backlog>>

\* What handle_request makes of the task and the text.
LEMMA HandlesSets ==
    ASSUME WatchInv, NEW s \in Servers, task[s] # NoTask, Handles(s)
    PROVE  LET ok == task[s].piece.kind = "file"
           IN  /\ task' \in [Servers -> Task \cup {NoTask}] /\ \A r \in Servers \ {s} : task'[r] = task[r]
               /\ ok => task'[s] = NoTask
               /\ ~ok => /\ task'[s] # NoTask /\ task'[s].pc = "status" /\ task'[s].c = task[s].c /\ task'[s].uid = task[s].uid
                         /\ task'[s].piece = task[s].piece
               /\ errmsg' \in [Servers -> About]
<1>1. /\ task \in [Servers -> Task \cup {NoTask}] /\ errmsg \in [Servers -> About] /\ task[s] \in Task /\ Complaint(s) \in About
  BY HandlersRun, AnswersAreTyped DEF WatchInv, OpendTypes
<1> DEFINE t == [task[s] EXCEPT !.pc = "status"]
<1>2. t \in Task /\ t.pc = "status" /\ t.c = task[s].c /\ t.uid = task[s].uid /\ t.piece = task[s].piece
  BY <1>1 DEF Task
<1>3. t # NoTask
  BY <1>2 DEF NoTask
<1>4. task' = [task EXCEPT ![s] = IF task[s].piece.kind = "file" THEN NoTask ELSE t]
  BY <1>1 DEF Handles
<1>5. errmsg' = [errmsg EXCEPT ![s] = IF task[s].piece.kind = "file" THEN errmsg[s] ELSE Complaint(s)]
  BY <1>1 DEF Handles
<1>6. errmsg' \in [Servers -> About]
  BY <1>1, <1>5
<1> HIDE DEF t
<1>7. task' \in [Servers -> Task \cup {NoTask}] /\ task'[s] = (IF task[s].piece.kind = "file" THEN NoTask ELSE t) /\ \A r \in Servers \ {s} : task'[r] = task[r]
  BY <1>1, <1>2, <1>4
<1> QED
  BY <1>2, <1>3, <1>6, <1>7

\* handle_request answers, or the server is killed because the client is gone.
LEMMA HandleIsWatched == ASSUME NEW s \in Servers, WatchInv, handle_request(s) PROVE WatchInv'
<1>1. /\ task[s].pc = "handle" /\ UNCHANGED <<loop, cli, client, pollfd, mishaps, lines>> /\ task[s] # NoTask
      /\ errmsg \in [Servers -> About] /\ mishaps \in Nat
  BY DEF handle_request, NoTask, WatchInv, OpendTypes
<1>2. CASE ServerEnds(s) /\ UNCHANGED errmsg
  BY <1>1, <1>2, HandlersRun, EndIsWatched
<1>3. CASE Handles(s)
  <2> DEFINE c == task[s].c
  <2>1. c \in OpenClients /\ Answer(s) \in Seq(Item) /\ SendTo(c, Answer(s))
    BY <1>1, <1>3, HandlersRun, AnswersAreTyped DEF Handles
  <2> HIDE DEF c
  <2>2. /\ sock' \in [OpenClients -> Socket]
        /\ \A d \in OpenClients : sock'[d].fd = sock[d].fd /\ sock'[d].srv = sock[d].srv /\ sock'[d].up = sock[d].up
    BY <2>1, SendsAdd
  <2>3. /\ task' \in [Servers -> Task \cup {NoTask}] /\ \A r \in Servers \ {s} : task'[r] = task[r]
        /\ task'[s] # NoTask => task'[s].c = task[s].c /\ task'[s].uid = task[s].uid
        /\ errmsg' \in [Servers -> About]
    BY <1>1, <1>3, HandlesSets
  <2>4. UNCHANGED <<serv, backlog>>
    BY <1>3 DEF Handles
  <2> QED
    BY <1>1, <2>2, <2>3, <2>4, TaskStepIsWatched
<1> QED
  BY <1>2, <1>3 DEF handle_request, Handles, Answer

\* The status is sent, and ends the answer.
LEMMA StatusIsWatched == ASSUME NEW s \in Servers, WatchInv, SendStatus(s) PROVE WatchInv'
<1>1. /\ task[s].pc = "status" /\ UNCHANGED <<loop, cli, client, pollfd, errmsg, mishaps, lines>> /\ task[s] # NoTask
      /\ errmsg \in [Servers -> About] /\ mishaps \in Nat /\ task \in [Servers -> Task \cup {NoTask}]
  BY DEF SendStatus, NoTask, WatchInv, OpendTypes
<1>2. CASE ServerEnds(s)
  BY <1>1, <1>2, HandlersRun, EndIsWatched
<1> DEFINE c == task[s].c
           x == <<[type |-> "status", about |-> [n |-> task[s].piece.n, uid |-> task[s].c]]>>
<1>3. CASE SendTo(c, x) /\ task' = [task EXCEPT ![s] = NoTask] /\ UNCHANGED <<serv, backlog>>
  <2>1. c \in OpenClients /\ x \in Seq(Item)
    BY <1>1, HandlersRun, AnswersAreTyped
  <2> HIDE DEF c, x
  <2>2. /\ sock' \in [OpenClients -> Socket]
        /\ \A d \in OpenClients : sock'[d].fd = sock[d].fd /\ sock'[d].srv = sock[d].srv /\ sock'[d].up = sock[d].up
    BY <1>3, <2>1, SendsAdd
  <2>3. /\ task' \in [Servers -> Task \cup {NoTask}] /\ task'[s] = NoTask /\ \A r \in Servers \ {s} : task'[r] = task[r]
    BY <1>1, <1>3
  <2> QED
    BY <1>1, <1>3, <2>2, <2>3, TaskStepIsWatched
<1> QED
  BY <1>2, <1>3 DEF SendStatus

\* The connections the server has open are the ones it watches: the invariant is
\* kept by every step of the server, of the forked servers and of the clients.
LEMMA WatchStep == WatchInv /\ [OpendNext]_opendVars => WatchInv'
<1> SUFFICES ASSUME WatchInv, [OpendNext]_opendVars PROVE WatchInv'
  OBVIOUS
<1>1. CASE StartOpend
  BY <1>1, StartIsWatched
<1>2. CASE ServerLoop
  BY <1>2, ListenIsWatched, SelectIsWatched, PollIsWatched, AcceptIsWatched, EntryIsWatched, ScanEndIsWatched DEF ServerLoop
<1>3. ASSUME NEW s \in Servers, ServerStep(s) PROVE WatchInv'
  BY <1>3, HandleIsWatched, StatusIsWatched DEF ServerStep
<1>4. ASSUME NEW c \in OpenClients,
             ForkedRead(c) \/ cli_conn(c) \/ ForkServer(c) \/ csopen(c) \/ recv_fd(c) \/ ClientExit(c) \/ KillClient(c)
      PROVE  WatchInv'
  BY <1>4, ForkedReadIsWatched, ConnIsWatched, ForkIsWatched, csopenIsWatched, recvIsWatched, ExitIsWatched
<1>5. CASE UNCHANGED opendVars
  <2>1. UNCHANGED <<loop, cli, sock, backlog, serv, client, pollfd, task, errmsg, lines, mishaps>>
    BY <1>5 DEF opendVars
  <2>2. OpendTypes' /\ Connections' /\ Handled'
    BY <2>1 DEF WatchInv, OpendTypes, Connections, Handled, Running
  <2>3. \A c \in OpenClients : sock'[c].fd = sock[c].fd /\ (sock[c].srv => sock'[c].srv)
    BY <2>1
  <2> QED
    BY <2>1, <2>2, <2>3, ClientsStayAway
<1> QED
  BY <1>1, <1>2, <1>3, <1>4, <1>5 DEF OpendNext

\* The invariant holds at the start.
LEMMA WatchInit == OpendInit => WatchInv
<1> SUFFICES ASSUME OpendInit PROVE WatchInv
  OBVIOUS
<1>1. /\ NoTask \in Task \cup {NoTask} /\ NoText \in About /\ Opener \in Uids
  BY DEF NoText, About, Uids
<1>2. [pc |-> "main", csfd |-> "none", line |-> 0, kind |-> "none", long |-> FALSE, answer |-> "none", for |-> 0, printed |-> {}] \in Client
  BY DEF Client
<1>3. [up |-> <<>>, down |-> <<>>, fd |-> Free, cli |-> FALSE, srv |-> FALSE, reset |-> FALSE] \in Socket
  BY DEF Socket
<1>4. [pc |-> "start", i |-> 1, rset |-> {}, allset |-> {}, maxi |-> 0, numfd |-> 0] \in Loop
  BY DEF Loop
<1>5. <<>> \in Seq(OpenClients) /\ <<>> \in Seq(Entry) /\ <<>> \in Seq(PollEntry)
  OBVIOUS
<1>6. OpendTypes
  BY <1>1, <1>2, <1>3, <1>4, <1>5 DEF OpendInit, OpendTypes
<1>7. Connections
  BY DEF OpendInit, Connections, Running
<1>8. Watched /\ Handled
  BY DEF OpendInit, Watched, Handled, Running, Servers
<1> QED
  BY <1>6, <1>7, <1>8 DEF WatchInv

\* The invariant says what WatchedAreOpen says (loop.select.c, loop.poll.c, client.c).
LEMMA WatchedOpen == WatchInv => WatchedAreOpen
<1> SUFFICES ASSUME WatchInv, Running PROVE WatchedAreOpen
  BY DEF WatchedAreOpen, Running
<1> DEFINE open == OpenFds(sock)
           inTable == {i \in DOMAIN client : client[i].fd \notin {Free, listenfd}}
<1>1. /\ sock \in [OpenClients -> Socket] /\ client \in Seq(Entry) /\ DOMAIN client = 1..Len(client) /\ loop \in {"select", "poll"}
  BY DEF WatchInv, OpendTypes, Connections
<1>2. Free \notin open /\ listenfd \notin open /\ open = {sock[c].fd : c \in OpenClients} \ {Free}
  BY <1>1, DescriptorsAreFinite DEF OpenFds
<1> HIDE DEF open
<1>3. CASE loop = "select"
  <2>1. SelectOf(client, serv, sock) /\ TableOf(client, sock, open)
    BY <1>3 DEF WatchInv, Watched, SelectOf, open
  <2>2. {client[i].fd : i \in inTable} = open
    <3>1. \A i \in inTable : client[i].fd \in open
      BY <2>1, <1>1, <1>2 DEF TableOf
    <3>2. \A fd \in open : \E i \in inTable : client[i].fd = fd
      BY <2>1, <1>1, <1>2 DEF TableOf
    <3> QED
      BY <3>1, <3>2
  <2>3. \A i, j \in inTable : client[i].fd = client[j].fd => i = j
    BY <2>1, <1>1 DEF TableOf
  <2>4. serv.allset = open \cup {listenfd} /\ \A i \in inTable : i <= serv.maxi
    BY <2>1, <1>1 DEF SelectOf, open
  <2> QED
    BY <2>2, <2>3, <2>4, <1>2, <1>3 DEF WatchedAreOpen
<1>4. CASE loop = "poll"
  <2>1. PollOf(client, pollfd, serv, sock) /\ TableOf(client, sock, open \cup {listenfd}) /\ serv.numfd \in Nat
    BY <1>4 DEF WatchInv, Watched, PollOf, open, OpendTypes, Loop
  <2>2. {client[i].fd : i \in inTable} = open
    <3>1. \A i \in inTable : client[i].fd \in open
      BY <2>1, <1>1, <1>2 DEF TableOf
    <3>2. \A fd \in open : \E i \in inTable : client[i].fd = fd
      BY <2>1, <1>1, <1>2 DEF TableOf
    <3> QED
      BY <3>1, <3>2
  <2>3. \A i, j \in inTable : client[i].fd = client[j].fd => i = j
    BY <2>1, <1>1 DEF TableOf
  <2>4. serv.numfd = Cardinality(open) + 1
    BY <2>1 DEF PollOf, open
  <2>5. {pollfd[i].fd : i \in 1..serv.numfd} = open \cup {listenfd}
    <3>1. serv.numfd >= 1 /\ pollfd[1].fd = listenfd /\ \A i \in 2..serv.numfd : pollfd[i].fd \in open
      BY <2>1 DEF PollOf, open
    <3>2. \A fd \in open : \E i \in 2..serv.numfd : pollfd[i].fd = fd
      BY <2>1 DEF PollOf, open
    <3>3. 1 \in 1..serv.numfd /\ \A i \in 1..serv.numfd : i = 1 \/ i \in 2..serv.numfd
      BY <3>1, <2>1
    <3>4. \A i \in 2..serv.numfd : i \in 1..serv.numfd
      BY <2>1
    <3>5. \A fd \in open \cup {listenfd} : \E i \in 1..serv.numfd : pollfd[i].fd = fd
      BY <3>1, <3>2, <3>3, <3>4
    <3>6. \A i \in 1..serv.numfd : pollfd[i].fd \in open \cup {listenfd}
      BY <3>1, <3>3
    <3> QED
      BY <3>5, <3>6
  <2> QED
    BY <2>2, <2>3, <2>4, <2>5, <1>2, <1>4 DEF WatchedAreOpen
<1> QED
  BY <1>1, <1>3, <1>4

\* For any number of clients: the tables of the loops hold exactly the open
\* connections, each once, and select or poll is asked about exactly them
\* (loop.select.c, loop.poll.c, client.c).
THEOREM TheServerWatchesWhatIsOpen == OpendSpec => []WatchedAreOpen
<1>1. OpendInit => WatchInv
  BY WatchInit
<1>2. WatchInv => WatchedAreOpen
  BY WatchedOpen
<1> QED
  BY <1>1, <1>2, WatchStep, PTL DEF OpendSpec

-----------------------------------------------------------------------------
(* csopen returns the answer to what was asked. *)

\* A step that neither asks nor answers the client c.
Stays(k, kp, so, sp, tk, tp, c, lp, lq) ==
    /\ kp.pc = k.pc /\ kp.line = k.line /\ kp.kind = k.kind /\ kp.long = k.long
    /\ kp.answer = k.answer /\ kp.for = k.for /\ kp.printed = k.printed
    /\ sp.down = so.down /\ (sp.srv => sp.up = <<>> \/ (so.srv /\ sp.up = so.up))
    /\ \A s \in Servers : IsOn(tp[s], c) => tp[s] = tk[s]
    /\ lq # "poll" => lp # "poll"

\* Such a step leaves what the client will be told as it was.
LEMMA HonestStays ==
    ASSUME NEW k, NEW kp, NEW so, NEW sp, NEW tk, NEW tp, NEW c, NEW lp, NEW lq,
           Honest(k, so, tk, c, lp), Stays(k, kp, so, sp, tk, tp, c, lp, lq)
    PROVE  Honest(kp, sp, tp, c, lq)
<1>1. OnIt(tp, c) => OnIt(tk, c)
  BY DEF OnIt, Stays
<1>2. \A t : RightText(k, c, lp, t) => RightText(kp, c, lq, t)
  BY DEF RightText, Stays
<1>3. \A x : RightItem(k, c, lp, x) => RightItem(kp, c, lq, x)
  BY <1>2 DEF RightItem, Stays
<1>4. RightAnswer(k, c, lp) => RightAnswer(kp, c, lq)
  BY <1>2 DEF RightAnswer, Stays
<1>5. Idling(k, so, tk, c) => Idling(kp, sp, tp, c)
  BY <1>1 DEF Idling, Stays
<1>6. Request(kp) = Request(k)
  BY DEF Request, Stays
<1>7. ASSUME Waiting(k, so, tk, c, lp) PROVE Waiting(kp, sp, tp, c, lq)
  <2>1. \A t \in kp.printed : RightText(kp, c, lq, t)
    BY <1>2, <1>7 DEF Waiting, Stays
  <2>2. \A i \in 1..Len(sp.down) : /\ RightItem(kp, c, lq, sp.down[i])
                                   /\ sp.down[i].type # "text" => i = Len(sp.down) /\ ~OnIt(tp, c)
    BY <1>1, <1>3, <1>7 DEF Waiting, Stays
  <2>3. sp.srv /\ sp.up # <<>> => sp.up = <<Request(kp)>> /\ sp.down = <<>> /\ ~OnIt(tp, c)
    BY <1>1, <1>6, <1>7 DEF Waiting, Stays
  <2>4. \A s \in Servers : IsOn(tp[s], c) => tp[s].piece = Request(kp) /\ (tp[s].pc = "status" => kp.kind # "file")
    BY <1>6, <1>7 DEF Waiting, Stays
  <2> QED
    BY <2>1, <2>2, <2>3, <2>4 DEF Waiting
<1> QED
  BY <1>4, <1>5, <1>7 DEF Honest, Stays

\* The client d is not concerned by the step.
Bystander(d) == Stays(cli[d], cli'[d], sock[d], sock'[d], task, task', d, loop, loop')

\* The bystanders of a step hear what they would have heard.
LEMMA BystandersStay ==
    ASSUME Answers, NEW C, C \subseteq OpenClients, \A d \in OpenClients \ C : Bystander(d),
           \A d \in C : Honest(cli'[d], sock'[d], task', d, loop')
    PROVE  Answers'
<1>1. ASSUME NEW d \in OpenClients \ C PROVE Honest(cli'[d], sock'[d], task', d, loop')
  <2>1. Honest(cli[d], sock[d], task, d, loop) /\ Bystander(d)
    BY DEF Answers
  <2> QED
    BY <2>1, HonestStays DEF Bystander
<1>2. \A d \in OpenClients : Honest(cli'[d], sock'[d], task', d, loop')
  BY <1>1
<1> QED
  BY <1>2 DEF Answers

\* A step that concerns one client.
LEMMA OneIsConcerned ==
    ASSUME Answers, NEW c \in OpenClients, \A d \in OpenClients \ {c} : Bystander(d),
           Honest(cli'[c], sock'[c], task', c, loop')
    PROVE  Answers'
<1> DEFINE C == {c}
<1>1. C \subseteq OpenClients /\ (\A d \in OpenClients \ C : Bystander(d)) /\ \A d \in C : Honest(cli'[d], sock'[d], task', d, loop')
  OBVIOUS
<1> HIDE DEF C
<1> QED
  BY <1>1, BystandersStay

\* What is not told anything: steps that leave the clients, their answers and the
\* requests at the servers alone.
LEMMA QuietStep ==
    ASSUME Answers, UNCHANGED cli, loop' # "poll" => loop # "poll",
           \A d \in OpenClients : sock'[d].down = sock[d].down /\ (sock'[d].srv => sock'[d].up = <<>> \/ (sock[d].srv /\ sock'[d].up = sock[d].up)),
           \A s \in Servers : task'[s] = NoTask \/ task'[s] = task[s]
    PROVE  Answers'
<1>1. \A d \in OpenClients : Bystander(d)
  BY DEF Bystander, Stays, IsOn
<1>2. {} \subseteq OpenClients /\ OpenClients \ {} = OpenClients
  OBVIOUS
<1> QED
  BY <1>1, <1>2, BystandersStay

\* The server that ends answers nobody any more.
LEMMA EndIsQuiet ==
    ASSUME OpendInv, NEW s \in Servers, ServerEnds(s), UNCHANGED <<loop, cli>>
    PROVE  Answers'
<1>1. sock \in [OpenClients -> Socket] /\ task \in [Servers -> Task \cup {NoTask}] /\ Answers
  BY DEF OpendInv, WatchInv, OpendTypes
<1>2. \A r \in Servers : task'[r] = NoTask \/ task'[r] = task[r]
  BY <1>1 DEF ServerEnds
<1>3. \A k \in Socket : LET g == [k EXCEPT !.srv = FALSE] IN g.down = k.down /\ g.up = k.up /\ ~g.srv
  BY DEF Socket
<1>4. \A d \in OpenClients : sock'[d] = sock[d] \/ sock'[d] = [sock[d] EXCEPT !.srv = FALSE]
  <2>1. CASE s = Opener
    BY <2>1, <1>1 DEF ServerEnds
  <2>2. CASE s # Opener
    BY <2>2, <1>1 DEF ServerEnds, Servers
  <2> QED
    BY <2>1, <2>2
<1>5. \A d \in OpenClients : sock'[d].down = sock[d].down /\ (sock'[d].srv => sock'[d].up = <<>> \/ (sock[d].srv /\ sock'[d].up = sock[d].up))
  <2> SUFFICES ASSUME NEW d \in OpenClients
               PROVE  sock'[d].down = sock[d].down /\ (sock'[d].srv => sock'[d].up = <<>> \/ (sock[d].srv /\ sock'[d].up = sock[d].up))
    OBVIOUS
  <2>1. sock[d] \in Socket
    BY <1>1
  <2>2. CASE sock'[d] = sock[d]
    BY <2>1, <2>2
  <2>3. CASE sock'[d] = [sock[d] EXCEPT !.srv = FALSE]
    BY <2>1, <2>3, <1>3
  <2> QED
    BY <1>4, <2>2, <2>3
<1> QED
  BY <1>1, <1>2, <1>5, QuietStep

\* A client that closes its end is told nothing.
LEMMA HangUpIsHonest ==
    ASSUME OpendInv, NEW c \in OpenClients, HangUp(c), UNCHANGED <<loop, task>>
    PROVE  Answers'
<1>1. /\ \A d \in OpenClients \ {c} : cli'[d] = cli[d] /\ sock'[d] = sock[d]
      /\ cli'[c].pc = "gone"
  BY HangUpCloses DEF OpendInv
<1>2. Honest(cli'[c], sock'[c], task', c, loop')
  BY <1>1 DEF Honest
<1>3. \A d \in OpenClients \ {c} : Bystander(d)
  <2>1. \A d \in OpenClients : sock[d] \in Socket
    BY DEF OpendInv, WatchInv, OpendTypes
  <2> QED
    BY <1>1, <2>1 DEF Bystander, Stays
<1> QED
  BY <1>2, <1>3, OneIsConcerned DEF OpendInv

\* One server handles the requests of a client: the one server, or its own.
LEMMA OneHandler ==
    ASSUME WatchInv, NEW c \in OpenClients, NEW s \in Servers, NEW r \in Servers, IsOn(task[s], c), IsOn(task[r], c)
    PROVE  s = r /\ sock[c].srv /\ (loop # "poll" => task[s].uid = c)
BY DEF WatchInv, Handled, IsOn, Servers, Running

\* A request that is read was asked by a client that waits.
LEMMA ReadIsHonest ==
    ASSUME OpendInv, NEW s \in Servers, NEW c \in OpenClients, NEW uid \in Uids, Reads(s, c, uid), sock[c].srv, task[s] = NoTask,
           UNCHANGED <<loop, cli>>
    PROVE  Answers'
<1>1. /\ task'[s] = [pc |-> "handle", c |-> c, piece |-> Head(sock[c].up), uid |-> uid]
      /\ \A r \in Servers \ {s} : task'[r] = task[r]
      /\ sock[c].up \in Seq(Piece) /\ sock[c].up # <<>> /\ sock'[c].up = Tail(sock[c].up) /\ sock'[c].down = sock[c].down
      /\ sock'[c].srv = sock[c].srv
      /\ \A d \in OpenClients \ {c} : sock'[d] = sock[d]
  BY ReadsTake DEF OpendInv
<1>2. task'[s].c = c /\ task'[s].pc = "handle" /\ task'[s].piece = Head(sock[c].up)
  BY <1>1
<1>3. \A d \in OpenClients \ {c} : Bystander(d)
  <2> SUFFICES ASSUME NEW d \in OpenClients \ {c} PROVE Bystander(d)
    OBVIOUS
  <2>1. \A r \in Servers : IsOn(task'[r], d) => task'[r] = task[r]
    BY <1>1, <1>2 DEF IsOn
  <2>2. sock[d] \in Socket /\ sock'[d] = sock[d] /\ cli'[d] = cli[d] /\ loop' = loop
    BY <1>1 DEF OpendInv, WatchInv, OpendTypes
  <2> QED
    BY <2>1, <2>2 DEF Bystander, Stays
<1> DEFINE k == cli[c] so == sock[c] sp == sock'[c]
<1>4. Honest(k, so, task, c, loop)
  BY DEF OpendInv, Answers
<1>5. ASSUME ~k.long, k.pc = "wait" PROVE Waiting(k, sp, task', c, loop)
  <2>1. Waiting(k, so, task, c, loop)
    BY <1>4, <1>5 DEF Honest
  <2>2. so.up = <<Request(k)>> /\ so.down = <<>> /\ ~OnIt(task, c)
    BY <2>1, <1>1 DEF Waiting
  <2>3. sp.up = <<>> /\ sp.down = <<>> /\ task'[s].piece = Request(k)
    BY <2>2, <1>1, <1>2
  <2>4. \A r \in Servers : IsOn(task'[r], c) => r = s
    BY <2>2, <1>1 DEF OnIt
  <2>5. \A i \in 1..Len(sp.down) : FALSE
    BY <2>3
  <2>6. \A t \in k.printed : RightText(k, c, loop, t)
    BY <2>1 DEF Waiting
  <2> HIDE DEF k, sp, so
  <2> QED
    BY <1>2, <2>3, <2>4, <2>5, <2>6 DEF Waiting
<1>6. ~k.long => k.pc # "main"
  BY <1>1, <1>4 DEF Honest, Idling
<1>7. Honest(cli'[c], sock'[c], task', c, loop')
  <2>1. cli'[c] = k /\ loop' = loop
    OBVIOUS
  <2> QED
    BY <1>5, <1>6, <2>1 DEF Honest
<1> QED
  BY <1>3, <1>7, OneIsConcerned DEF OpendInv

\* The connection is made: the client has asked nothing yet.
LEMMA MadeIsHonest ==
    ASSUME OpendInv, NEW c \in OpenClients, UNCHANGED <<loop, task>>, cli[c].csfd = "none",
           \E v \in {"open", "half"} : cli' = [cli EXCEPT ![c].csfd = v],
           sock' \in {[sock EXCEPT ![c] = [[sock[c] EXCEPT !.cli = TRUE] EXCEPT !.srv = TRUE]],
                      sock, [sock EXCEPT ![c] = [sock[c] EXCEPT !.cli = TRUE]]}
    PROVE  Answers'
<1>1. /\ cli \in [OpenClients -> Client] /\ sock \in [OpenClients -> Socket] /\ Answers /\ sock[c].up = <<>>
      /\ cli[c] \in Client /\ sock[c] \in Socket
  BY DEF OpendInv, WatchInv, OpendTypes, Connections
<1>2. PICK v \in {"open", "half"} : cli' = [cli EXCEPT ![c] = [cli[c] EXCEPT !.csfd = v]]
  BY <1>1
<1>3. LET k == cli[c] kp == [cli[c] EXCEPT !.csfd = v]
      IN  /\ kp.pc = k.pc /\ kp.line = k.line /\ kp.kind = k.kind /\ kp.long = k.long
          /\ kp.answer = k.answer /\ kp.for = k.for /\ kp.printed = k.printed
  BY <1>1 DEF Client
<1>4. cli'[c] = [cli[c] EXCEPT !.csfd = v] /\ \A d \in OpenClients \ {c} : cli'[d] = cli[d]
  BY <1>1, <1>2
<1>5. sock'[c].down = sock[c].down /\ sock'[c].up = <<>> /\ \A d \in OpenClients \ {c} : sock'[d] = sock[d]
  <2>1. LET g == [[sock[c] EXCEPT !.cli = TRUE] EXCEPT !.srv = TRUE] IN g.down = sock[c].down /\ g.up = sock[c].up
    BY <1>1 DEF Socket
  <2>2. LET g == [sock[c] EXCEPT !.cli = TRUE] IN g.down = sock[c].down /\ g.up = sock[c].up
    BY <1>1 DEF Socket
  <2> QED
    BY <1>1, <2>1, <2>2
<1>6. Bystander(c)
  BY <1>3, <1>4, <1>5 DEF Bystander, Stays
<1>7. \A d \in OpenClients \ {c} : Bystander(d)
  <2>1. \A d \in OpenClients : sock[d] \in Socket
    BY <1>1
  <2> QED
    BY <1>4, <1>5, <2>1 DEF Bystander, Stays
<1>8. Honest(cli'[c], sock'[c], task', c, loop')
  BY <1>1, <1>6, HonestStays DEF Bystander, Answers
<1> QED
  BY <1>1, <1>7, <1>8, OneIsConcerned

\* cli_conn, and csopen of open.fe.
LEMMA ConnIsHonest == ASSUME NEW c \in OpenClients, OpendInv, cli_conn(c) \/ ForkServer(c) PROVE Answers'
<1>1. UNCHANGED <<loop, task>> /\ cli[c].csfd = "none" /\ Answers /\ sock \in [OpenClients -> Socket] /\ cli \in [OpenClients -> Client]
  BY DEF cli_conn, ForkServer, OpendInv, WatchInv, OpendTypes
<1>2. CASE UNCHANGED <<cli, sock>>
  <2>1. \A d \in OpenClients : sock[d] \in Socket /\ sock'[d] = sock[d]
    BY <1>1, <1>2
  <2> QED
    BY <1>1, <1>2, <2>1, QuietStep
<1>3. CASE ~UNCHANGED <<cli, sock>>
  <2>1. \E v \in {"open", "half"} : cli' = [cli EXCEPT ![c].csfd = v]
    BY <1>3 DEF cli_conn, ForkServer
  <2>2. sock' \in {[sock EXCEPT ![c] = [[sock[c] EXCEPT !.cli = TRUE] EXCEPT !.srv = TRUE]],
                   sock, [sock EXCEPT ![c] = [sock[c] EXCEPT !.cli = TRUE]]}
    BY <1>1, <1>3 DEF cli_conn, ForkServer
  <2> QED
    BY <1>1, <2>1, <2>2, MadeIsHonest
<1> QED
  BY <1>2, <1>3

\* csopen asks: nothing of an earlier request is on the way.
LEMMA csopenIsHonest == ASSUME NEW c \in OpenClients, OpendInv, csopen(c) PROVE Answers'
<1>1. UNCHANGED <<loop, task>> /\ Answers /\ sock \in [OpenClients -> Socket] /\ cli \in [OpenClients -> Client] /\ cli[c].pc = "main"
        /\ cli[c] \in Client /\ sock[c] \in Socket /\ lines \in Nat /\ sock[c].up \in Seq(Piece)
  BY DEF csopen, OpendInv, WatchInv, OpendTypes, Socket
<1>2. CASE HangUp(c)
  BY <1>1, <1>2, HangUpIsHonest
<1>3. ASSUME NEW kind \in Lines, lines' = lines + 1,
             cli' = [cli EXCEPT ![c] = [@ EXCEPT !.pc = "wait", !.line = lines', !.kind = kind, !.long = cli[c].long \/ kind = "long",
                                                       !.answer = "none", !.for = 0, !.printed = {}]],
             sock' = [sock EXCEPT ![c].up = @ \o Pieces(kind, lines')]
      PROVE  Answers'
  <2> DEFINE k == cli[c]
             kp == [k EXCEPT !.pc = "wait", !.line = lines', !.kind = kind, !.long = k.long \/ kind = "long",
                                                       !.answer = "none", !.for = 0, !.printed = {}]
             u == sock[c].up \o Pieces(kind, lines')
             sp == [sock[c] EXCEPT !.up = u]
  <2>1. cli'[c] = kp /\ \A d \in OpenClients \ {c} : cli'[d] = cli[d]
    BY <1>1, <1>3
  <2>2. sock'[c] = sp /\ \A d \in OpenClients \ {c} : sock'[d] = sock[d]
    BY <1>1, <1>3
  <2>3. kp.pc = "wait" /\ kp.line = lines' /\ kp.kind = kind /\ kp.printed = {} /\ kp.long = (k.long \/ kind = "long")
    BY <1>1 DEF Client
  <2>4. sp.up = u /\ sp.down = sock[c].down /\ sp.srv = sock[c].srv
    BY <1>1 DEF Socket
  <2>5. ASSUME ~kp.long PROVE Waiting(kp, sp, task, c, loop)
    <3>1. ~k.long /\ kind # "long"
      BY <2>3, <2>5
    <3>2. Idling(k, sock[c], task, c)
      BY <1>1, <3>1 DEF Answers, Honest
    <3>3. sp.down = <<>> /\ ~OnIt(task, c) /\ (sp.srv => sock[c].up = <<>>)
      BY <2>4, <3>2 DEF Idling
    <3>4. Pieces(kind, lines') = <<Request(kp)>> /\ Pieces(kind, lines') \in Seq(Piece)
      <4>1. lines' \in Nat
        BY <1>1, <1>3
      <4> QED
        BY <3>1, <4>1, <2>3, PiecesAreTyped DEF Request
    <3>5. sp.srv => sp.up = <<Request(kp)>>
      <4>1. <<>> \o Pieces(kind, lines') = Pieces(kind, lines')
        BY <3>4, ConcatEmptySeq
      <4> HIDE DEF kp, sp
      <4> QED
        BY <2>4, <3>3, <3>4, <4>1 DEF u
    <3>6. \A i \in 1..Len(sp.down) : FALSE
      BY <3>3
    <3>7. \A s \in Servers : ~IsOn(task[s], c)
      BY <3>3 DEF OnIt
    <3> HIDE DEF kp, sp, k
    <3> QED
      BY <2>3, <3>3, <3>5, <3>6, <3>7 DEF Waiting
  <2> HIDE DEF kp, sp, k
  <2>6. Honest(cli'[c], sock'[c], task', c, loop')
    BY <1>1, <2>1, <2>2, <2>3, <2>5 DEF Honest
  <2>7. \A d \in OpenClients \ {c} : Bystander(d)
    <3>1. \A d \in OpenClients : sock[d] \in Socket
      BY <1>1
    <3> QED
      BY <1>1, <2>1, <2>2, <3>1 DEF Bystander, Stays
  <2> QED
    BY <1>1, <2>6, <2>7, OneIsConcerned
<1> QED
  BY <1>2, <1>3 DEF csopen

\* recv_fd prints what is the client's and returns its answer.
LEMMA recvIsHonest == ASSUME NEW c \in OpenClients, OpendInv, recv_fd(c) PROVE Answers'
<1>1. /\ UNCHANGED <<loop, task>> /\ Answers /\ sock \in [OpenClients -> Socket] /\ cli \in [OpenClients -> Client] /\ cli[c].pc = "wait"
      /\ cli[c] \in Client /\ sock[c] \in Socket /\ sock[c].down \in Seq(Item) /\ Handled
      /\ \A d \in OpenClients : sock[d] \in Socket
  BY DEF recv_fd, OpendInv, WatchInv, OpendTypes, Socket
<1>2. CASE HangUp(c)
  BY <1>1, <1>2, HangUpIsHonest
<1> DEFINE got == SubSeq(sock[c].down, 1, Received(sock[c].down))
           n == Len(got)
           last == got[n]
           texts == {got[i].about : i \in {j \in DOMAIN got : got[j].type = "text"}}
           down == sock[c].down
           rest == SubSeq(down, n + 1, Len(down))
           k == cli[c]
           so == sock[c]
<1>h. Honest(k, so, task, c, loop)
  BY <1>1 DEF Answers
<1>3. CASE /\ down # <<>>
           /\ sock' = [sock EXCEPT ![c].down = SubSeq(@, Len(got) + 1, Len(@))]
           /\ cli' = [cli EXCEPT ![c].printed = @ \cup texts,
                                    ![c].pc = IF last.type = "text" THEN "wait" ELSE "main",
                                    ![c].answer = IF last.type = "text" THEN @ ELSE last.type,
                                    ![c].for = IF last.type = "text" THEN @ ELSE last.about.n]
  <2>1. /\ got \in Seq(Item) /\ n \in 1..Len(down) /\ Len(down) \in Nat /\ DOMAIN got = 1..n
        /\ \A i \in 1..n : got[i] = down[i]
        /\ (n = Len(down) => rest = <<>>)
        /\ Len(rest) = Len(down) - n
        /\ \A i \in 1..(Len(down) - n) : rest[i] = down[i + n]
    <3>1. down \in Seq(Item) /\ down # <<>> /\ got = SubSeq(down, 1, Received(down))
      BY <1>1, <1>3
    <3> HIDE DEF down, got
    <3>2. /\ got \in Seq(Item) /\ Len(got) = Received(down) /\ got # <<>> /\ Len(got) \in 1..Len(down)
          /\ \A i \in 1..Len(got) : got[i] = down[i]
          /\ SubSeq(down, Len(got) + 1, Len(down)) \in Seq(Item)
          /\ (Len(got) = Len(down) => SubSeq(down, Len(got) + 1, Len(down)) = <<>>)
          /\ Len(SubSeq(down, Len(got) + 1, Len(down))) = Len(down) - Len(got)
          /\ \A i \in 1..(Len(down) - Len(got)) : SubSeq(down, Len(got) + 1, Len(down))[i] = down[i + Len(got)]
      BY <3>1, WhatIsReceived
    <3>3. DOMAIN got = 1..Len(got) /\ Len(down) \in Nat
      BY <3>1, <3>2
    <3> QED
      BY <3>2, <3>3
  <2>2. last = down[n]
    BY <2>1
  <2>3. /\ cli'[c].printed = k.printed \cup texts
        /\ cli'[c].pc = (IF last.type = "text" THEN "wait" ELSE "main")
        /\ cli'[c].answer = (IF last.type = "text" THEN k.answer ELSE last.type)
        /\ cli'[c].for = (IF last.type = "text" THEN k.for ELSE last.about.n)
        /\ cli'[c].line = k.line /\ cli'[c].kind = k.kind /\ cli'[c].long = k.long
        /\ \A d \in OpenClients \ {c} : cli'[d] = cli[d]
    <3> HIDE DEF got, last, texts, n
    <3> QED
      BY <1>1, <1>3 DEF Client
  <2>4. /\ sock'[c].down = rest /\ sock'[c].up = so.up /\ sock'[c].srv = so.srv
        /\ \A d \in OpenClients \ {c} : sock'[d] = sock[d]
    <3>1. sock' = [sock EXCEPT ![c] = [sock[c] EXCEPT !.down = rest]]
      BY <1>1, <1>3
    <3> HIDE DEF rest
    <3> QED
      BY <3>1, <1>1 DEF Socket
  <2>5. \A d \in OpenClients \ {c} : Bystander(d)
    BY <1>1, <2>3, <2>4 DEF Bystander, Stays
  <2> DEFINE kp == cli'[c] sp == sock'[c]
  <2>6. texts = {down[i].about : i \in {j \in 1..n : down[j].type = "text"}}
    BY <2>1
  <2> HIDE DEF got, n, last, texts, rest
  <2>7. ASSUME ~k.long, Waiting(k, so, task, c, loop)
        PROVE  /\ \A t \in kp.printed : RightText(kp, c, loop, t)
               /\ last.type = "text" => Waiting(kp, sp, task, c, loop)
               /\ last.type # "text" => RightAnswer(kp, c, loop) /\ Idling(kp, sp, task, c)
    <3>1. \A i \in 1..Len(down) : RightItem(k, c, loop, down[i]) /\ (down[i].type # "text" => i = Len(down) /\ ~OnIt(task, c))
      BY <2>7 DEF Waiting
    <3>2. \A t : RightText(k, c, loop, t) => RightText(kp, c, loop, t)
      BY <2>3 DEF RightText
    <3>3. \A x : RightItem(k, c, loop, x) => RightItem(kp, c, loop, x)
      BY <2>3, <3>2 DEF RightItem
    <3>4. \A i \in 1..n : i \in 1..Len(down)
      BY <2>1
    <3>5. \A t \in texts : RightText(kp, c, loop, t)
      BY <2>6, <3>1, <3>2, <3>4 DEF RightItem
    <3>6. \A t \in kp.printed : RightText(kp, c, loop, t)
      BY <2>3, <2>7, <3>2, <3>5 DEF Waiting
    <3>7. Request(kp) = Request(k)
      BY <2>3 DEF Request
    <3>8. down # <<>> => ~(so.srv /\ so.up # <<>>)
      BY <2>7 DEF Waiting
    <3>9. ~(sp.srv /\ sp.up # <<>>)
      BY <1>3, <2>4, <3>8
    <3>10. last.type = "text" => Waiting(kp, sp, task, c, loop)
      <4>1. \A i \in 1..Len(sp.down) : i + n \in 1..Len(down) /\ sp.down[i] = down[i + n] /\ (i + n = Len(down) => i = Len(sp.down))
        BY <2>1, <2>4
      <4>2. \A i \in 1..Len(sp.down) : /\ RightItem(kp, c, loop, sp.down[i])
                                       /\ sp.down[i].type # "text" => i = Len(sp.down) /\ ~OnIt(task, c)
        BY <3>1, <3>3, <4>1
      <4>3. \A s \in Servers : IsOn(task[s], c) => /\ task[s].piece = Request(kp)
                                                   /\ task[s].pc = "status" => kp.kind # "file"
        BY <2>3, <2>7, <3>7 DEF Waiting
      <4> HIDE DEF kp, sp
      <4> QED
        BY <3>6, <3>9, <4>2, <4>3 DEF Waiting
    <3>11. last.type # "text" => RightAnswer(kp, c, loop) /\ Idling(kp, sp, task, c)
      <4> SUFFICES ASSUME last.type # "text" PROVE RightAnswer(kp, c, loop) /\ Idling(kp, sp, task, c)
        OBVIOUS
      <4>1. n = Len(down) /\ ~OnIt(task, c) /\ RightItem(k, c, loop, last)
        BY <2>1, <2>2, <3>1
      <4>2. sp.down = <<>>
        BY <2>1, <2>4, <4>1
      <4>3. Idling(kp, sp, task, c)
        BY <3>9, <4>1, <4>2 DEF Idling
      <4>4. last.type \in {"fd", "status"}
        <5>1. last \in Item
          BY <1>1, <2>1, <2>2
        <5> QED
          BY <5>1 DEF Item
      <4>5. kp.for = kp.line /\ (kp.answer = "fd") = (kp.kind = "file")
        BY <2>3, <4>1, <4>4 DEF RightItem
      <4> QED
        BY <3>6, <4>3, <4>5 DEF RightAnswer
    <3> QED
      BY <3>6, <3>10, <3>11
  <2>8. Honest(kp, sp, task, c, loop)
    BY <1>1, <1>h, <2>3, <2>7 DEF Honest
  <2>9. Honest(cli'[c], sock'[c], task', c, loop')
    BY <2>8, <1>1
  <2> QED
    BY <1>1, <2>5, <2>9, OneIsConcerned
<1>4. CASE /\ down = <<>> /\ ~so.srv
           /\ cli' = [cli EXCEPT ![c].pc = "main", ![c].answer = "none"] /\ UNCHANGED sock
  <2>1. /\ cli'[c].answer = "none" /\ cli'[c].pc = "main" /\ \A d \in OpenClients \ {c} : cli'[d] = cli[d]
    BY <1>1, <1>4 DEF Client
  <2>2. ~OnIt(task, c)
    BY <1>1, <1>4 DEF Handled, OnIt, IsOn
  <2>3. Honest(cli'[c], sock'[c], task', c, loop')
    BY <1>1, <1>4, <2>1, <2>2 DEF Honest, RightAnswer, Idling
  <2>4. \A d \in OpenClients \ {c} : Bystander(d)
    BY <1>1, <1>4, <2>1 DEF Bystander, Stays
  <2> QED
    BY <1>1, <2>3, <2>4, OneIsConcerned
<1> QED
  BY <1>2, <1>3, <1>4 DEF recv_fd

\* Items of the right answer are written to the client that waits for it.
LEMMA SendIsHonest ==
    ASSUME OpendInv, NEW s \in Servers, task[s] # NoTask, NEW c, c = task[s].c, NEW items \in Seq(Item), SendTo(c, items),
           \A r \in Servers \ {s} : task'[r] = task[r],
           task'[s] # NoTask => task'[s].c = c /\ task'[s].piece = task[s].piece /\ task'[s].pc = "status" /\ task[s].piece.kind # "file",
           ~cli[c].long /\ cli[c].pc = "wait" /\ task[s].piece = Request(cli[c]) =>
              \A i \in 1..Len(items) : /\ RightItem(cli[c], c, loop, items[i])
                                       /\ items[i].type # "text" => i = Len(items) /\ task'[s] = NoTask,
           UNCHANGED <<loop, cli>>
    PROVE  Answers'
<1>1. /\ c \in OpenClients /\ IsOn(task[s], c) /\ WatchInv /\ Answers /\ sock[c].srv
      /\ \A d \in OpenClients : sock[d] \in Socket
      /\ \A r \in Servers : IsOn(task[r], c) => r = s
  <2>1. c \in OpenClients /\ IsOn(task[s], c) /\ WatchInv /\ Answers
    BY HandlersRun DEF OpendInv, IsOn
  <2>2. \A d \in OpenClients : sock[d] \in Socket
    BY <2>1 DEF WatchInv, OpendTypes
  <2> QED
    BY <2>1, <2>2, OneHandler
<1>2. /\ sock[c].down \in Seq(Item) /\ sock'[c].down = sock[c].down \o items /\ sock'[c].up = sock[c].up /\ sock'[c].srv = sock[c].srv
      /\ \A d \in OpenClients \ {c} : sock'[d] = sock[d]
  BY <1>1, SendsAdd
<1>3. \A d \in OpenClients \ {c} : Bystander(d)
  <2> SUFFICES ASSUME NEW d \in OpenClients \ {c} PROVE Bystander(d)
    OBVIOUS
  <2>1. \A r \in Servers : IsOn(task'[r], d) => task'[r] = task[r]
    BY <1>1 DEF IsOn
  <2> QED
    BY <1>1, <1>2, <2>1 DEF Bystander, Stays
<1> DEFINE k == cli[c] so == sock[c] sp == sock'[c] down == sock[c].down
<1>4. Honest(k, so, task, c, loop)
  BY <1>1 DEF Answers
<1>5. ~k.long => k.pc # "main"
  BY <1>1, <1>4 DEF Honest, Idling, OnIt
<1>6. ASSUME ~k.long, k.pc = "wait" PROVE Waiting(k, sp, task', c, loop)
  <2>1. Waiting(k, so, task, c, loop)
    BY <1>4, <1>6 DEF Honest
  <2>2. task[s].piece = Request(k) /\ so.up = <<>> /\ OnIt(task, c)
    BY <1>1, <2>1 DEF Waiting, OnIt
  <2>3. \A i \in 1..Len(items) : /\ RightItem(k, c, loop, items[i])
                                 /\ items[i].type # "text" => i = Len(items) /\ task'[s] = NoTask
    BY <1>6, <2>2
  <2>4. \A i \in 1..Len(down) : RightItem(k, c, loop, down[i]) /\ down[i].type = "text"
    BY <2>1, <2>2 DEF Waiting
  <2>5. task'[s] = NoTask => ~OnIt(task', c)
    BY <1>1 DEF OnIt, IsOn
  <2>6. /\ Len(sp.down) = Len(down) + Len(items) /\ Len(down) \in Nat /\ Len(items) \in Nat
        /\ \A i \in 1 .. Len(down) + Len(items) : sp.down[i] = IF i <= Len(down) THEN down[i] ELSE items[i - Len(down)]
    BY <1>2, ConcatProperties
  <2>7. \A i \in 1..Len(sp.down) : /\ RightItem(k, c, loop, sp.down[i])
                                   /\ sp.down[i].type # "text" => i = Len(sp.down) /\ ~OnIt(task', c)
    <3> SUFFICES ASSUME NEW i \in 1..Len(sp.down)
                 PROVE  RightItem(k, c, loop, sp.down[i]) /\ (sp.down[i].type # "text" => i = Len(sp.down) /\ ~OnIt(task', c))
      OBVIOUS
    <3> HIDE DEF down, sp, k
    <3>1. CASE i <= Len(down)
      <4>1. i \in 1..Len(down) /\ sp.down[i] = down[i]
        BY <3>1, <2>6
      <4> QED
        BY <4>1, <2>4
    <3>2. CASE ~(i <= Len(down))
      <4>1. i - Len(down) \in 1..Len(items) /\ sp.down[i] = items[i - Len(down)] /\ (i - Len(down) = Len(items) => i = Len(sp.down))
        BY <3>2, <2>6
      <4> QED
        BY <4>1, <2>3, <2>5
    <3> QED
      BY <3>1, <3>2
  <2>8. \A r \in Servers : IsOn(task'[r], c) => task'[r].piece = Request(k) /\ (task'[r].pc = "status" => k.kind # "file")
    <3> SUFFICES ASSUME NEW r \in Servers, IsOn(task'[r], c) PROVE task'[r].piece = Request(k) /\ (task'[r].pc = "status" => k.kind # "file")
      OBVIOUS
    <3>1. r = s /\ task'[s] # NoTask
      BY <1>1 DEF IsOn
    <3> QED
      BY <3>1, <2>2 DEF Request
  <2>9. sp.up = <<>> /\ \A t \in k.printed : RightText(k, c, loop, t)
    BY <1>2, <2>1, <2>2 DEF Waiting
  <2> HIDE DEF k, sp, so, down
  <2> QED
    BY <2>7, <2>8, <2>9 DEF Waiting
<1>7. Honest(cli'[c], sock'[c], task', c, loop')
  <2>1. cli'[c] = k /\ loop' = loop
    OBVIOUS
  <2> QED
    BY <1>5, <1>6, <2>1 DEF Honest
<1> QED
  BY <1>1, <1>3, <1>7, OneIsConcerned

\* handle_request answers what the client asked: its descriptor, or a text about
\* its request.
LEMMA HandleIsHonest == ASSUME NEW s \in Servers, OpendInv, handle_request(s) PROVE Answers'
<1>1. /\ task[s].pc = "handle" /\ UNCHANGED <<loop, cli>> /\ task[s] # NoTask /\ WatchInv
  BY DEF handle_request, NoTask, OpendInv
<1>2. CASE ServerEnds(s)
  BY <1>1, <1>2, EndIsQuiet
<1>3. CASE Handles(s)
  <2> DEFINE c == task[s].c
             items == Answer(s)
             k == cli[c]
  <2>1. c \in OpenClients /\ items \in Seq(Item) /\ SendTo(c, items)
    BY <1>1, <1>3, HandlersRun, AnswersAreTyped DEF Handles
  <2>2. /\ \A r \in Servers \ {s} : task'[r] = task[r]
        /\ task[s].piece.kind = "file" => task'[s] = NoTask
        /\ task'[s] # NoTask => task'[s].c = c /\ task'[s].piece = task[s].piece /\ task'[s].pc = "status" /\ task[s].piece.kind # "file"
    BY <1>1, <1>3, HandlesSets
  <2>3. loop # "poll" => task[s].uid = c
    BY <1>1 DEF WatchInv, Handled
  <2>4. ASSUME task[s].piece = Request(k)
        PROVE  \A i \in 1..Len(items) : /\ RightItem(k, c, loop, items[i])
                                        /\ items[i].type # "text" => i = Len(items) /\ task'[s] = NoTask
    <3>1. task[s].piece.kind = k.kind /\ task[s].piece.n = k.line
      BY <2>4 DEF Request
    <3>2. CASE k.kind = "file"
      <4> DEFINE x == [type |-> "fd", about |-> [n |-> task[s].piece.n, uid |-> c]]
      <4>1. items = <<x>>
        BY <3>1, <3>2 DEF Answer
      <4>2. RightItem(k, c, loop, x) /\ x.type = "fd"
        BY <3>1, <3>2 DEF RightItem
      <4> HIDE DEF x, items, k
      <4> QED
        BY <2>2, <3>1, <3>2, <4>1, <4>2
    <3>3. CASE k.kind # "file" /\ Complaint(s) = NoText
      <4>1. items = <<>>
        BY <3>1, <3>3 DEF Answer
      <4> QED
        BY <4>1
    <3>4. CASE k.kind # "file" /\ Complaint(s) # NoText
      <4> DEFINE t == Complaint(s)
                 x == [type |-> "text", about |-> t]
      <4>1. items = <<x>>
        BY <3>1, <3>4 DEF Answer
      <4>2. RightText(k, c, loop, t)
        <5>1. k.kind # "many" => t = [n |-> task[s].piece.n, uid |-> task[s].uid]
          BY <3>1 DEF Complaint
        <5> HIDE DEF t, c, k
        <5> QED
          BY <2>3, <3>1, <5>1 DEF RightText
      <4>3. RightItem(k, c, loop, x) /\ x.type = "text"
        BY <4>2 DEF RightItem
      <4> HIDE DEF x, items, k
      <4> QED
        BY <4>1, <4>3
    <3> QED
      BY <3>2, <3>3, <3>4
  <2>5. c = task[s].c /\ k = cli[c]
    OBVIOUS
  <2> HIDE DEF c, items, k
  <2> QED
    BY <1>1, <2>1, <2>2, <2>4, <2>5, SendIsHonest
<1> QED
  BY <1>2, <1>3 DEF handle_request, Handles, Answer

\* The status is sent to a client that asked for no file.
LEMMA StatusIsHonest == ASSUME NEW s \in Servers, OpendInv, SendStatus(s) PROVE Answers'
<1>1. /\ task[s].pc = "status" /\ UNCHANGED <<loop, cli>> /\ task[s] # NoTask /\ WatchInv /\ Answers
      /\ task \in [Servers -> Task \cup {NoTask}]
  BY DEF SendStatus, NoTask, OpendInv, WatchInv, OpendTypes
<1>2. CASE ServerEnds(s)
  BY <1>1, <1>2, EndIsQuiet
<1> DEFINE c == task[s].c
           k == cli[c]
           x == [type |-> "status", about |-> [n |-> task[s].piece.n, uid |-> task[s].c]]
<1>3. CASE SendTo(c, <<x>>) /\ task' = [task EXCEPT ![s] = NoTask]
  <2>1. c \in OpenClients /\ <<x>> \in Seq(Item)
    BY <1>1, HandlersRun, AnswersAreTyped
  <2>2. task'[s] = NoTask /\ \A r \in Servers \ {s} : task'[r] = task[r]
    BY <1>1, <1>3
  <2>3. ASSUME ~k.long, k.pc = "wait", task[s].piece = Request(k) PROVE RightItem(k, c, loop, x)
    <3>1. IsOn(task[s], c)
      BY <1>1 DEF IsOn
    <3>2. Waiting(k, sock[c], task, c, loop)
      BY <1>1, <2>1, <2>3 DEF Answers, Honest
    <3> HIDE DEF k
    <3>3. k.kind # "file" /\ task[s].piece.n = k.line
      BY <1>1, <2>3, <3>1, <3>2 DEF Waiting, Request
    <3> QED
      BY <3>3 DEF RightItem
  <2>4. c = task[s].c /\ k = cli[c] /\ x.type = "status"
    OBVIOUS
  <2> HIDE DEF c, k, x
  <2>5. ~k.long /\ k.pc = "wait" /\ task[s].piece = Request(k) =>
           \A i \in 1..Len(<<x>>) : /\ RightItem(k, c, loop, <<x>>[i])
                                    /\ <<x>>[i].type # "text" => i = Len(<<x>>) /\ task'[s] = NoTask
    BY <2>2, <2>3
  <2> QED
    BY <1>1, <1>3, <2>1, <2>2, <2>4, <2>5, SendIsHonest
<1> QED
  BY <1>2, <1>3 DEF SendStatus

\* A request is read, a connection is closed, or the server ends.
LEMMA EntryIsHonest == OpendInv /\ ServeEntry => Answers'
<1> SUFFICES ASSUME OpendInv, ServeEntry PROVE Answers'
  OBVIOUS
<1> DEFINE j == Min(ReadyEntries)
           fd == IF loop = "select" THEN client[j].fd ELSE pollfd[j].fd
           c == Owner(fd)
           hup == loop = "poll" /\ pollfd[j].revents = "hup"
<1>1. /\ serv.pc = "scan" /\ task[Opener] = NoTask /\ ReadyEntries # {} /\ UNCHANGED <<loop, cli>> /\ WatchInv /\ Answers /\ Opener \in Servers
      /\ task \in [Servers -> Task \cup {NoTask}]
  BY DEF ServeEntry, OpendInv, WatchInv, OpendTypes, Servers
<1>2. ServedEntry(j, fd, c)
  <2> HIDE DEF j
  <2>1. j = Min(ReadyEntries)
    BY DEF j
  <2> QED
    BY <1>1, <2>1, ServedIsOpen
<1>3. CASE /\ ~hup /\ sock[c].up # <<>>
           /\ task' = [task EXCEPT ![Opener] = [pc |-> "handle", c |-> c, piece |-> Head(sock[c].up), uid |-> client[j].uid]]
           /\ sock' = [sock EXCEPT ![c].up = Tail(@)]
  <2> DEFINE uid == client[j].uid
  <2>1. Reads(Opener, c, uid)
    BY <1>3 DEF Reads
  <2>2. c \in OpenClients /\ uid \in Uids /\ sock[c].srv
    BY <1>2 DEF ServedEntry
  <2> HIDE DEF j, fd, c, hup, uid
  <2> QED
    BY <1>1, <2>1, <2>2, ReadIsHonest
<1>4. CASE Remove(fd, j) /\ UNCHANGED <<backlog, task>>
  <2>1. c = Owner(fd)
    OBVIOUS
  <2> HIDE DEF j, fd, c
  <2>2. ~sock'[c].srv /\ sock'[c].down = sock[c].down /\ \A d \in OpenClients \ {c} : sock'[d] = sock[d]
    BY <1>1, <1>2, <1>4, <2>1, RemoveCloses
  <2>3. \A d \in OpenClients : sock[d] \in Socket
    BY <1>1 DEF WatchInv, OpendTypes
  <2>4. \A d \in OpenClients : sock'[d].down = sock[d].down /\ (sock'[d].srv => sock'[d].up = <<>> \/ (sock[d].srv /\ sock'[d].up = sock[d].up))
    BY <2>2, <2>3
  <2> QED
    BY <1>1, <1>4, <2>4, QuietStep
<1>5. CASE ServerEnds(Opener)
  BY <1>1, <1>5, EndIsQuiet
<1> QED
  BY <1>3, <1>4, <1>5 DEF ServeEntry

\* main of opend.fe.
LEMMA ForkedReadIsHonest == ASSUME NEW c \in OpenClients, OpendInv, ForkedRead(c) PROVE Answers'
<1>1. sock[c].srv /\ task[c] = NoTask /\ UNCHANGED <<loop, cli>> /\ c \in Servers /\ c \in Uids
  BY DEF ForkedRead, Servers, Uids
<1>2. CASE Reads(c, c, c)
  BY <1>1, <1>2, ReadIsHonest
<1>3. CASE ServerEnds(c)
  BY <1>1, <1>3, EndIsQuiet
<1> QED
  BY <1>2, <1>3 DEF ForkedRead, Reads

\* Steps of the loop that tell nobody anything.
LEMMA LoopIsHonest ==
    ASSUME OpendInv, StartOpend \/ serv_listen \/ SelectReturns \/ PollReturns \/ serv_accept \/ EndOfScan \/ UNCHANGED opendVars
    PROVE  Answers'
<1>1. /\ UNCHANGED cli /\ (loop' # "poll" => loop # "poll") /\ Answers /\ sock \in [OpenClients -> Socket]
      /\ task \in [Servers -> Task \cup {NoTask}]
  BY DEF StartOpend, serv_listen, SelectReturns, PollReturns, serv_accept, EndOfScan, opendVars, OpendInv, WatchInv, OpendTypes
<1>2. CASE UNCHANGED <<sock, task>>
  <2>1. \A d \in OpenClients : sock[d] \in Socket /\ sock'[d] = sock[d]
    BY <1>1, <1>2
  <2> QED
    BY <1>1, <1>2, <2>1, QuietStep
<1>3. CASE serv_accept
  <2>0. UNCHANGED loop
    BY <1>3 DEF serv_accept
  <2>1. CASE ServerEnds(Opener)
    BY <1>1, <2>0, <2>1, EndIsQuiet DEF Servers
  <2> DEFINE c == Head(backlog)
             fd == NewFd
  <2>2. CASE sock' = [sock EXCEPT ![c].fd = fd] /\ UNCHANGED task
    <3>1. c \in OpenClients
      BY <1>3, HeadIsNew DEF serv_accept, OpendInv
    <3> HIDE DEF c, fd
    <3>2. sock' = [sock EXCEPT ![c] = [sock[c] EXCEPT !.fd = fd]] /\ sock[c] \in Socket
      BY <1>1, <2>2, <3>1
    <3>3. \A g \in Socket : LET h == [g EXCEPT !.fd = fd] IN h.down = g.down /\ h.up = g.up /\ h.srv = g.srv
      BY DEF Socket
    <3>4. \A d \in OpenClients : sock[d] \in Socket /\ (d # c => sock'[d] = sock[d])
      BY <1>1, <3>1, <3>2
    <3>5. \A d \in OpenClients : sock'[d].down = sock[d].down /\ sock'[d].srv = sock[d].srv /\ sock'[d].up = sock[d].up
      BY <1>1, <3>1, <3>2, <3>3, <3>4
    <3> QED
      BY <1>1, <2>2, <3>5, QuietStep
  <2> QED
    BY <1>3, <2>1, <2>2 DEF serv_accept
<1> QED
  BY <1>2, <1>3 DEF StartOpend, serv_listen, SelectReturns, PollReturns, EndOfScan, opendVars

\* A client that exits, or is killed.
LEMMA ExitIsHonest == ASSUME NEW c \in OpenClients, OpendInv, ClientExit(c) \/ KillClient(c) PROVE Answers'
<1>1. HangUp(c) /\ UNCHANGED <<loop, task>>
  BY DEF ClientExit, KillClient
<1> QED
  BY <1>1, HangUpIsHonest

\* What the clients are told stays right under every step.
LEMMA AnswersStep == OpendInv /\ [OpendNext]_opendVars => Answers'
<1> SUFFICES ASSUME OpendInv, [OpendNext]_opendVars PROVE Answers'
  OBVIOUS
<1>1. CASE StartOpend \/ UNCHANGED opendVars
  BY <1>1, LoopIsHonest
<1>2. CASE ServerLoop
  BY <1>2, LoopIsHonest, EntryIsHonest DEF ServerLoop
<1>3. ASSUME NEW s \in Servers, ServerStep(s) PROVE Answers'
  BY <1>3, HandleIsHonest, StatusIsHonest DEF ServerStep
<1>4. ASSUME NEW c \in OpenClients,
             ForkedRead(c) \/ cli_conn(c) \/ ForkServer(c) \/ csopen(c) \/ recv_fd(c) \/ ClientExit(c) \/ KillClient(c)
      PROVE  Answers'
  BY <1>4, ForkedReadIsHonest, ConnIsHonest, csopenIsHonest, recvIsHonest, ExitIsHonest
<1> QED
  BY <1>1, <1>2, <1>3, <1>4 DEF OpendNext

\* At the start nobody asked and nothing is told.
LEMMA AnswersInit == OpendInit => Answers
<1> SUFFICES ASSUME OpendInit, NEW c \in OpenClients PROVE Honest(cli[c], sock[c], task, c, loop)
  BY DEF Answers
<1>1. cli[c].pc = "main" /\ cli[c].answer = "none" /\ sock[c].down = <<>> /\ ~sock[c].srv
  BY DEF OpendInit
<1>2. ~OnIt(task, c)
  BY DEF OpendInit, OnIt, IsOn
<1> QED
  BY <1>1, <1>2 DEF Honest, RightAnswer, Idling

\* The invariant says what AnswerIsForTheAsker says (open/open.c).
LEMMA AnswersAreRight == Answers => AnswerIsForTheAsker
BY DEF Answers, Honest, RightAnswer, RightText, AnswerIsForTheAsker

\* For any number of clients, requests, kills and faults: csopen returns the
\* answer to what was asked, and the text a client prints is its own
\* (open/open.c, opend/request.c, opend.fe/request.c, lib/recvfd.c).
THEOREM TheAskerIsAnswered == OpendSpec => []AnswerIsForTheAsker
<1>1. OpendInit => OpendInv
  BY WatchInit, AnswersInit DEF OpendInv
<1>2. OpendInv => AnswerIsForTheAsker
  BY AnswersAreRight DEF OpendInv
<1>3. OpendInv /\ [OpendNext]_opendVars => OpendInv'
  BY WatchStep, AnswersStep DEF OpendInv
<1> QED
  BY <1>1, <1>2, <1>3, PTL DEF OpendSpec
=============================================================================
