------------------------------- MODULE Opend -------------------------------
(* The open servers of ipc2 and their clients.  A client (open/main.c) reads *)
(* file names, asks the server to open each and is sent the descriptor over  *)
(* a UNIX domain socket.  One server serves all clients, in a loop around    *)
(* select or around poll (opend); or each client forks a server of its own   *)
(* (open.fe, opend.fe).  A client is killed at any step; a system call of    *)
(* the server fails.  A socket keeps what was written and not read, whether  *)
(* each end is open, and whether the client closed its end with an answer    *)
(* unread (the server's next read then fails with ECONNRESET).  No program   *)
(* here handles SIGPIPE: who writes to a closed socket is killed.            *)
EXTENDS Naturals, Sequences, FiniteSets, FiniteSetsExt

CONSTANTS OpenClients,  \* the processes that run openclient
          MaxLines,     \* names the clients read from their standard inputs
          NAlloc,       \* entries the server's tables grow by (NALLOC)
          MaxMishaps    \* clients that are killed and system calls that fail

ASSUME OpendAssumption == /\ MaxLines \in Nat /\ NAlloc \in Nat \ {0}
                          /\ MaxMishaps \in Nat /\ IsFiniteSet(OpenClients)
                          /\ "opend" \notin OpenClients

VARIABLES loop,     \* the server that was started: "select", "poll" or "fe"
          cli,      \* cli[c]: a client
          sock,     \* sock[c]: the connection of client c
          backlog,  \* connections the server has not accepted
          serv,     \* the server's loop and its local variables
          client,   \* client[], a sequence of [fd, uid]
          pollfd,   \* pollfd[], a sequence of [fd, revents]
          task,     \* task[s]: the request server process s is handling
          errmsg,   \* errmsg[s]: whom the text in the global errmsg is about
          lines,    \* names read so far
          mishaps   \* kills and faults so far

opendVars == <<loop, cli, sock, backlog, serv, client, pollfd, task, errmsg, lines, mishaps>>

Opener == "opend"                      \* the one server of all clients
Servers == {Opener} \cup OpenClients   \* or the server client c has forked
listenfd == 1
Free == 0                              \* fd of -1 means entry available
NoText == [n |-> 0, uid |-> Opener]    \* the number of a request, and a user

\* What a client may ask for: a file that opens, one that does not, a line of
\* more than MAXARGC words, and one that does not fit the server's buffer with
\* the words around it: the server reads such a request in two pieces.
Lines == {"file", "missing", "many", "long"}
Pieces(kind, n) == IF kind = "long" THEN <<[kind |-> "head", n |-> n], [kind |-> "tail", n |-> n]>>
                                    ELSE <<[kind |-> kind, n |-> n]>>

NoTask == [pc |-> "none"]

OpendInit ==
    /\ loop = "none"
    /\ cli = [c \in OpenClients |-> [pc |-> "main", csfd |-> "none", line |-> 0, kind |-> "none",
                                     long |-> FALSE, answer |-> "none", for |-> 0, printed |-> {}]]
    /\ sock = [c \in OpenClients |-> [up |-> <<>>, down |-> <<>>, fd |-> Free,
                                      cli |-> FALSE, srv |-> FALSE, reset |-> FALSE]]
    /\ backlog = <<>>
    /\ serv = [pc |-> "start", i |-> 1, rset |-> {}, allset |-> {}, maxi |-> 0, numfd |-> 0]
    /\ client = <<>>
    /\ pollfd = <<>>
    /\ task = [s \in Servers |-> NoTask]
    /\ errmsg = [s \in Servers |-> NoText]
    /\ lines = 0
    /\ mishaps = 0

Mishap == mishaps < MaxMishaps /\ mishaps' = mishaps + 1

\* One of the three programs is run, with its clients.
StartOpend ==
    /\ loop = "none" /\ loop' \in {"select", "poll", "fe"}
    /\ UNCHANGED <<cli, sock, backlog, serv, client, pollfd, task, errmsg, lines, mishaps>>

----------------------------------------------------------------------------
(* The client. *)

\* csopen returns -1 before it has sent anything.
OpenFails == lines' = lines + 1

\* cli_conn: the name is bound and the connection waits in the server's
\* queue.  Without a server connect fails, and the next line tries again.
cli_conn(c) ==
    /\ loop \in {"select", "poll"} /\ cli[c].pc = "main" /\ cli[c].csfd = "none" /\ lines < MaxLines
    /\ \/ /\ serv.pc \notin {"start", "dead"}
          /\ cli' = [cli EXCEPT ![c].csfd = "open"]
          /\ sock' = [sock EXCEPT ![c].cli = TRUE, ![c].srv = TRUE]
          /\ backlog' = Append(backlog, c)
          /\ UNCHANGED lines
       \/ /\ serv.pc \in {"start", "dead"}
          /\ OpenFails
          /\ UNCHANGED <<cli, sock, backlog>>
    /\ UNCHANGED <<loop, serv, client, pollfd, task, errmsg, mishaps>>

\* csopen of open.fe: a socket pair and a server process.  If fork fails, fd[0]
\* and fd[1] stay open in the client, which takes them for a server ("half");
\* if execl fails the child is gone.
ForkServer(c) ==
    /\ loop = "fe" /\ cli[c].pc = "main" /\ cli[c].csfd = "none" /\ lines < MaxLines
    /\ \/ /\ cli' = [cli EXCEPT ![c].csfd = "open"]
          /\ sock' = [sock EXCEPT ![c].cli = TRUE, ![c].srv = TRUE]
          /\ UNCHANGED <<lines, mishaps>>
       \/ /\ Mishap
          /\ OpenFails
          /\ cli' = [cli EXCEPT ![c].csfd = "half"]
          /\ UNCHANGED sock
       \/ /\ Mishap
          /\ cli' = [cli EXCEPT ![c].csfd = "open"]
          /\ sock' = [sock EXCEPT ![c].cli = TRUE]
          /\ UNCHANGED lines
    /\ UNCHANGED <<loop, backlog, serv, client, pollfd, task, errmsg>>

\* The client exits or is killed: its end of the connection is closed.
HangUp(c) ==
    /\ cli' = [cli EXCEPT ![c] = [@ EXCEPT !.pc = "gone", !.kind = "none", !.answer = "none", !.for = 0, !.printed = {}]]
    /\ sock' = [sock EXCEPT ![c].cli = FALSE, ![c].down = <<>>, ![c].reset = sock[c].down # <<>>]

\* csopen writes the request, in one writev.
csopen(c) ==
    /\ cli[c].pc = "main" /\ cli[c].csfd # "none" /\ lines < MaxLines
    /\ \/ /\ cli[c].csfd = "open" /\ ~sock[c].srv   \* SIGPIPE
          /\ HangUp(c)
          /\ UNCHANGED lines
       \/ /\ cli[c].csfd = "half" \/ sock[c].srv
          /\ lines' = lines + 1
          /\ \E kind \in Lines :
                /\ cli' = [cli EXCEPT ![c] = [@ EXCEPT !.pc = "wait", !.line = lines', !.kind = kind, !.long = cli[c].long \/ kind = "long",
                                                       !.answer = "none", !.for = 0, !.printed = {}]]
                /\ sock' = [sock EXCEPT ![c].up = @ \o Pieces(kind, lines')]
    /\ UNCHANGED <<loop, backlog, serv, client, pollfd, task, errmsg, mishaps>>

\* What one recvmsg returns: all there is, up to and with the first descriptor.
Received(down) ==
    LET fds == {i \in DOMAIN down : down[i].type = "fd"}
    IN  IF fds = {} THEN Len(down) ELSE Min(fds)

\* recv_fd: text goes to standard error; a null byte and a status end the
\* answer and must be the last bytes received, else the client aborts.
recv_fd(c) ==
    LET got == SubSeq(sock[c].down, 1, Received(sock[c].down))
        last == got[Len(got)]
        texts == {got[i].about : i \in {j \in DOMAIN got : got[j].type = "text"}}
        early == \E i \in 1..(Len(got) - 1) : got[i].type # "text"
    IN  /\ cli[c].pc = "wait"
        /\ \/ /\ sock[c].down # <<>> /\ ~early
              /\ sock' = [sock EXCEPT ![c].down = SubSeq(@, Len(got) + 1, Len(@))]
              /\ cli' = [cli EXCEPT ![c].printed = @ \cup texts,
                                    ![c].pc = IF last.type = "text" THEN "wait" ELSE "main",
                                    ![c].answer = IF last.type = "text" THEN @ ELSE last.type,
                                    ![c].for = IF last.type = "text" THEN @ ELSE last.about.n]
           \/ /\ sock[c].down # <<>> /\ early           \* message format error
              /\ HangUp(c)
           \/ /\ sock[c].down = <<>> /\ cli[c].csfd = "open" /\ ~sock[c].srv
              /\ cli' = [cli EXCEPT ![c].pc = "main", ![c].answer = "none"]
              /\ UNCHANGED sock
        /\ UNCHANGED <<loop, backlog, serv, client, pollfd, task, errmsg, mishaps, lines>>

\* The end of standard input.
ClientExit(c) ==
    /\ loop # "none" /\ cli[c].pc = "main"
    /\ HangUp(c)
    /\ UNCHANGED <<loop, backlog, serv, client, pollfd, task, errmsg, mishaps, lines>>

KillClient(c) ==
    /\ cli[c].pc = "wait" /\ Mishap
    /\ HangUp(c)
    /\ UNCHANGED <<loop, backlog, serv, client, pollfd, task, errmsg, lines>>

----------------------------------------------------------------------------
(* The tables of the server. *)

FreeEntries(n) == [i \in 1..n |-> [fd |-> Free, uid |-> Opener]]

client_add(table, fd, uid) ==
    LET free == {i \in DOMAIN table : table[i].fd = Free}
        grown == IF free = {} THEN table \o FreeEntries(NAlloc) ELSE table
        i == IF free = {} THEN Len(table) + 1 ELSE Min(free)
    IN  [grown EXCEPT ![i] = [fd |-> fd, uid |-> uid]]

EntryOf(table, fd) == Min({i \in DOMAIN table : table[i].fd = fd})

client_del(table, fd) == [table EXCEPT ![EntryOf(table, fd)].fd = Free]

FreePollfds(n) == [i \in 1..n |-> [fd |-> Free, revents |-> "none"]]

grow_pollfd(pfd) == pfd \o FreePollfds(NAlloc)

\* The lowest descriptor that is not open.
NewFd == Min((2..(Cardinality(OpenClients) + 1)) \ {sock[c].fd : c \in OpenClients})

Owner(fd) == CHOOSE c \in OpenClients : sock[c].fd = fd

----------------------------------------------------------------------------
(* The server's loop. *)

\* The server process exits or is killed by a signal: its sockets are closed.
ServerEnds(s) ==
    /\ task' = [task EXCEPT ![s] = NoTask]
    /\ IF s = Opener
         THEN /\ serv' = [serv EXCEPT !.pc = "dead"]
              /\ sock' = [c \in OpenClients |-> [sock[c] EXCEPT !.srv = FALSE]]
              /\ backlog' = <<>>
         ELSE /\ sock' = [sock EXCEPT ![s].srv = FALSE]
              /\ UNCHANGED <<serv, backlog>>

SelectSetup ==
    /\ serv' = [serv EXCEPT !.pc = "select", !.allset = {listenfd}]
    /\ UNCHANGED <<client, pollfd>>

PollSetup ==
    /\ serv' = [serv EXCEPT !.pc = "select", !.numfd = 1]
    /\ client' = client_add(client, listenfd, "root")
    /\ pollfd' = [FreePollfds(NAlloc) EXCEPT ![1].fd = listenfd]

\* The loop's start; it ends the server if there is no socket to listen on.
serv_listen ==
    /\ loop \in {"select", "poll"} /\ serv.pc = "start"
    /\ \/ loop = "select" /\ SelectSetup /\ UNCHANGED mishaps
       \/ loop = "poll" /\ PollSetup /\ UNCHANGED mishaps
       \/ /\ Mishap
          /\ serv' = [serv EXCEPT !.pc = "dead"]
          /\ UNCHANGED <<client, pollfd>>
    /\ UNCHANGED <<loop, cli, sock, backlog, task, errmsg, lines>>

Readable(fd) == IF fd = listenfd THEN backlog # <<>>
                ELSE LET k == sock[Owner(fd)] IN k.up # <<>> \/ ~k.cli

\* POLLHUP is looked at before POLLIN.
Revents(fd) == IF ~Readable(fd) THEN "none"
               ELSE IF fd # listenfd /\ ~sock[Owner(fd)].cli THEN "hup" ELSE "in"

SelectReturns ==
    /\ loop = "select" /\ serv.pc = "select"
    /\ LET ready == {fd \in serv.allset : Readable(fd)}
       IN  /\ ready # {}
           /\ serv' = [serv EXCEPT !.rset = ready, !.i = 1, !.pc = IF listenfd \in ready THEN "accept" ELSE "scan"]
    /\ UNCHANGED <<loop, cli, sock, backlog, client, pollfd, task, errmsg, mishaps, lines>>

PollReturns ==
    /\ loop = "poll" /\ serv.pc = "select"
    /\ LET ready == {i \in 1..serv.numfd : Readable(pollfd[i].fd)}
       IN  /\ ready # {}
           /\ pollfd' = [i \in DOMAIN pollfd |->
                           IF i \in 1..serv.numfd THEN [pollfd[i] EXCEPT !.revents = Revents(pollfd[i].fd)] ELSE pollfd[i]]
           /\ serv' = [serv EXCEPT !.i = 2, !.pc = IF 1 \in ready THEN "accept" ELSE "scan"]
    /\ UNCHANGED <<loop, cli, sock, backlog, client, task, errmsg, mishaps, lines>>

\* serv_accept succeeds, and the new connection enters the tables.
AcceptSelect(fd, uid) ==
    LET table == client_add(client, fd, uid)
        i == EntryOf(table, fd)
    IN  /\ client' = table
        /\ serv' = [serv EXCEPT !.pc = "select", !.allset = @ \cup {fd}, !.maxi = IF i > @ THEN i ELSE @]
        /\ UNCHANGED pollfd

AcceptPoll(fd, uid) ==
    LET grown == IF serv.numfd = Len(pollfd) THEN grow_pollfd(pollfd) ELSE pollfd
    IN  /\ client' = client_add(client, fd, uid)
        /\ pollfd' = [grown EXCEPT ![serv.numfd + 1] = [fd |-> fd, revents |-> "none"]]
        /\ serv' = [serv EXCEPT !.pc = "scan", !.numfd = @ + 1]

\* Any error of serv_accept ends the server: the client's name is gone, is no
\* socket, has the wrong permissions or is older than STALE.
serv_accept ==
    /\ serv.pc = "accept"
    /\ \/ LET c == Head(backlog)
          IN  /\ backlog' = Tail(backlog)
              /\ sock' = [sock EXCEPT ![c].fd = NewFd]
              /\ IF loop = "select" THEN AcceptSelect(NewFd, c) ELSE AcceptPoll(NewFd, c)
              /\ UNCHANGED <<task, mishaps>>
       \/ /\ Mishap
          /\ ServerEnds(Opener)
          /\ UNCHANGED <<client, pollfd>>
    /\ UNCHANGED <<loop, cli, errmsg, lines>>

\* The client hung up: its entries are removed and the descriptor is closed.
RemoveSelect(fd) ==
    /\ serv' = [serv EXCEPT !.allset = @ \ {fd}, !.i = EntryOf(client, fd) + 1]
    /\ UNCHANGED pollfd
\* Mutant: the last entry is not moved to the one that becomes free.
MutNoMove(fd, j) == serv' = [serv EXCEPT !.numfd = @ - 1, !.i = j + 1] /\ UNCHANGED pollfd

RemovePoll(fd, j) ==
    /\ pollfd' = IF j < serv.numfd THEN [pollfd EXCEPT ![j] = pollfd[serv.numfd]] ELSE pollfd
    /\ serv' = [serv EXCEPT !.numfd = @ - 1, !.i = IF j < serv.numfd THEN j ELSE j + 1]

Remove(fd, j) ==
    /\ client' = client_del(client, fd)
    /\ sock' = [sock EXCEPT ![Owner(fd)].fd = Free, ![Owner(fd)].srv = FALSE, ![Owner(fd)].up = <<>>]
    /\ IF loop = "select" THEN RemoveSelect(fd) ELSE RemovePoll(fd, j)

\* The entries from the i-th on that select or poll found ready.
ReadyEntries == IF loop = "select" THEN {j \in serv.i..serv.maxi : client[j].fd \in serv.rset}
                ELSE {j \in serv.i..serv.numfd : pollfd[j].revents # "none"}

\* One ready descriptor: a request is read, or the client is gone; a failing
\* read ends the server.  The poll loop takes the uid from client[j] although
\* j is an index of pollfd[].
ServeEntry ==
    /\ serv.pc = "scan" /\ task[Opener] = NoTask /\ ReadyEntries # {}
    /\ LET j == Min(ReadyEntries)
           fd == IF loop = "select" THEN client[j].fd ELSE pollfd[j].fd
           c == Owner(fd)
           hup == loop = "poll" /\ pollfd[j].revents = "hup"
       IN  \/ /\ ~hup /\ sock[c].up # <<>>
              /\ task' = [task EXCEPT ![Opener] = [pc |-> "handle", c |-> c, piece |-> Head(sock[c].up), uid |-> client[j].uid]]
              /\ sock' = [sock EXCEPT ![c].up = Tail(@)]
              /\ serv' = [serv EXCEPT !.i = j + 1]
              /\ UNCHANGED <<backlog, client, pollfd>>
           \/ /\ hup \/ (sock[c].up = <<>> /\ ~sock[c].reset)
              /\ Remove(fd, j)
              /\ UNCHANGED <<backlog, task>>
           \/ /\ ~hup /\ sock[c].up = <<>> /\ sock[c].reset
              /\ ServerEnds(Opener)
              /\ UNCHANGED <<client, pollfd>>
    /\ UNCHANGED <<loop, cli, errmsg, mishaps, lines>>

EndOfScan ==
    /\ serv.pc = "scan" /\ task[Opener] = NoTask /\ ReadyEntries = {}
    /\ serv' = [serv EXCEPT !.pc = "select", !.rset = {}]
    /\ UNCHANGED <<loop, cli, sock, backlog, client, pollfd, task, errmsg, mishaps, lines>>

----------------------------------------------------------------------------
(* A request is handled by the one server, or by the client's own. *)

\* main of opend.fe reads a request, or exits at the end of the stream.
ForkedRead(c) ==
    /\ loop = "fe" /\ sock[c].srv /\ task[c] = NoTask
    /\ \/ /\ sock[c].up # <<>>
          /\ task' = [task EXCEPT ![c] = [pc |-> "handle", c |-> c, piece |-> Head(sock[c].up), uid |-> c]]
          /\ sock' = [sock EXCEPT ![c].up = Tail(@)]
          /\ UNCHANGED <<serv, backlog>>
       \/ /\ sock[c].up = <<>> /\ ~sock[c].cli   \* the end, or ECONNRESET
          /\ ServerEnds(c)
    /\ UNCHANGED <<loop, cli, client, pollfd, errmsg, mishaps, lines>>
\* Mutant: a text that is there is not replaced.
MutOldText(s) == IF errmsg[s] # NoText THEN errmsg[s] ELSE [n |-> task[s].piece.n, uid |-> task[s].uid]

\* The message handle_request writes to errmsg.  buf_args writes none when a
\* request has too many words: the text is then the last request's.
Complaint(s) ==
    LET t == task[s]
    IN  IF t.piece.kind = "many" THEN errmsg[s] ELSE [n |-> t.piece.n, uid |-> t.uid]

SendTo(c, items) == sock' = [sock EXCEPT ![c].down = @ \o items]

\* handle_request: the descriptor is sent and closed, or send_err writes the
\* text, and then (SendStatus) the status.
handle_request(s) ==
    /\ task[s].pc = "handle"
    /\ LET t == task[s]
           ok == t.piece.kind = "file"
           about == [n |-> t.piece.n, uid |-> t.c]
       IN  IF ~sock[t.c].cli
             THEN ServerEnds(s) /\ UNCHANGED errmsg     \* SIGPIPE
             ELSE /\ SendTo(t.c, IF ok THEN <<[type |-> "fd", about |-> about]>>
                                 ELSE IF Complaint(s) = NoText THEN <<>> ELSE <<[type |-> "text", about |-> Complaint(s)]>>)
                  /\ task' = [task EXCEPT ![s] = IF ok THEN NoTask ELSE [@ EXCEPT !.pc = "status"]]
                  /\ errmsg' = [errmsg EXCEPT ![s] = IF ok THEN @ ELSE Complaint(s)]
                  /\ UNCHANGED <<serv, backlog>>
    /\ UNCHANGED <<loop, cli, client, pollfd, mishaps, lines>>
\* Mutant: the text is sent without the status.
MutNoStatus(s) ==
    /\ task[s].pc = "status"
    /\ task' = [task EXCEPT ![s] = NoTask]
    /\ UNCHANGED <<loop, cli, sock, backlog, serv, client, pollfd, errmsg, mishaps, lines>>

\* send_fd with an error code.
SendStatus(s) ==
    /\ task[s].pc = "status"
    /\ LET t == task[s]
       IN  IF ~sock[t.c].cli
             THEN ServerEnds(s)
             ELSE /\ SendTo(t.c, <<[type |-> "status", about |-> [n |-> t.piece.n, uid |-> t.c]]>>)
                  /\ task' = [task EXCEPT ![s] = NoTask]
                  /\ UNCHANGED <<serv, backlog>>
    /\ UNCHANGED <<loop, cli, client, pollfd, errmsg, mishaps, lines>>

ServerStep(s) == handle_request(s) \/ SendStatus(s)
ServerLoop == serv_listen \/ SelectReturns \/ PollReturns \/ serv_accept \/ ServeEntry \/ EndOfScan

OpendNext ==
    \/ StartOpend
    \/ ServerLoop
    \/ \E s \in Servers : ServerStep(s)
    \/ \E c \in OpenClients : ForkedRead(c) \/ cli_conn(c) \/ ForkServer(c) \/ csopen(c) \/ recv_fd(c)
                              \/ ClientExit(c) \/ KillClient(c)

\* The server, the forked servers and a client in recv_fd are scheduled; a
\* client need not read another line.
OpendFairness ==
    /\ WF_opendVars(ServerLoop)
    /\ \A s \in Servers : WF_opendVars(ServerStep(s))
    /\ \A c \in OpenClients : WF_opendVars(ForkedRead(c)) /\ WF_opendVars(recv_fd(c))

OpendSpec == OpendInit /\ [][OpendNext]_opendVars /\ OpendFairness

----------------------------------------------------------------------------
\* The connections the server has open are the ones it watches: each accepted
\* connection is in client[] once, and in the set of select or in pollfd[] once.
\* A descriptor number is used again as soon as it is closed, so an entry that
\* is left behind would be taken for another client's (loop.select.c,
\* loop.poll.c, client.c).
WatchedAreOpen ==
    serv.pc \notin {"start", "dead"} =>
      LET open == {sock[c].fd : c \in OpenClients} \ {Free}
          inTable == {i \in DOMAIN client : client[i].fd \notin {Free, listenfd}}
      IN  /\ {client[i].fd : i \in inTable} = open
          /\ \A i, j \in inTable : client[i].fd = client[j].fd => i = j
          /\ loop = "select" => /\ serv.allset = open \cup {listenfd}
                                /\ \A i \in inTable : i <= serv.maxi
          /\ loop = "poll" => /\ serv.numfd = Cardinality(open) + 1
                              /\ {pollfd[i].fd : i \in 1..serv.numfd} = open \cup {listenfd}

\* csopen returns the answer to what its caller asked: the descriptor of that
\* file when it can be opened, an error when it cannot, and the text on the
\* client's standard error is about its request and names its user.  Left out
\* are clients that sent a request the server reads in two pieces (it is
\* answered twice, and the second answer is taken for the next request's); the
\* text of a request with too many words (it is the last request's); and the
\* user the poll loop names (client[i] and pollfd[i] part company when an entry
\* is removed).
AnswerIsForTheAsker ==
    \A c \in OpenClients :
       LET k == cli[c]
       IN  k.pc = "main" /\ k.answer # "none" /\ ~k.long =>
             /\ k.for = k.line
             /\ (k.answer = "fd") = (k.kind = "file")
             /\ k.kind # "many" => \A t \in k.printed : t.n = k.line /\ (loop # "poll" => t.uid = c)

\* Whatever happens to the server and to other clients, csopen returns: an
\* answer or the end of the connection reaches the client.  Left out is a client
\* whose fork failed before: it holds both ends of its socket pair and waits for
\* itself (open.fe/open.c).
CsopenReturns ==
    \A c \in OpenClients : (cli[c].pc = "wait" /\ cli[c].csfd = "open") ~> (cli[c].pc # "wait")

============================================================================
