------------------------------ MODULE Sessions ------------------------------
(***************************************************************************)
(* The manager's session layer: the select loop of manager/src/main.c, the *)
(* user table of manager/src/user.c, the part of handle_request that reads *)
(* and closes sockets, the kernel objects they work on (descriptor table,  *)
(* listen queue, TCP receive queues, UDP heartbeat socket, terminal), and  *)
(* the client processes at the other end.                                  *)
(*                                                                         *)
(* A client process is used once: a user who comes back is a new process.  *)
(* What a request does to the rooms is left to the module Rooms; here a    *)
(* request matters through the writes it makes to users' sockets.          *)
(***************************************************************************)
EXTENDS Naturals, FiniteSets, Sequences

CONSTANTS
  Clients,      \* client processes, each connecting at most once
  Beating,      \* the clients that send heartbeats (gogup_client, client_out);
                \* the others leave that branch empty (client/src/main.c:71-74)
  NoClient,     \* "no connection" in the descriptor table
  NoBeat,       \* "no heartbeat datagram in the network"
  USER_MAX,     \* length of users[]
  FIRST_FD,     \* lowest descriptor accept() can return: serv_sock + 1
  NFDS,         \* number of descriptors available to accepted connections
  Requests,     \* kinds of request users type after registering
  Lines,        \* kinds of line the operator types: "word", "blank"
  MaxInflight,  \* bound: requests of one client waiting in its socket
  MaxBeats,     \* bound: heartbeats waiting in the UDP socket
  MaxLines      \* bound: lines waiting on the operator's terminal

\* Every kind of request but "register" that the manager answers, by the writes
\* it makes: one to the requester, the replay of a room's history to the
\* requester, or one to each member of a room.
RequestKinds == {"single", "history", "chat"}

ASSUME PopulationAssumption ==
  /\ IsFiniteSet(Clients)
  /\ Beating \subseteq Clients
  /\ NoClient \notin Clients
  /\ Cardinality(Clients) <= NFDS    \* accept() never runs out of descriptors
  /\ NoBeat \notin Nat

ASSUME TableAssumption ==
  /\ USER_MAX \in Nat \ {0}
  /\ FIRST_FD \in Nat \ {0}
  /\ NFDS \in Nat

ASSUME BoundAssumption ==
  /\ Requests \subseteq RequestKinds
  /\ Lines \subseteq {"word", "blank"}
  /\ MaxInflight \in Nat
  /\ MaxBeats \in Nat
  /\ MaxLines \in Nat

Slots   == 0 .. USER_MAX - 1
Fds     == FIRST_FD .. FIRST_FD + NFDS - 1
CMD_FD  == 0
ONLINE  == 1
OFFLINE == 0

VARIABLES
  \* the manager
  users,       \* users[uid] : status and sock (name and id play no part here)
  users_cnt,   \* one more than the highest uid ever allocated
  fdset,       \* client sockets watched by select
  fd_cnt,      \* highest descriptor select is told about
  backup_set,  \* what select reported for this round
  phase,       \* where the loop is: "select", "cmd" (in scanf), "scan", "dead"
  scan,        \* the index i of the loop over users[]
  \* its kernel
  fdTable,     \* descriptor -> connection, NoClient when free
  backlog,     \* connections not yet accepted
  inq,         \* requests received from a client and not yet read
  hbBuf,       \* heartbeats received and not yet read
  stdin,       \* lines typed and not yet read
  \* the clients and the network
  client,      \* life cycle of each client process
  my_user_id,  \* what a client believes its id is
  reply,       \* register responses on their way to a client
  beat         \* the heartbeat a client has in the network

server  == <<users, users_cnt, fdset, fd_cnt, backup_set, phase, scan, fdTable>>
kernel  == <<backlog, inq, hbBuf, stdin>>
outside == <<client, my_user_id, reply, beat>>
vars    == <<server, kernel, outside>>

\* "naming": connected, the user is typing a name.  "waiting": the register
\* request is sent.  "ready": the response has arrived.  "exited": the process
\* is gone.  "written": gone, and the manager has since written to its socket.
ClientStates == {"off", "naming", "waiting", "ready", "exited", "written"}
Up   == {"naming", "waiting", "ready"}
Gone == {"exited", "written"}

TypeOK ==
  /\ users \in [Slots -> [status : {OFFLINE, ONLINE}, sock : {CMD_FD} \cup Fds]]
  /\ users_cnt \in 0 .. USER_MAX
  /\ fdset \subseteq Fds
  /\ fd_cnt \in Nat
  /\ backup_set \subseteq {CMD_FD} \cup Fds
  /\ phase \in {"select", "cmd", "scan", "dead"}
  /\ scan \in 0 .. USER_MAX
  /\ fdTable \in [Fds -> Clients \cup {NoClient}]
  /\ backlog \in Seq(Clients)
  /\ inq \in [Clients -> Seq(Requests \cup {"register"})]
  /\ hbBuf \in Seq(Slots)
  /\ stdin \in Seq(Lines)
  /\ client \in [Clients -> ClientStates]
  /\ my_user_id \in [Clients -> Slots]
  /\ reply \in [Clients -> Seq(Slots)]
  /\ beat \in [Clients -> Slots \cup {NoBeat}]

Init ==
  /\ users = [s \in Slots |-> [status |-> OFFLINE, sock |-> CMD_FD]]
  /\ users_cnt = 0
  /\ fdset = {}
  /\ fd_cnt = FIRST_FD - 1
  /\ backup_set = {}
  /\ phase = "select"
  /\ scan = 0
  /\ fdTable = [f \in Fds |-> NoClient]
  /\ backlog = <<>>
  /\ inq = [c \in Clients |-> <<>>]
  /\ hbBuf = <<>>
  /\ stdin = <<>>
  /\ client = [c \in Clients |-> "off"]
  /\ my_user_id = [c \in Clients |-> 0]
  /\ reply = [c \in Clients |-> <<>>]
  /\ beat = [c \in Clients |-> NoBeat]

-----------------------------------------------------------------------------
(* Sockets, as the manager sees them.                                      *)

\* The connection behind users[s].sock, which may have been closed since.
PeerOf(s) ==
  IF users[s].sock \in Fds THEN fdTable[users[s].sock] ELSE NoClient

\* read() on this descriptor returns at once: with a request or end of file.
Readable(f) ==
  \/ f = CMD_FD /\ stdin # <<>>
  \/ /\ f \in Fds
     /\ fdTable[f] # NoClient
     /\ inq[fdTable[f]] # <<>> \/ client[fdTable[f]] \in Gone

\* Mutant of Selected: select is given fd_cnt, not fd_cnt + 1.
SelectedBelowLimit == {f \in {CMD_FD} \cup {g \in fdset : g < fd_cnt} : Readable(f)}

\* What select reports among the descriptors it is told to watch.
Selected == {f \in {CMD_FD} \cup {g \in fdset : g <= fd_cnt} : Readable(f)}

\* The connections a handler's writes reach.
Reached(T) == {PeerOf(s) : s \in T} \ {NoClient}

\* write() to the sockets of the slots in T; "many" when it writes more than
\* once to each.  The first write to a peer that is gone draws a reset.  Once
\* the reset is in, the next write raises SIGPIPE, which nothing handles.
Write(T, many) ==
  \/ /\ client' = [c \in Clients |-> IF c \in Reached(T) /\ client[c] = "exited"
                                     THEN "written" ELSE client[c]]
     /\ phase' = phase
  \/ /\ \E c \in Reached(T) : client[c] = "written" \/ (many /\ client[c] = "exited")
     /\ phase' = "dead"
     /\ UNCHANGED client

-----------------------------------------------------------------------------
(* The select loop.  Each action below is select() and the branch of the   *)
(* if / else-if chain taken for what it reported; a round then scans       *)
(* users[] with the snapshot in backup_set.                                *)

BeginScan ==
  /\ phase = "select"
  /\ backup_set' = Selected
  /\ phase' = "scan"
  /\ scan' = 0

HandleHeartbeat ==
  /\ hbBuf # <<>>
  /\ BeginScan
  /\ users' = [users EXCEPT ![Head(hbBuf)].status = ONLINE]
  /\ hbBuf' = Tail(hbBuf)
  /\ UNCHANGED <<users_cnt, fdset, fd_cnt, fdTable, backlog, inq, stdin, outside>>

\* Mutants of NewUserId: any slot that is off line; a search that stops before
\* the last slot; the last uid that was allocated.
AnyOffline(u) ==
  \/ users[u].status = OFFLINE
  \/ (\A v \in Slots : users[v].status # OFFLINE) /\ u = 0

NotTheLast(u) ==
  \/ /\ u < USER_MAX - 1
     /\ users[u].status = OFFLINE
     /\ \A v \in Slots : v < u => users[v].status # OFFLINE
  \/ /\ \A v \in Slots : v < USER_MAX - 1 => users[v].status # OFFLINE
     /\ u = 0

LastUserId(u) == u + 1 = users_cnt \/ (u = 0 /\ users_cnt = 0)

\* new_user_id(): the lowest slot that is off line, slot 0 when there is none.
NewUserId(u) ==
  \/ /\ users[u].status = OFFLINE
     /\ \A v \in Slots : v < u => users[v].status # OFFLINE
  \/ /\ \A v \in Slots : users[v].status # OFFLINE
     /\ u = 0

\* The lowest free descriptor, which accept() returns.
LowestFree(f) ==
  /\ fdTable[f] = NoClient
  /\ \A g \in Fds : g < f => fdTable[g] # NoClient

\* Mutant of UsersCntWith: takes the count from the wrong maximum.
CountFds(u) == fd_cnt + 1

UsersCntWith(u) == IF u + 1 > users_cnt THEN u + 1 ELSE users_cnt

HandleNewUser ==
  /\ hbBuf = <<>>
  /\ backlog # <<>>
  /\ BeginScan
  /\ \E f \in Fds, u \in Slots :
       /\ LowestFree(f)
       /\ NewUserId(u)
       /\ fdTable' = [fdTable EXCEPT ![f] = Head(backlog)]
       /\ users' = [users EXCEPT ![u] = [status |-> ONLINE, sock |-> f]]
       /\ fdset' = fdset \cup {f}
       /\ fd_cnt' = IF f > fd_cnt THEN f ELSE fd_cnt
       /\ users_cnt' = UsersCntWith(u)
  /\ backlog' = Tail(backlog)
  /\ UNCHANGED <<inq, hbBuf, stdin, outside>>

\* handle_cmd() sits in scanf("%s"), which skips blank lines and returns only
\* with a word; the commands themselves print, or toggle a log flag.
EnterCmd ==
  /\ hbBuf = <<>>
  /\ backlog = <<>>
  /\ phase = "select"
  /\ stdin # <<>>
  /\ backup_set' = Selected
  /\ phase' = "cmd"
  /\ scan' = 0
  /\ UNCHANGED <<users, users_cnt, fdset, fd_cnt, fdTable, kernel, outside>>

ReadCmd ==
  /\ phase = "cmd"
  /\ stdin # <<>>
  /\ phase' = IF Head(stdin) = "word" THEN "scan" ELSE "cmd"
  /\ stdin' = Tail(stdin)
  /\ UNCHANGED <<users, users_cnt, fdset, fd_cnt, backup_set, scan, fdTable,
                 backlog, inq, hbBuf, outside>>

\* None of the three special descriptors is ready, only users' sockets are.
SelectUsers ==
  /\ hbBuf = <<>>
  /\ backlog = <<>>
  /\ stdin = <<>>
  /\ Selected # {}
  /\ BeginScan
  /\ UNCHANGED <<users, users_cnt, fdset, fd_cnt, fdTable, kernel, outside>>

-----------------------------------------------------------------------------
(* The scan over users[].  It calls handle_request for a slot that is on   *)
(* line and whose socket select reported; the others are passed over.      *)

\* Mutant of Eligible: does not ask whether select reported the socket.
EligibleUnasked(s) == s < users_cnt /\ users[s].status = ONLINE

Eligible(s) ==
  /\ s < users_cnt
  /\ users[s].status = ONLINE
  /\ users[s].sock \in backup_set

NextSlot(s) ==
  /\ phase = "scan"
  /\ s >= scan
  /\ Eligible(s)
  /\ \A k \in Slots : scan <= k /\ k < s => ~Eligible(k)

\* The writes a request can make, by its kind and the slot it is read for.
WritesOf(q, s) ==
  CASE q = "history" -> [to : {{}, {s}}, many : BOOLEAN]
    [] q = "chat"    -> [to : SUBSET Slots, many : {FALSE}]
    [] OTHER         -> [to : {{s}}, many : {FALSE}]

\* read() returns a request: user_register() answers it with the slot it was
\* read for, any other request makes the writes of its kind.
HandleRequest(s) ==
  LET c == PeerOf(s)
      q == Head(inq[c])
  IN  /\ NextSlot(s)
      /\ c # NoClient
      /\ inq[c] # <<>>
      /\ scan' = s + 1
      /\ inq' = [inq EXCEPT ![c] = Tail(@)]
      /\ \E w \in WritesOf(q, s) : Write(w.to, w.many)
      /\ reply' = IF q = "register" /\ client[c] \in Up
                  THEN [reply EXCEPT ![c] = Append(@, s)] ELSE reply
      /\ UNCHANGED <<users, users_cnt, fdset, fd_cnt, backup_set, fdTable,
                     backlog, hbBuf, stdin, my_user_id, beat>>

\* Mutants of UsersAfterClose and FdsetAfterClose: the reset is forgotten.
UsersStay(s) == users
FdsetStays(f) == fdset

UsersAfterClose(s) == [users EXCEPT ![s].status = OFFLINE]
FdsetAfterClose(f) == fdset \ {f}

\* read() returns 0 (end of file) or -1 (the descriptor is already closed).
HandleClosed(s) ==
  LET f == users[s].sock
      c == PeerOf(s)
  IN  /\ NextSlot(s)
      /\ f \in Fds
      /\ \/ c = NoClient
         \/ c # NoClient /\ inq[c] = <<>> /\ client[c] \in Gone
      /\ scan' = s + 1
      /\ fdTable' = [fdTable EXCEPT ![f] = NoClient]
      /\ fdset' = FdsetAfterClose(f)
      /\ users' = UsersAfterClose(s)
      /\ UNCHANGED <<users_cnt, fd_cnt, backup_set, phase, kernel, outside>>

\* A slot that never had a socket has sock 0, the operator's terminal: the line
\* is read as a request, whose code is invalid.
HandleTerminal(s) ==
  /\ NextSlot(s)
  /\ users[s].sock = CMD_FD
  /\ stdin # <<>>
  /\ scan' = s + 1
  /\ stdin' = Tail(stdin)
  /\ UNCHANGED <<users, users_cnt, fdset, fd_cnt, backup_set, phase, fdTable,
                 backlog, inq, hbBuf, outside>>

EndRound ==
  /\ phase = "scan"
  /\ \A s \in Slots : ~NextSlot(s)
  /\ phase' = "select"
  /\ scan' = 0
  /\ backup_set' = {}
  /\ UNCHANGED <<users, users_cnt, fdset, fd_cnt, fdTable, kernel, outside>>

ServerStep ==
  \/ HandleHeartbeat
  \/ HandleNewUser
  \/ EnterCmd
  \/ ReadCmd
  \/ SelectUsers
  \/ \E s \in Slots : HandleRequest(s) \/ HandleClosed(s) \/ HandleTerminal(s)
  \/ EndRound

-----------------------------------------------------------------------------
(* The client processes and the operator.                                  *)

Connect(c) ==
  /\ phase # "dead"
  /\ client[c] = "off"
  /\ client' = [client EXCEPT ![c] = "naming"]
  /\ backlog' = Append(backlog, c)
  /\ UNCHANGED <<server, inq, hbBuf, stdin, my_user_id, reply, beat>>

\* req_register(): the user has typed a name.
Register(c) ==
  /\ phase # "dead"
  /\ client[c] = "naming"
  /\ client' = [client EXCEPT ![c] = "waiting"]
  /\ inq' = [inq EXCEPT ![c] = Append(@, "register")]
  /\ UNCHANGED <<server, backlog, hbBuf, stdin, my_user_id, reply, beat>>

\* handle_cmd(): commands are taken as soon as register has been sent.
Request(c, q) ==
  /\ phase # "dead"
  /\ client[c] \in {"waiting", "ready"}
  /\ Len(inq[c]) < MaxInflight
  /\ inq' = [inq EXCEPT ![c] = Append(@, q)]
  /\ UNCHANGED <<server, backlog, hbBuf, stdin, outside>>

\* handle_res(), for the register response.
Receive(c) ==
  /\ client[c] \in {"waiting", "ready"}
  /\ reply[c] # <<>>
  /\ my_user_id' = [my_user_id EXCEPT ![c] = Head(reply[c])]
  /\ reply' = [reply EXCEPT ![c] = Tail(@)]
  /\ client' = [client EXCEPT ![c] = "ready"]
  /\ UNCHANGED <<server, kernel, beat>>

\* send_heartbeat(): select timed out after five idle seconds.
SendHeartbeat(c) ==
  /\ phase # "dead"
  /\ client[c] \in {"waiting", "ready"}
  /\ beat[c] = NoBeat
  /\ beat' = [beat EXCEPT ![c] = my_user_id[c]]
  /\ UNCHANGED <<server, kernel, client, my_user_id, reply>>

\* The datagram reaches the manager's UDP socket, in any order, or is lost.
Arrive(c) ==
  /\ beat[c] # NoBeat
  /\ Len(hbBuf) < MaxBeats
  /\ hbBuf' = Append(hbBuf, beat[c])
  /\ beat' = [beat EXCEPT ![c] = NoBeat]
  /\ UNCHANGED <<server, backlog, inq, stdin, client, my_user_id, reply>>

Lose(c) ==
  /\ beat[c] # NoBeat
  /\ beat' = [beat EXCEPT ![c] = NoBeat]
  /\ UNCHANGED <<server, kernel, client, my_user_id, reply>>

\* /exit, or the process dies.  What it sent is still delivered, except when it
\* leaves responses unread: then the connection is reset and the rest is lost.
Exit(c) ==
  /\ client[c] \in Up
  /\ client' = [client EXCEPT ![c] = "exited"]
  /\ reply' = [reply EXCEPT ![c] = <<>>]
  /\ inq' \in {inq, [inq EXCEPT ![c] = <<>>]}
  /\ UNCHANGED <<server, backlog, hbBuf, stdin, my_user_id, beat>>

TypeLine(l) ==
  /\ phase # "dead"
  /\ Len(stdin) < MaxLines
  /\ stdin' = Append(stdin, l)
  /\ UNCHANGED <<server, backlog, inq, hbBuf, outside>>

EnvironmentStep ==
  \/ \E c \in Clients :
       \/ Connect(c)
       \/ Register(c)
       \/ \E q \in Requests : Request(c, q)
       \/ Receive(c)
       \/ Arrive(c)
       \/ Lose(c)
       \/ Exit(c)
  \/ \E c \in Beating : SendHeartbeat(c)
  \/ \E l \in Lines : TypeLine(l)

Next == ServerStep \/ EnvironmentStep

Spec == Init /\ [][Next]_vars

\* The manager is one process whose loop never waits by choice, and a client
\* reads its socket whenever its select reports it.  Users, the operator and
\* the network owe nothing.
Fairness ==
  /\ WF_vars(ServerStep)
  /\ \A c \in Clients : WF_vars(Receive(c))

FairSpec == Spec /\ Fairness

-----------------------------------------------------------------------------
(* What the session layer promises.                                        *)

\* The user table and the descriptor table move in lockstep: uid s is on line
\* exactly while descriptor FIRST_FD + s is open, and holds that descriptor.
\* Nothing in the code says so; new_user_id() and accept() each take the lowest
\* free number and handle_request() frees both (req.c:25-27).
SlotFdLockstep ==
  \A s \in Slots :
    LET f == FIRST_FD + s
    IN  IF users[s].status = ONLINE
        THEN users[s].sock = f /\ fdTable[f] # NoClient
        ELSE users[s].sock \in {CMD_FD, f} /\ fdTable[f] = NoClient

\* The loop is single threaded, so read() in handle_request (req.c:21) must
\* never wait: whatever the scan is about to read is readable, or closed.
CanRead(s) ==
  IF users[s].sock \in Fds
  THEN PeerOf(s) = NoClient \/ Readable(users[s].sock)
  ELSE stdin # <<>>

ReadNeverBlocks == \A s \in Slots : NextSlot(s) => CanRead(s)

\* The id user_register() sends (req.c:96), once sent and once received, is the
\* slot that is on line with this client's own connection.
Owns(c, s) == users[s].status = ONLINE /\ PeerOf(s) = c

ClientIdIsItsSlot ==
  \A c \in Clients :
    /\ \A i \in DOMAIN reply[c] : Owns(c, reply[c][i])
    /\ client[c] = "ready" => Owns(c, my_user_id[c])

\* select is asked about open descriptors only, so it never fails with EBADF,
\* and about all of them, so no connection goes unwatched (main.c:162, req.c:26).
FdsetIsOpen == fdset = {f \in Fds : fdTable[f] # NoClient}

\* Every open connection is the socket of a user who is on line: the scan can
\* reach it, and its end of file will close it.
NoOrphan ==
  \A f \in Fds : fdTable[f] # NoClient =>
    \E s \in Slots : users[s].status = ONLINE /\ users[s].sock = f

\* While there is a slot for every client, a user who is on line keeps its socket
\* until it goes off line: no accept gives the slot away (user.c:7-13,
\* main.c:157-160).
IdentityStable ==
  [][\A s \in Slots : users[s].status = ONLINE => users'[s].sock = users[s].sock]_vars

\* What carries SlotFdLockstep and ReadNeverBlocks from step to step when no
\* client sends heartbeats.  No descriptor beyond the table is in use:
NothingAboveTable == \A f \in Fds : f >= FIRST_FD + USER_MAX => fdTable[f] = NoClient

\* a client is waiting to be accepted or has one connection, never both;
OneConnectionEach ==
  /\ \A f, g \in Fds : fdTable[f] = fdTable[g] /\ fdTable[f] # NoClient => f = g
  /\ \A i, j \in DOMAIN backlog : backlog[i] = backlog[j] => i = j
  /\ \A i \in DOMAIN backlog :
       client[backlog[i]] # "off" /\ \A f \in Fds : fdTable[f] # backlog[i]
  /\ \A f \in Fds : fdTable[f] # NoClient => client[fdTable[f]] # "off"

\* what select reported and the scan has not reached yet is still readable;
ScanIsCurrent ==
  phase \in {"cmd", "scan"} =>
    \A s \in Slots : scan <= s /\ Eligible(s) => Readable(users[s].sock)

\* and there are no heartbeats, in the network or in the manager's socket.
NoHeartbeats == hbBuf = <<>> /\ \A c \in Clients : beat[c] = NoBeat

\* No response is on its way to a client that has left.
NoReplyToTheGone == \A c \in Clients : client[c] \in Gone => reply[c] = <<>>

Inductive ==
  /\ SlotFdLockstep
  /\ NothingAboveTable
  /\ OneConnectionEach
  /\ ScanIsCurrent
  /\ NoHeartbeats

\* With heartbeats a read may wait; then the slot has never had a socket of its
\* own, or another slot has the same one.
BlockedOnlyByGhost ==
  \A s \in Slots : NextSlot(s) /\ ~CanRead(s) =>
    \/ users[s].sock = CMD_FD
    \/ \E t \in Slots \ {s} : users[t].sock = users[s].sock

\* The manager answers the register request of client c, unless c leaves first
\* or the manager is killed by a write.
Answered(c) ==
  client[c] = "waiting" ~> client[c] = "ready" \/ client[c] \in Gone \/ phase = "dead"

\* A client that has left, accepted or not, with requests unread or not, is in
\* the end taken out of the descriptor table, so that its slot can be given to
\* another, unless the manager is killed by a write (req.c:24-28).
DepartureNoticed(c) ==
  client[c] \in Gone
    ~> \/ \A f \in Fds : fdTable[f] # c /\ \A i \in DOMAIN backlog : backlog[i] # c
       \/ phase = "dead"

\* The same of every client and without the second excuse, as the readme states
\* it (manager/readme:8): a client that sends a request and stays gets its
\* response.
EveryRegisterAnswered ==
  \A c \in Clients : client[c] = "waiting" ~> client[c] \in {"ready"} \cup Gone

\* The same once heartbeats no longer keep the loop busy (main.c:70-77).
AnsweredAfterHeartbeats == <>[](hbBuf = <<>>) => EveryRegisterAnswered

\* The session layer implements Identity: a slot that is on line is held by the
\* client at the other end of its socket.
Ids ==
  INSTANCE Identity WITH
    NoSlot   <- USER_MAX,
    holder   <- [s \in Slots |-> IF users[s].status = ONLINE THEN PeerOf(s) ELSE NoClient],
    admitted <- {c \in Clients : client[c] # "off" /\ \A i \in DOMAIN backlog : backlog[i] # c},
    told     <- [c \in Clients |-> IF client[c] = "ready" THEN my_user_id[c] ELSE USER_MAX],
    gone     <- {c \in Clients : client[c] \in Gone}

ImplementsIdentity == Ids!Spec
=============================================================================
