--------------------------- MODULE SessionsProofs ---------------------------
(* Proofs about the session layer of Sessions.                             *)
EXTENDS Sessions, TLAPS, FiniteSetTheorems, SequenceTheorems

-----------------------------------------------------------------------------
(* Type correctness.                                                       *)

LEMMA ConstantFacts ==
  /\ USER_MAX \in Nat /\ USER_MAX > 0
  /\ FIRST_FD \in Nat /\ FIRST_FD > 0
  /\ NFDS \in Nat
  /\ 0 \in Slots
  /\ Slots \subseteq Nat
  /\ Fds \subseteq Nat
  /\ CMD_FD \notin Fds
  /\ "register" \notin Requests
BY TableAssumption, BoundAssumption DEF Slots, Fds, CMD_FD, RequestKinds

\* Setting the status of a slot keeps the type of the table.
LEMMA StatusType ==
  ASSUME NEW U \in [Slots -> [status : {OFFLINE, ONLINE}, sock : {CMD_FD} \cup Fds]],
         NEW s \in Slots, NEW x \in {OFFLINE, ONLINE}
  PROVE  [U EXCEPT ![s].status = x]
           \in [Slots -> [status : {OFFLINE, ONLINE}, sock : {CMD_FD} \cup Fds]]
<1> DEFINE User == [status : {OFFLINE, ONLINE}, sock : {CMD_FD} \cup Fds]
<1>1. U[s] \in User
  OBVIOUS
<1>2. [U[s] EXCEPT !.status = x] \in User
  BY <1>1
<1> QED
  BY <1>2

LEMMA TypeInit == Init => TypeOK
BY ConstantFacts DEF Init, TypeOK, ClientStates, ONLINE, OFFLINE

\* The steps of the select loop.
LEMMA TypeServer == TypeOK /\ ServerStep => TypeOK'
<1> SUFFICES ASSUME TypeOK, ServerStep
             PROVE  TypeOK'
  OBVIOUS
<1> USE ConstantFacts
<1>0. Selected \subseteq {CMD_FD} \cup Fds
  BY DEF Selected, TypeOK
<1>1. CASE HandleHeartbeat
  <2>1. Head(hbBuf) \in Slots /\ Tail(hbBuf) \in Seq(Slots)
    BY <1>1 DEF HandleHeartbeat, TypeOK
  <2>2. users' \in [Slots -> [status : {OFFLINE, ONLINE}, sock : {CMD_FD} \cup Fds]]
    BY <1>1, <2>1, StatusType DEF HandleHeartbeat, TypeOK
  <2> QED
    BY <1>0, <1>1, <2>1, <2>2 DEF HandleHeartbeat, BeginScan, TypeOK, outside
<1>2. CASE HandleNewUser
  BY <1>0, <1>2 DEF HandleNewUser, BeginScan, TypeOK, outside, ONLINE, UsersCntWith, Slots, Fds
<1>3. CASE EnterCmd
  BY <1>0, <1>3 DEF EnterCmd, TypeOK, kernel, outside
<1>4. CASE ReadCmd
  BY <1>4 DEF ReadCmd, TypeOK, outside
<1>5. CASE SelectUsers
  BY <1>0, <1>5 DEF SelectUsers, BeginScan, TypeOK, kernel, outside
<1>6. ASSUME NEW s \in Slots, HandleRequest(s)
      PROVE  TypeOK'
  <2> DEFINE c == PeerOf(s)
             q == Head(inq[c])
  <2>1. c \in Clients /\ inq[c] # <<>>
    BY <1>6 DEF HandleRequest, PeerOf, TypeOK
  <2>2. inq' \in [Clients -> Seq(Requests \cup {"register"})]
    BY <1>6, <2>1 DEF HandleRequest, TypeOK
  <2>3. reply' \in [Clients -> Seq(Slots)]
    BY <1>6, <2>1 DEF HandleRequest, TypeOK
  <2>4. scan' \in 0 .. USER_MAX
    BY <1>6 DEF HandleRequest, Slots
  <2>5. PICK w \in WritesOf(q, s) : Write(w.to, w.many)
    BY <1>6 DEF HandleRequest
  <2>6. phase' \in {"select", "cmd", "scan", "dead"} /\ client' \in [Clients -> ClientStates]
    BY <2>5 DEF Write, TypeOK, ClientStates
  <2> QED
    BY <1>6, <2>2, <2>3, <2>4, <2>6 DEF HandleRequest, TypeOK
<1>7. ASSUME NEW s \in Slots, HandleClosed(s)
      PROVE  TypeOK'
  <2>1. users' \in [Slots -> [status : {OFFLINE, ONLINE}, sock : {CMD_FD} \cup Fds]]
    BY <1>7, StatusType DEF HandleClosed, UsersAfterClose, TypeOK
  <2>2. scan' \in 0 .. USER_MAX
    BY <1>7 DEF HandleClosed, Slots
  <2> QED
    BY <1>7, <2>1, <2>2 DEF HandleClosed, FdsetAfterClose, TypeOK, kernel, outside
<1>8. ASSUME NEW s \in Slots, HandleTerminal(s)
      PROVE  TypeOK'
  BY <1>8 DEF HandleTerminal, TypeOK, outside, Slots
<1>9. CASE EndRound
  BY <1>9 DEF EndRound, TypeOK, kernel, outside
<1> QED
  BY <1>1, <1>2, <1>3, <1>4, <1>5, <1>6, <1>7, <1>8, <1>9 DEF ServerStep

\* The steps of the clients, the network and the operator.
LEMMA TypeEnvironment == TypeOK /\ EnvironmentStep => TypeOK'
<1> SUFFICES ASSUME TypeOK, EnvironmentStep
             PROVE  TypeOK'
  OBVIOUS
<1> USE ConstantFacts DEF server, kernel, outside
<1>1. ASSUME NEW c \in Clients, Connect(c)
      PROVE  TypeOK'
  BY <1>1 DEF Connect, TypeOK, ClientStates
<1>2. ASSUME NEW c \in Clients, Register(c)
      PROVE  TypeOK'
  BY <1>2 DEF Register, TypeOK, ClientStates
<1>3. ASSUME NEW c \in Clients, NEW q \in Requests, Request(c, q)
      PROVE  TypeOK'
  BY <1>3 DEF Request, TypeOK
<1>4. ASSUME NEW c \in Clients, Receive(c)
      PROVE  TypeOK'
  BY <1>4 DEF Receive, TypeOK, ClientStates
<1>5. ASSUME NEW c \in Clients, Arrive(c)
      PROVE  TypeOK'
  BY <1>5 DEF Arrive, TypeOK
<1>6. ASSUME NEW c \in Clients, Lose(c)
      PROVE  TypeOK'
  BY <1>6 DEF Lose, TypeOK
<1>7. ASSUME NEW c \in Clients, Exit(c)
      PROVE  TypeOK'
  <2>1. <<>> \in Seq(Slots) /\ <<>> \in Seq(Requests \cup {"register"})
    OBVIOUS
  <2>2. [inq EXCEPT ![c] = <<>>] \in [Clients -> Seq(Requests \cup {"register"})]
    BY <2>1 DEF TypeOK
  <2>3. inq' \in [Clients -> Seq(Requests \cup {"register"})]
    BY <1>7, <2>2 DEF Exit, TypeOK
  <2>4. reply' \in [Clients -> Seq(Slots)]
    BY <1>7, <2>1 DEF Exit, TypeOK
  <2> QED
    BY <1>7, <2>3, <2>4 DEF Exit, TypeOK, ClientStates
<1>8. ASSUME NEW c \in Beating, SendHeartbeat(c)
      PROVE  TypeOK'
  BY <1>8, PopulationAssumption DEF SendHeartbeat, TypeOK
<1>9. ASSUME NEW l \in Lines, TypeLine(l)
      PROVE  TypeOK'
  BY <1>9 DEF TypeLine, TypeOK
<1> QED
  BY <1>1, <1>2, <1>3, <1>4, <1>5, <1>6, <1>7, <1>8, <1>9 DEF EnvironmentStep

LEMMA TypeStutter == TypeOK /\ UNCHANGED vars => TypeOK'
BY DEF TypeOK, vars, server, kernel, outside

\* Every variable of the session layer keeps its type, whatever the number of
\* clients, slots and descriptors, heartbeats included.
THEOREM TypeCorrect == Spec => []TypeOK
<1>1. TypeOK /\ [Next]_vars => TypeOK'
  BY TypeServer, TypeEnvironment, TypeStutter DEF Next
<1> QED
  BY <1>1, TypeInit, PTL DEF Spec

LEMMA FdsetStep == TypeOK /\ FdsetIsOpen /\ [Next]_vars => FdsetIsOpen'
<1> SUFFICES ASSUME TypeOK, FdsetIsOpen, [Next]_vars
             PROVE  FdsetIsOpen'
  OBVIOUS
<1>0. /\ fdTable \in [Fds -> Clients \cup {NoClient}]
      /\ NoClient \notin Clients
      /\ backlog \in Seq(Clients)
      /\ fdset = {f \in Fds : fdTable[f] # NoClient}
  BY PopulationAssumption DEF TypeOK, FdsetIsOpen
<1>1. CASE UNCHANGED <<fdset, fdTable>>
  BY <1>1 DEF FdsetIsOpen
<1>2. CASE HandleNewUser
  <2>1. PICK f \in Fds : /\ fdTable' = [fdTable EXCEPT ![f] = Head(backlog)]
                         /\ fdset' = fdset \cup {f}
    BY <1>2 DEF HandleNewUser
  <2>2. Head(backlog) # NoClient
    <3>1. backlog # <<>>
      BY <1>2 DEF HandleNewUser
    <3>2. Head(backlog) \in Clients
      BY <1>0, <3>1
    <3> QED
      BY <1>0, <3>2
  <2>3. \A g \in Fds : fdTable'[g] = IF g = f THEN Head(backlog) ELSE fdTable[g]
    BY <1>0, <2>1
  <2> QED
    BY <1>0, <2>1, <2>2, <2>3 DEF FdsetIsOpen
<1>3. ASSUME NEW s \in Slots, HandleClosed(s)
      PROVE  FdsetIsOpen'
  <2> DEFINE f == users[s].sock
  <2>1. /\ f \in Fds
        /\ fdTable' = [fdTable EXCEPT ![f] = NoClient]
        /\ fdset' = fdset \ {f}
    BY <1>3 DEF HandleClosed, FdsetAfterClose
  <2> HIDE DEF f
  <2>2. \A g \in Fds : fdTable'[g] = IF g = f THEN NoClient ELSE fdTable[g]
    BY <1>0, <2>1
  <2> QED
    BY <1>0, <2>1, <2>2 DEF FdsetIsOpen
<1>4. CASE EnvironmentStep
  BY <1>1, <1>4 DEF EnvironmentStep, Connect, Register, Request, Receive, SendHeartbeat, Arrive,
                    Lose, Exit, TypeLine, server
<1> QED
  BY <1>1, <1>2, <1>3, <1>4
  DEF Next, ServerStep, HandleHeartbeat, EnterCmd, ReadCmd, SelectUsers, HandleRequest,
      HandleTerminal, EndRound, vars, server

\* select is asked about the open descriptors, all of them and no other, with
\* heartbeats and with a full table too (main.c:162, req.c:24-27).
THEOREM FdsetOpen == Spec => []FdsetIsOpen
<1>1. Init => FdsetIsOpen
  BY DEF Init, FdsetIsOpen
<1> QED
  BY <1>1, FdsetStep, TypeCorrect, PTL DEF Spec

LEMMA RequestWrites ==
  ASSUME NEW s \in Slots, HandleRequest(s)
  PROVE  \E T \in SUBSET Slots, m \in BOOLEAN : Write(T, m)
BY DEF HandleRequest, WritesOf

\* The three ways in which a step can touch a client's one connection: the
\* client queues for it, accept() makes it, the end of file closes it.
LEMMA OneConnectionStep ==
  ASSUME TypeOK, OneConnectionEach, [Next]_vars
  PROVE  OneConnectionEach'
<1> USE DEF server, kernel, outside
<1>0. /\ fdTable \in [Fds -> Clients \cup {NoClient}]
      /\ backlog \in Seq(Clients)
      /\ client \in [Clients -> ClientStates]
      /\ NoClient \notin Clients
  BY PopulationAssumption DEF TypeOK
<1>1. ASSUME UNCHANGED <<fdTable, backlog>>,
             \A c \in Clients : client'[c] = "off" => client[c] = "off"
      PROVE  OneConnectionEach'
  <2>1. \A i \in DOMAIN backlog : backlog[i] \in Clients
    BY <1>0
  <2> QED
    BY <1>0, <1>1, <2>1 DEF OneConnectionEach
<1>2. CASE HandleNewUser
  <2>1. PICK f \in Fds : fdTable' = [fdTable EXCEPT ![f] = Head(backlog)]
    BY <1>2 DEF HandleNewUser
  <2>2. /\ Head(backlog) \in Clients /\ Head(backlog) # NoClient
        /\ backlog # <<>> /\ 1 \in DOMAIN backlog /\ backlog[1] = Head(backlog)
    BY <1>0, <1>2 DEF HandleNewUser
  <2>3. /\ backlog' = Tail(backlog)
        /\ DOMAIN Tail(backlog) = 1 .. Len(backlog) - 1
        /\ \A i \in DOMAIN Tail(backlog) :
             i + 1 \in DOMAIN backlog /\ i + 1 # 1 /\ Tail(backlog)[i] = backlog[i + 1]
    BY <1>0, <1>2, <2>2 DEF HandleNewUser
  <2>4. \A i \in DOMAIN Tail(backlog) : Tail(backlog)[i] # Head(backlog)
    BY <2>2, <2>3 DEF OneConnectionEach
  <2>5. client' = client /\ client[Head(backlog)] # "off"
    BY <1>2, <2>2 DEF HandleNewUser, OneConnectionEach
  <2>6. \A g \in Fds : fdTable'[g] = IF g = f THEN Head(backlog) ELSE fdTable[g]
    BY <1>0, <2>1
  <2>7. \A g \in Fds : fdTable[g] # Head(backlog)
    BY <2>2 DEF OneConnectionEach
  <2>8. \A g, h \in Fds : fdTable'[g] = fdTable'[h] /\ fdTable'[g] # NoClient => g = h
    BY <2>6, <2>7 DEF OneConnectionEach
  <2>9. \A i, j \in DOMAIN Tail(backlog) : Tail(backlog)[i] = Tail(backlog)[j] => i = j
    <3> SUFFICES ASSUME NEW i \in DOMAIN Tail(backlog), NEW j \in DOMAIN Tail(backlog),
                        Tail(backlog)[i] = Tail(backlog)[j]
                 PROVE  i = j
      OBVIOUS
    <3>1. i + 1 = j + 1
      BY <2>3 DEF OneConnectionEach
    <3> QED
      BY <2>3, <3>1
  <2>10. \A i \in DOMAIN Tail(backlog) :
           client[Tail(backlog)[i]] # "off" /\ \A g \in Fds : fdTable'[g] # Tail(backlog)[i]
    BY <2>3, <2>4, <2>6 DEF OneConnectionEach
  <2>11. \A g \in Fds : fdTable'[g] # NoClient => client[fdTable'[g]] # "off"
    BY <2>5, <2>6 DEF OneConnectionEach
  <2> QED
    BY <2>3, <2>5, <2>8, <2>9, <2>10, <2>11 DEF OneConnectionEach
<1>3. ASSUME NEW s \in Slots, HandleClosed(s)
      PROVE  OneConnectionEach'
  <2>1. UNCHANGED <<backlog, client>>
    BY <1>3 DEF HandleClosed
  <2>2. \A f \in Fds : fdTable'[f] = NoClient \/ fdTable'[f] = fdTable[f]
    BY <1>0, <1>3 DEF HandleClosed
  <2>3. \A i \in DOMAIN backlog : backlog[i] \in Clients
    BY <1>0
  <2> QED
    BY <1>0, <2>1, <2>2, <2>3 DEF OneConnectionEach
<1>4. ASSUME NEW s \in Slots, HandleRequest(s)
      PROVE  OneConnectionEach'
  <2>1. PICK T \in SUBSET Slots, m \in BOOLEAN : Write(T, m)
    BY <1>4, RequestWrites
  <2>2. \A c \in Clients : client'[c] = "off" => client[c] = "off"
    BY <1>0, <2>1 DEF Write
  <2> QED
    BY <1>1, <1>4, <2>2 DEF HandleRequest
<1>5. ASSUME NEW c \in Clients, Connect(c)
      PROVE  OneConnectionEach'
  <2>1. /\ client[c] = "off" /\ client' = [client EXCEPT ![c] = "naming"]
        /\ backlog' = Append(backlog, c)
        /\ fdTable' = fdTable
    BY <1>5 DEF Connect
  <2>2. /\ DOMAIN backlog' = DOMAIN backlog \cup {Len(backlog) + 1}
        /\ Len(backlog) + 1 \notin DOMAIN backlog
        /\ backlog'[Len(backlog) + 1] = c
        /\ \A i \in DOMAIN backlog : backlog'[i] = backlog[i] /\ backlog[i] \in Clients
    BY <1>0, <2>1
  <2>3. \A i \in DOMAIN backlog : backlog[i] # c
    BY <2>1 DEF OneConnectionEach
  <2>4. \A f \in Fds : fdTable[f] # c
    BY <1>0, <2>1 DEF OneConnectionEach
  <2>5. \A d \in Clients : client'[d] # "off" <=> client[d] # "off" \/ d = c
    BY <1>0, <2>1
  <2>6. \A i, j \in DOMAIN backlog' : backlog'[i] = backlog'[j] => i = j
    BY <2>2, <2>3 DEF OneConnectionEach
  <2>7. \A i \in DOMAIN backlog' :
          client'[backlog'[i]] # "off" /\ \A f \in Fds : fdTable[f] # backlog'[i]
    BY <2>2, <2>4, <2>5 DEF OneConnectionEach
  <2> QED
    BY <1>0, <2>1, <2>5, <2>6, <2>7 DEF OneConnectionEach
<1>6. ASSUME NEW c \in Clients, Register(c) \/ Receive(c) \/ Exit(c)
      PROVE  OneConnectionEach'
  <2>1. \A d \in Clients : client'[d] = "off" => client[d] = "off"
    BY <1>0, <1>6 DEF Register, Receive, Exit
  <2> QED
    BY <1>1, <1>6, <2>1 DEF Register, Receive, Exit
<1>7. CASE UNCHANGED <<fdTable, backlog, client>>
  BY <1>1, <1>7
<1>8. CASE ServerStep
  BY <1>2, <1>3, <1>4, <1>7, <1>8
  DEF ServerStep, HandleHeartbeat, EnterCmd, ReadCmd, SelectUsers, HandleTerminal, EndRound
<1>9. CASE EnvironmentStep
  BY <1>5, <1>6, <1>7, <1>9, PopulationAssumption
  DEF EnvironmentStep, Request, Arrive, Lose, SendHeartbeat, TypeLine
<1> QED
  BY <1>7, <1>8, <1>9 DEF Next, vars

LEMMA OneConnectionAlways == Spec => [](TypeOK /\ OneConnectionEach)
<1>1. Init => OneConnectionEach
  BY DEF Init, OneConnectionEach
<1>2. TypeOK /\ OneConnectionEach /\ [Next]_vars => OneConnectionEach'
  BY OneConnectionStep
<1> QED
  BY <1>1, <1>2, TypeCorrect, PTL DEF Spec

-----------------------------------------------------------------------------
(* Whatever the heartbeats do.                                             *)

\* What select reported is readable until a slot the scan has passed has read it.
StillReadable ==
  phase \in {"cmd", "scan"} =>
    \A f \in backup_set \cap Fds :
      \/ fdTable[f] = NoClient
      \/ Readable(f)
      \/ \E t \in Slots : t < scan /\ users[t].sock = f

LEMMA StillReadableStep ==
  ASSUME TypeOK, OneConnectionEach, StillReadable, [Next]_vars
  PROVE  StillReadable'
<1> USE ConstantFacts DEF server, kernel, outside
<1>0. CMD_FD \notin Fds
  OBVIOUS
<1>1. ASSUME backup_set' = Selected, UNCHANGED <<inq, client>>,
             \A f \in Fds : fdTable'[f] = fdTable[f] \/ fdTable[f] = NoClient
      PROVE  StillReadable'
  <2>1. ASSUME NEW f \in Fds, f \in Selected
        PROVE  Readable(f)'
    <3>1. Readable(f) /\ fdTable[f] # NoClient
      BY <1>0, <2>1 DEF Selected, Readable
    <3> QED
      BY <1>0, <1>1, <3>1 DEF Readable
  <2> QED
    BY <1>1, <2>1 DEF StillReadable
\* The scan goes on: what it leaves in the sockets stays readable.
<1>2. ASSUME phase' \in {"cmd", "scan"} => phase \in {"cmd", "scan"},
             scan' \in Nat, scan' >= scan,
             UNCHANGED backup_set,
             \A t \in Slots : users'[t].sock = users[t].sock,
             \A f \in Fds : fdTable'[f] = fdTable[f] \/ fdTable'[f] = NoClient,
             \A f \in Fds : fdTable'[f] = fdTable[f] /\ Readable(f) =>
               Readable(f)' \/ \E t \in Slots : t < scan' /\ users[t].sock = f
      PROVE  StillReadable'
  <2> SUFFICES ASSUME phase \in {"cmd", "scan"}, NEW f \in backup_set \cap Fds
               PROVE  \/ fdTable'[f] = NoClient
                      \/ Readable(f)'
                      \/ \E t \in Slots : t < scan' /\ users'[t].sock = f
    BY <1>2 DEF StillReadable
  <2>1. CASE fdTable'[f] = NoClient
    BY <2>1
  <2>2. CASE fdTable'[f] = fdTable[f] /\ Readable(f)
    BY <1>2, <2>2
  <2>3. ASSUME NEW t \in Slots, t < scan, users[t].sock = f
        PROVE  t < scan' /\ users'[t].sock = f
    BY <1>2, <2>3 DEF TypeOK
  <2> QED
    BY <1>2, <2>1, <2>2, <2>3 DEF StillReadable
\* A step that leaves the loop where it is and takes nothing from the sockets.
<1>3. ASSUME UNCHANGED <<users, fdTable, backup_set, phase, scan>>,
             \A c \in Clients :
               inq[c] # <<>> \/ client[c] \in Gone => inq'[c] # <<>> \/ client'[c] \in Gone
      PROVE  StillReadable'
  <2>1. \A f \in Fds : Readable(f) => Readable(f)'
    BY <1>0, <1>3 DEF Readable, TypeOK
  <2> QED
    BY <1>3, <2>1 DEF StillReadable
<1>4. CASE HandleHeartbeat
  <2>1. UNCHANGED <<inq, client, fdTable>>
    BY <1>4 DEF HandleHeartbeat
  <2> QED
    BY <1>1, <1>4, <2>1 DEF HandleHeartbeat, BeginScan
<1>5. CASE HandleNewUser
  <2>1. PICK f \in Fds : LowestFree(f) /\ fdTable' = [fdTable EXCEPT ![f] = Head(backlog)]
    BY <1>5 DEF HandleNewUser
  <2>2. \A g \in Fds : fdTable'[g] = fdTable[g] \/ fdTable[g] = NoClient
    BY <2>1 DEF LowestFree, TypeOK
  <2>3. UNCHANGED <<inq, client>>
    BY <1>5 DEF HandleNewUser
  <2> QED
    BY <1>1, <1>5, <2>2, <2>3 DEF HandleNewUser, BeginScan
<1>6. CASE EnterCmd \/ SelectUsers
  <2>1. UNCHANGED <<inq, client, fdTable>> /\ backup_set' = Selected
    BY <1>6 DEF EnterCmd, SelectUsers, BeginScan
  <2> QED
    BY <1>1, <2>1
<1>7. CASE ReadCmd
  <2>1. UNCHANGED <<users, fdTable, backup_set, scan, inq, client>> /\ phase = "cmd"
    BY <1>7 DEF ReadCmd
  <2>2. \A f \in Fds : Readable(f) => Readable(f)'
    BY <1>0, <2>1 DEF Readable
  <2> QED
    BY <1>2, <2>1, <2>2 DEF TypeOK
<1>8. ASSUME NEW s \in Slots, HandleRequest(s)
      PROVE  StillReadable'
  <2> DEFINE c == PeerOf(s)
  <2>1. /\ UNCHANGED <<users, fdTable, backup_set>>
        /\ phase = "scan" /\ scan <= s /\ scan' = s + 1
        /\ c # NoClient
        /\ inq' = [inq EXCEPT ![c] = Tail(@)]
    BY <1>8 DEF HandleRequest, NextSlot
  <2>2. users[s].sock \in Fds /\ c = fdTable[users[s].sock]
    BY <2>1 DEF PeerOf
  <2>3. \A d \in Clients : client[d] \in Gone => client'[d] \in Gone
    <3>1. PICK T \in SUBSET Slots, m \in BOOLEAN : Write(T, m)
      BY <1>8, RequestWrites
    <3> QED
      BY <3>1 DEF Write, TypeOK, Gone
  <2>4. ASSUME NEW f \in Fds, Readable(f)
        PROVE  Readable(f)' \/ \E t \in Slots : t < scan' /\ users[t].sock = f
    <3>1. CASE fdTable[f] = c
      <4>1. f = users[s].sock
        BY <2>1, <2>2, <3>1 DEF OneConnectionEach
      <4> QED
        BY <2>1, <4>1
    <3>2. CASE fdTable[f] # c
      <4>1. fdTable[f] \in Clients
        BY <1>0, <2>4 DEF Readable, TypeOK
      <4>2. inq'[fdTable[f]] = inq[fdTable[f]]
        BY <2>1, <3>2, <4>1 DEF TypeOK
      <4> QED
        BY <1>0, <2>1, <2>3, <2>4, <4>1, <4>2 DEF Readable
    <3> QED
      BY <3>1, <3>2
  <2>5. scan' \in Nat /\ scan' >= scan
    BY <2>1 DEF TypeOK, Slots
  <2> HIDE DEF c
  <2> QED
    BY <1>2, <2>1, <2>4, <2>5
<1>9. ASSUME NEW s \in Slots, HandleClosed(s)
      PROVE  StillReadable'
  <2>1. /\ UNCHANGED <<backup_set, phase, inq, client, stdin>>
        /\ scan <= s /\ scan' = s + 1
        /\ users' = [users EXCEPT ![s].status = OFFLINE]
        /\ users[s].sock \in Fds
        /\ fdTable' = [fdTable EXCEPT ![users[s].sock] = NoClient]
    BY <1>9 DEF HandleClosed, NextSlot, UsersAfterClose
  <2>2. \A t \in Slots : users'[t].sock = users[t].sock
    BY <2>1 DEF TypeOK
  <2>3. \A f \in Fds : fdTable'[f] = fdTable[f] \/ fdTable'[f] = NoClient
    BY <2>1 DEF TypeOK
  <2>4. \A f \in Fds : fdTable'[f] = fdTable[f] /\ Readable(f) => Readable(f)'
    BY <1>0, <2>1 DEF Readable
  <2>5. scan' \in Nat /\ scan' >= scan
    BY <2>1 DEF TypeOK, Slots
  <2> QED
    BY <1>2, <2>1, <2>2, <2>3, <2>4, <2>5
<1>10. ASSUME NEW s \in Slots, HandleTerminal(s)
       PROVE  StillReadable'
  <2>1. /\ UNCHANGED <<users, fdTable, backup_set, phase, inq, client>>
        /\ scan <= s /\ scan' = s + 1
    BY <1>10 DEF HandleTerminal, NextSlot
  <2>2. \A f \in Fds : Readable(f) => Readable(f)'
    BY <1>0, <2>1 DEF Readable
  <2>3. scan' \in Nat /\ scan' >= scan
    BY <2>1 DEF TypeOK, Slots
  <2> QED
    BY <1>2, <2>1, <2>2, <2>3
<1>11. CASE EndRound
  BY <1>11 DEF EndRound, StillReadable
<1>12. ASSUME NEW c \in Clients, Register(c) \/ \E q \in Requests : Request(c, q)
       PROVE  StillReadable'
  <2>1. PICK q \in Requests \cup {"register"} : inq' = [inq EXCEPT ![c] = Append(@, q)]
    BY <1>12 DEF Register, Request
  <2>2. Append(inq[c], q) # <<>>
    <3>1. inq[c] \in Seq(Requests \cup {"register"})
      BY DEF TypeOK
    <3>2. Len(Append(inq[c], q)) = Len(inq[c]) + 1 /\ Len(inq[c]) \in Nat
      BY <3>1
    <3> QED
      BY <3>2
  <2>3. \A d \in Clients : inq[d] # <<>> => inq'[d] # <<>>
    BY <2>1, <2>2 DEF TypeOK
  <2>4. \A d \in Clients : client[d] \in Gone => client'[d] \in Gone
    BY <1>12 DEF Register, Request, TypeOK, Gone
  <2> QED
    BY <1>3, <1>12, <2>3, <2>4 DEF Register, Request
<1>13. ASSUME NEW c \in Clients, Connect(c) \/ Receive(c) \/ Exit(c)
       PROVE  StillReadable'
  <2>1. \A d \in Clients : /\ client[d] \in Gone => client'[d] \in Gone
                           /\ inq'[d] = inq[d] \/ client'[d] \in Gone
    BY <1>13 DEF Connect, Receive, Exit, TypeOK, Gone
  <2> QED
    BY <1>3, <1>13, <2>1 DEF Connect, Receive, Exit
<1>14. CASE UNCHANGED <<server, inq, client>>
  BY <1>3, <1>14
<1>15. CASE ServerStep
  BY <1>4, <1>5, <1>6, <1>7, <1>8, <1>9, <1>10, <1>11, <1>15 DEF ServerStep
<1>16. CASE EnvironmentStep
  BY <1>12, <1>13, <1>14, <1>16, PopulationAssumption
  DEF EnvironmentStep, Arrive, Lose, SendHeartbeat, TypeLine
<1> QED
  BY <1>14, <1>15, <1>16 DEF Next, vars

\* A read that may wait, with heartbeats, with more users than slots, with any
\* requests: the slot is a ghost, which has never had a socket of its own, or
\* has that of another slot, which the scan has read (main.c:141, req.c:21).
THEOREM OnlyGhostsBlock == Spec => []BlockedOnlyByGhost
<1>1. Init => StillReadable
  BY DEF Init, StillReadable
<1>2. TypeOK /\ OneConnectionEach /\ StillReadable /\ [Next]_vars => StillReadable'
  BY StillReadableStep
<1>3. TypeOK /\ StillReadable => BlockedOnlyByGhost
  <2> SUFFICES ASSUME TypeOK, StillReadable, NEW s \in Slots, NextSlot(s), ~CanRead(s)
               PROVE  \/ users[s].sock = CMD_FD
                      \/ \E t \in Slots \ {s} : users[t].sock = users[s].sock
    BY DEF BlockedOnlyByGhost
  <2> SUFFICES ASSUME users[s].sock \in Fds
               PROVE  \E t \in Slots \ {s} : users[t].sock = users[s].sock
    BY DEF TypeOK
  <2>1. users[s].sock \in backup_set \cap Fds /\ phase = "scan" /\ s >= scan
    BY DEF NextSlot, Eligible
  <2>2. ~Readable(users[s].sock) /\ fdTable[users[s].sock] # NoClient
    BY DEF CanRead, PeerOf
  <2>3. PICK t \in Slots : t < scan /\ users[t].sock = users[s].sock
    BY <2>1, <2>2 DEF StillReadable
  <2>4. t # s
    BY <2>1, <2>3, ConstantFacts DEF TypeOK
  <2> QED
    BY <2>3, <2>4
<1> QED
  BY <1>1, <1>2, <1>3, OneConnectionAlways, PTL DEF Spec

-----------------------------------------------------------------------------
(* A table with a slot to spare.                                           *)

\* One slot more than there are clients: with heartbeats, slot 0 can be on line
\* without a client, as id 0 is what a client calls itself before it is told.
SlotToSpare == Cardinality(Clients) < USER_MAX

\* The slots that have had a socket, the ids of which a client may use, and the
\* clients the manager has accepted.
Used     == {s \in Slots : users[s].sock # CMD_FD}
Known    == Used \cup {0}
Admitted == {c \in Clients : client[c] # "off" /\ \A i \in DOMAIN backlog : backlog[i] # c}

\* No slot is used before a client has been accepted for it.
OneSlotEach == Cardinality(Used) <= Cardinality(Admitted)

\* A slot is on line, and an id is known, sent or on its way, only when the slot
\* has had a socket, or is slot 0.
OnlyKnownIds ==
  /\ \A s \in Slots : users[s].status = ONLINE => s \in Known
  /\ \A c \in Clients : /\ my_user_id[c] \in Known
                        /\ \A i \in DOMAIN reply[c] : reply[c][i] \in Known
                        /\ beat[c] \in Known \cup {NoBeat}
  /\ \A i \in DOMAIN hbBuf : hbBuf[i] \in Known

LEMMA SlotsFinite == IsFiniteSet(Slots) /\ Cardinality(Slots) = USER_MAX
<1>1. USER_MAX - 1 \in Int /\ 0 \in Int
  BY ConstantFacts
<1> QED
  BY <1>1, ConstantFacts, FS_Interval DEF Slots

LEMMA UsedFinite ==
  /\ IsFiniteSet(Used) /\ Cardinality(Used) \in Nat
  /\ IsFiniteSet(Admitted) /\ Cardinality(Admitted) \in Nat
<1>1. Used \subseteq Slots /\ Admitted \subseteq Clients
  BY DEF Used, Admitted
<1> QED
  BY <1>1, SlotsFinite, FS_Subset, FS_CardinalityType, PopulationAssumption

\* An accept finds a slot that is off line.
LEMMA SpareSlot ==
  ASSUME SlotToSpare, TypeOK, OneSlotEach, OnlyKnownIds, backlog # <<>>
  PROVE  \E s \in Slots : users[s].status = OFFLINE
<1> SUFFICES ASSUME \A s \in Slots : users[s].status # OFFLINE
             PROVE  FALSE
  OBVIOUS
<1> DEFINE Others == Clients \ {Head(backlog)}
<1>1. Head(backlog) \in Clients /\ 1 \in DOMAIN backlog /\ backlog[1] = Head(backlog)
  BY DEF TypeOK
<1>2. IsFiniteSet(Others) /\ Cardinality(Others) = Cardinality(Clients) - 1
  BY <1>1, FS_RemoveElement, PopulationAssumption
<1>3. Cardinality(Clients) \in Nat
  BY FS_CardinalityType, PopulationAssumption
<1>4. Cardinality(Admitted) <= Cardinality(Others)
  <2>1. Admitted \subseteq Others
    BY <1>1 DEF Admitted
  <2> QED
    BY <1>2, <2>1, FS_Subset
<1>5. Slots \subseteq Known
  BY DEF OnlyKnownIds, TypeOK
<1>6. IsFiniteSet(Known) /\ Cardinality(Known) <= Cardinality(Used) + 1
  <2>1. /\ IsFiniteSet(Used \cup {0})
        /\ Cardinality(Used \cup {0}) \in {Cardinality(Used), Cardinality(Used) + 1}
    BY UsedFinite, FS_AddElement
  <2> QED
    BY <2>1, UsedFinite DEF Known
<1>7. Cardinality(Slots) <= Cardinality(Known)
  BY <1>5, <1>6, FS_Subset
<1>8. Cardinality(Known) \in Nat
  BY <1>6, FS_CardinalityType
<1> QED
  BY <1>2, <1>3, <1>4, <1>6, <1>7, <1>8, SlotsFinite, UsedFinite, ConstantFacts DEF OneSlotEach, SlotToSpare

\* So the slot that new_user_id() gives away is off line.
LEMMA AcceptTakesOffline ==
  ASSUME SlotToSpare, TypeOK, OneSlotEach, OnlyKnownIds, HandleNewUser
  PROVE  \E f \in Fds, u \in Slots :
           /\ fdTable[f] = NoClient
           /\ users[u].status = OFFLINE
           /\ fdTable' = [fdTable EXCEPT ![f] = Head(backlog)]
           /\ users' = [users EXCEPT ![u] = [status |-> ONLINE, sock |-> f]]
<1>1. PICK f \in Fds, u \in Slots :
        /\ LowestFree(f)
        /\ NewUserId(u)
        /\ fdTable' = [fdTable EXCEPT ![f] = Head(backlog)]
        /\ users' = [users EXCEPT ![u] = [status |-> ONLINE, sock |-> f]]
  BY DEF HandleNewUser
<1>2. users[u].status = OFFLINE /\ fdTable[f] = NoClient
  BY <1>1, SpareSlot DEF HandleNewUser, NewUserId, LowestFree
<1> QED
  BY <1>1, <1>2

LEMMA KnownAccept ==
  ASSUME SlotToSpare, TypeOK, OneConnectionEach, OneSlotEach, OnlyKnownIds, HandleNewUser
  PROVE  OneSlotEach' /\ OnlyKnownIds'
<1> USE DEF outside
<1>1. PICK f \in Fds, u \in Slots :
        users' = [users EXCEPT ![u] = [status |-> ONLINE, sock |-> f]]
  BY AcceptTakesOffline
<1>2. Used' = Used \cup {u}
  BY <1>1, ConstantFacts DEF Used, TypeOK
<1> DEFINE c == Head(backlog)
<1>3. /\ c \in Clients /\ client' = client /\ backlog' = Tail(backlog)
      /\ 1 \in DOMAIN backlog /\ backlog[1] = c /\ client[c] # "off"
      /\ DOMAIN backlog = 1 .. Len(backlog) /\ Len(backlog) \in Nat
      /\ DOMAIN Tail(backlog) = 1 .. Len(backlog) - 1
      /\ \A i \in DOMAIN Tail(backlog) : Tail(backlog)[i] = backlog[i + 1]
  BY DEF HandleNewUser, TypeOK, OneConnectionEach
<1>4. c \notin Admitted
  BY <1>3 DEF Admitted
<1>5. Admitted' = Admitted \cup {c}
  <2>1. \A i \in DOMAIN Tail(backlog) : Tail(backlog)[i] # c
    BY <1>3 DEF OneConnectionEach
  <2>2. ASSUME NEW d \in Clients, d # c
        PROVE  (\A i \in DOMAIN backlog : backlog[i] # d)
                 <=> (\A i \in DOMAIN Tail(backlog) : Tail(backlog)[i] # d)
    <3>1. \A i \in DOMAIN backlog : i = 1 \/ i - 1 \in DOMAIN Tail(backlog)
      BY <1>3
    <3> QED
      BY <1>3, <2>2, <3>1
  <2> QED
    BY <1>3, <2>1, <2>2 DEF Admitted
<1>6. OneSlotEach'
  <2>1. Cardinality(Admitted') = Cardinality(Admitted) + 1
    BY <1>4, <1>5, UsedFinite, FS_AddElement
  <2>2. Cardinality(Used') \in {Cardinality(Used), Cardinality(Used) + 1}
    BY <1>2, UsedFinite, FS_AddElement
  <2> QED
    BY <2>1, <2>2, UsedFinite DEF OneSlotEach
<1>7. Known \subseteq Known' /\ u \in Known'
  BY <1>2 DEF Known
<1>8. UNCHANGED <<my_user_id, reply, beat, hbBuf>>
  BY DEF HandleNewUser
<1>9. \A s \in Slots \ {u} : users'[s] = users[s]
  BY <1>1 DEF TypeOK
<1> HIDE DEF c
<1>10. OnlyKnownIds'
  BY <1>7, <1>8, <1>9 DEF OnlyKnownIds
<1> QED
  BY <1>6, <1>10

LEMMA KnownStep ==
  ASSUME SlotToSpare, TypeOK, OneConnectionEach, OneSlotEach, OnlyKnownIds, [Next]_vars
  PROVE  OneSlotEach' /\ OnlyKnownIds'
<1> USE ConstantFacts DEF server, kernel, outside
\* Apart from accept(), no step touches a socket number or accepts a client.
<1>1. ASSUME \A s \in Slots : users'[s].sock = users[s].sock
      PROVE  Used' = Used /\ Known' = Known
  BY <1>1 DEF Used, Known
<1>2. ASSUME \A s \in Slots : users'[s].sock = users[s].sock,
             UNCHANGED backlog,
             \A c \in Clients : client'[c] # "off" <=> client[c] # "off"
      PROVE  OneSlotEach'
  <2>1. Admitted' = Admitted
    BY <1>2 DEF Admitted
  <2> QED
    BY <1>1, <1>2, <2>1 DEF OneSlotEach
<1>3. CASE UNCHANGED <<users, backlog, hbBuf, outside>>
  <2>1. OneSlotEach'
    BY <1>2, <1>3
  <2> QED
    BY <1>1, <1>3, <2>1 DEF OnlyKnownIds
<1>4. CASE HandleHeartbeat
  <2> DEFINE h == Head(hbBuf)
  <2>1. /\ h \in Slots /\ h \in Known
        /\ DOMAIN Tail(hbBuf) = 1 .. Len(hbBuf) - 1
        /\ \A i \in DOMAIN Tail(hbBuf) : i + 1 \in DOMAIN hbBuf /\ Tail(hbBuf)[i] = hbBuf[i + 1]
    BY <1>4 DEF HandleHeartbeat, OnlyKnownIds, TypeOK
  <2>2. /\ users' = [users EXCEPT ![h].status = ONLINE] /\ hbBuf' = Tail(hbBuf)
        /\ UNCHANGED <<backlog, outside>>
    BY <1>4 DEF HandleHeartbeat
  <2> HIDE DEF h
  <2>3. /\ \A s \in Slots : users'[s].sock = users[s].sock
        /\ \A s \in Slots \ {h} : users'[s].status = users[s].status
    BY <2>1, <2>2 DEF TypeOK
  <2>4. OneSlotEach' /\ Known' = Known
    BY <1>1, <1>2, <2>2, <2>3
  <2>5. OnlyKnownIds'
    BY <2>1, <2>2, <2>3, <2>4 DEF OnlyKnownIds
  <2> QED
    BY <2>4, <2>5
<1>5. ASSUME NEW s \in Slots, HandleRequest(s)
      PROVE  OneSlotEach' /\ OnlyKnownIds'
  <2> DEFINE c == PeerOf(s)
  <2>1. /\ UNCHANGED <<users, backlog, hbBuf, my_user_id, beat>>
        /\ c # NoClient
        /\ reply' = reply \/ reply' = [reply EXCEPT ![c] = Append(@, s)]
    BY <1>5 DEF HandleRequest
  <2>2. \A d \in Clients : client'[d] # "off" <=> client[d] # "off"
    <3>1. PICK T \in SUBSET Slots, m \in BOOLEAN : Write(T, m)
      BY <1>5, RequestWrites
    <3> QED
      BY <3>1 DEF Write, TypeOK
  <2>3. OneSlotEach' /\ Known' = Known
    BY <1>1, <1>2, <2>1, <2>2
  <2>4. s \in Known
    BY <2>1 DEF PeerOf, Known, Used
  <2>5. ASSUME NEW d \in Clients, NEW i \in DOMAIN reply'[d]
        PROVE  reply'[d][i] \in Known
    <3>1. reply[d] \in Seq(Slots)
      BY DEF TypeOK
    <3>2. reply'[d] = reply[d] \/ reply'[d] = Append(reply[d], s)
      BY <2>1 DEF TypeOK
    <3>3. \/ i \in DOMAIN reply[d] /\ reply'[d][i] = reply[d][i]
          \/ reply'[d][i] = s
      BY <2>5, <3>1, <3>2
    <3> QED
      BY <2>4, <3>3 DEF OnlyKnownIds
  <2> HIDE DEF c
  <2>6. OnlyKnownIds'
    BY <2>1, <2>3, <2>5 DEF OnlyKnownIds
  <2> QED
    BY <2>3, <2>6
<1>6. ASSUME NEW s \in Slots, HandleClosed(s)
      PROVE  OneSlotEach' /\ OnlyKnownIds'
  <2>1. /\ users' = [users EXCEPT ![s].status = OFFLINE]
        /\ UNCHANGED <<backlog, hbBuf, outside>>
    BY <1>6 DEF HandleClosed, UsersAfterClose
  <2>2. \A t \in Slots : /\ users'[t].sock = users[t].sock
                         /\ users'[t].status = ONLINE => users[t].status = ONLINE
    BY <2>1 DEF TypeOK, ONLINE, OFFLINE
  <2>3. OneSlotEach' /\ Known' = Known
    BY <1>1, <1>2, <2>1, <2>2
  <2> QED
    BY <2>1, <2>2, <2>3 DEF OnlyKnownIds
<1>7. ASSUME NEW c \in Clients, Connect(c)
      PROVE  OneSlotEach' /\ OnlyKnownIds'
  <2>1. /\ client[c] = "off" /\ client' = [client EXCEPT ![c] = "naming"]
        /\ backlog' = Append(backlog, c) /\ backlog \in Seq(Clients)
        /\ UNCHANGED <<users, hbBuf, my_user_id, reply, beat>>
    BY <1>7 DEF Connect, TypeOK
  <2>2. \A d \in Clients : client'[d] = IF d = c THEN "naming" ELSE client[d]
    BY <2>1 DEF TypeOK
  <2>3. /\ DOMAIN backlog' = DOMAIN backlog \cup {Len(backlog) + 1}
        /\ backlog'[Len(backlog) + 1] = c
        /\ \A i \in DOMAIN backlog : backlog'[i] = backlog[i]
    BY <2>1
  <2>4. Admitted' = Admitted
    BY <2>1, <2>2, <2>3 DEF Admitted
  <2>5. Used' = Used /\ Known' = Known
    BY <1>1, <2>1
  <2> QED
    BY <2>1, <2>4, <2>5 DEF OneSlotEach, OnlyKnownIds
<1>8. ASSUME NEW c \in Clients, Register(c) \/ Receive(c) \/ Exit(c)
      PROVE  OneSlotEach' /\ OnlyKnownIds'
  <2>1. /\ UNCHANGED <<users, backlog, hbBuf, beat>>
        /\ \A d \in Clients : client'[d] # "off" <=> client[d] # "off"
    BY <1>8 DEF Register, Receive, Exit, TypeOK, Up
  <2>2. OneSlotEach' /\ Known' = Known
    BY <1>1, <1>2, <2>1
  <2>3. ASSUME NEW d \in Clients
        PROVE  my_user_id'[d] \in Known /\ \A i \in DOMAIN reply'[d] : reply'[d][i] \in Known
    <3>1. CASE UNCHANGED <<my_user_id, reply>>
      BY <3>1 DEF OnlyKnownIds
    <3>2. CASE Exit(c)
      <4>1. my_user_id' = my_user_id /\ (reply'[d] = reply[d] \/ reply'[d] = <<>>)
        BY <3>2 DEF Exit, TypeOK
      <4> QED
        BY <4>1 DEF OnlyKnownIds
    <3>3. CASE Receive(c)
      <4>1. /\ reply[c] \in Seq(Slots) /\ reply[c] # <<>>
            /\ DOMAIN Tail(reply[c]) = 1 .. Len(reply[c]) - 1
            /\ \A i \in DOMAIN Tail(reply[c]) :
                 i + 1 \in DOMAIN reply[c] /\ Tail(reply[c])[i] = reply[c][i + 1]
            /\ 1 \in DOMAIN reply[c] /\ Head(reply[c]) = reply[c][1]
        BY <3>3 DEF Receive, TypeOK
      <4>2. /\ my_user_id'[d] = IF d = c THEN Head(reply[c]) ELSE my_user_id[d]
            /\ reply'[d] = IF d = c THEN Tail(reply[c]) ELSE reply[d]
        BY <3>3 DEF Receive, TypeOK
      <4> QED
        BY <4>1, <4>2 DEF OnlyKnownIds
    <3> QED
      BY <1>8, <3>1, <3>2, <3>3 DEF Register
  <2> QED
    BY <2>1, <2>2, <2>3 DEF OnlyKnownIds
<1>9. ASSUME NEW c \in Clients, SendHeartbeat(c) \/ Arrive(c) \/ Lose(c)
      PROVE  OneSlotEach' /\ OnlyKnownIds'
  <2>1. UNCHANGED <<users, backlog, client, my_user_id, reply>>
    BY <1>9 DEF SendHeartbeat, Arrive, Lose
  <2>2. OneSlotEach' /\ Known' = Known
    BY <1>1, <1>2, <2>1
  <2>3. \A d \in Clients : beat'[d] \in {beat[d], NoBeat, my_user_id[d]}
    BY <1>9 DEF SendHeartbeat, Arrive, Lose, TypeOK
  <2>4. \/ hbBuf' = hbBuf
        \/ hbBuf' = Append(hbBuf, beat[c]) /\ beat[c] # NoBeat
    BY <1>9 DEF SendHeartbeat, Arrive, Lose
  <2>5. \A i \in DOMAIN hbBuf' : hbBuf'[i] \in Known
    <3>1. hbBuf \in Seq(Slots) /\ (beat[c] # NoBeat => beat[c] \in Known)
      BY DEF TypeOK, OnlyKnownIds
    <3>2. CASE hbBuf' = hbBuf
      BY <3>2 DEF OnlyKnownIds
    <3>3. CASE hbBuf' = Append(hbBuf, beat[c]) /\ beat[c] # NoBeat
      <4>1. \A i \in DOMAIN hbBuf' :
              \/ i \in DOMAIN hbBuf /\ hbBuf'[i] = hbBuf[i]
              \/ hbBuf'[i] = beat[c]
        BY <3>1, <3>3
      <4> QED
        BY <3>1, <3>3, <4>1 DEF OnlyKnownIds
    <3> QED
      BY <2>4, <3>2, <3>3
  <2> QED
    BY <2>1, <2>2, <2>3, <2>5 DEF OnlyKnownIds
<1>10. CASE ServerStep
  BY <1>3, <1>4, <1>5, <1>6, <1>10, KnownAccept
  DEF ServerStep, EnterCmd, ReadCmd, SelectUsers, HandleTerminal, EndRound
<1>11. CASE EnvironmentStep
  BY <1>3, <1>7, <1>8, <1>9, <1>11, PopulationAssumption DEF EnvironmentStep, Request, TypeLine
<1> QED
  BY <1>3, <1>10, <1>11 DEF Next, vars

LEMMA KnownAlways ==
  ASSUME SlotToSpare
  PROVE  Spec => [](TypeOK /\ OneSlotEach /\ OnlyKnownIds)
<1>1. Init => OneSlotEach /\ OnlyKnownIds
  <2> SUFFICES ASSUME Init
               PROVE  OneSlotEach /\ OnlyKnownIds
    OBVIOUS
  <2>1. Used = {}
    BY DEF Init, Used
  <2>2. Cardinality(Used) = 0
    BY <2>1, FS_EmptySet
  <2> QED
    BY <2>2, UsedFinite DEF Init, OneSlotEach, OnlyKnownIds, Known, ONLINE, OFFLINE
<1>2. TypeOK /\ OneConnectionEach /\ OneSlotEach /\ OnlyKnownIds /\ [Next]_vars
        => (OneSlotEach /\ OnlyKnownIds)'
  BY KnownStep
<1> QED
  BY <1>1, <1>2, OneConnectionAlways, PTL DEF Spec

LEMMA NoOrphanStep ==
  ASSUME SlotToSpare, TypeOK, OneSlotEach, OnlyKnownIds, NoOrphan, [Next]_vars
  PROVE  NoOrphan'
<1> USE DEF server, kernel, outside
<1>1. CASE UNCHANGED <<users, fdTable>>
  BY <1>1 DEF NoOrphan
<1>2. CASE HandleHeartbeat
  <2>1. /\ Head(hbBuf) \in Slots /\ fdTable' = fdTable
        /\ users' = [users EXCEPT ![Head(hbBuf)].status = ONLINE]
    BY <1>2 DEF HandleHeartbeat, TypeOK
  <2>2. \A s \in Slots : /\ users'[s].sock = users[s].sock
                         /\ users[s].status = ONLINE => users'[s].status = ONLINE
    BY <2>1 DEF TypeOK
  <2> QED
    BY <2>1, <2>2 DEF NoOrphan
<1>3. CASE HandleNewUser
  <2>1. PICK f \in Fds, u \in Slots :
          /\ users[u].status = OFFLINE
          /\ fdTable' = [fdTable EXCEPT ![f] = Head(backlog)]
          /\ users' = [users EXCEPT ![u] = [status |-> ONLINE, sock |-> f]]
    BY <1>3, AcceptTakesOffline
  <2>2. users'[u].status = ONLINE /\ users'[u].sock = f
    BY <2>1 DEF TypeOK
  <2>3. \A s \in Slots : users[s].status = ONLINE => users'[s] = users[s]
    BY <2>1 DEF TypeOK, ONLINE, OFFLINE
  <2>4. \A g \in Fds : g # f => fdTable'[g] = fdTable[g]
    BY <2>1 DEF TypeOK
  <2> QED
    BY <2>2, <2>3, <2>4 DEF NoOrphan
<1>4. ASSUME NEW s \in Slots, HandleClosed(s)
      PROVE  NoOrphan'
  <2>1. /\ users' = [users EXCEPT ![s].status = OFFLINE]
        /\ fdTable' = [fdTable EXCEPT ![users[s].sock] = NoClient]
    BY <1>4 DEF HandleClosed, UsersAfterClose
  <2>2. ASSUME NEW g \in Fds, fdTable'[g] # NoClient
        PROVE  g # users[s].sock /\ fdTable'[g] = fdTable[g]
    BY <2>1, <2>2 DEF TypeOK
  <2>3. \A t \in Slots : t # s => users'[t] = users[t]
    BY <2>1 DEF TypeOK
  <2> QED
    BY <2>2, <2>3 DEF NoOrphan
<1>5. CASE ServerStep
  BY <1>1, <1>2, <1>3, <1>4, <1>5
  DEF ServerStep, EnterCmd, ReadCmd, SelectUsers, HandleRequest, HandleTerminal, EndRound
<1>6. CASE EnvironmentStep
  BY <1>1, <1>6 DEF EnvironmentStep, Connect, Register, Request, Receive, SendHeartbeat, Arrive,
                    Lose, Exit, TypeLine
<1> QED
  BY <1>1, <1>5, <1>6 DEF Next, vars

\* With heartbeats of any kind, a table with a slot to spare loses track of no
\* connection: each is the socket of a user who is on line (user.c:7-13).
THEOREM Tracked ==
  ASSUME SlotToSpare
  PROVE  Spec => []NoOrphan
<1>1. Init => NoOrphan
  BY DEF Init, NoOrphan
<1>2. TypeOK /\ OneSlotEach /\ OnlyKnownIds /\ NoOrphan /\ [Next]_vars => NoOrphan'
  BY NoOrphanStep
<1> QED
  BY <1>1, <1>2, KnownAlways, PTL DEF Spec

LEMMA SocketsKept ==
  ASSUME SlotToSpare, TypeOK, OneSlotEach, OnlyKnownIds, [Next]_vars,
         NEW s \in Slots, users[s].status = ONLINE
  PROVE  users'[s].sock = users[s].sock
<1> USE DEF server, kernel, outside
<1>1. CASE HandleNewUser
  <2>1. PICK f \in Fds, u \in Slots :
          /\ users[u].status = OFFLINE
          /\ users' = [users EXCEPT ![u] = [status |-> ONLINE, sock |-> f]]
    BY <1>1, AcceptTakesOffline
  <2> QED
    BY <2>1 DEF TypeOK, ONLINE, OFFLINE
<1>2. CASE HandleHeartbeat
  <2>1. Head(hbBuf) \in Slots /\ users' = [users EXCEPT ![Head(hbBuf)].status = ONLINE]
    BY <1>2 DEF HandleHeartbeat, TypeOK
  <2> QED
    BY <2>1 DEF TypeOK
<1>3. ASSUME NEW t \in Slots, HandleClosed(t)
      PROVE  users'[s].sock = users[s].sock
  BY <1>3 DEF HandleClosed, UsersAfterClose, TypeOK
<1>4. CASE UNCHANGED users
  BY <1>4
<1> QED
  BY <1>1, <1>2, <1>3, <1>4
  DEF Next, vars, ServerStep, EnterCmd, ReadCmd, SelectUsers, HandleRequest, HandleTerminal,
      EndRound, EnvironmentStep, Connect, Register, Request, Receive, SendHeartbeat, Arrive, Lose,
      Exit, TypeLine

\* And no accept takes the slot of a user who is on line (user.c:7-16,
\* main.c:157-160).
THEOREM SocketsStable ==
  ASSUME SlotToSpare
  PROVE  Spec => IdentityStable
<1>1. TypeOK /\ OneSlotEach /\ OnlyKnownIds /\ [Next]_vars
        => [\A s \in Slots : users[s].status = ONLINE => users'[s].sock = users[s].sock]_vars
  BY SocketsKept
<1> QED
  BY <1>1, KnownAlways, PTL DEF Spec, IdentityStable

-----------------------------------------------------------------------------
(* The lockstep of the two tables, when no client sends heartbeats and the *)
(* user table has room for every client.                                   *)

Population ==
  /\ Beating = {}
  /\ Cardinality(Clients) <= USER_MAX
  /\ USER_MAX <= NFDS

\* Where the descriptor of a slot lies.
LEMMA SlotFd ==
  ASSUME Population, NEW s \in Slots
  PROVE  FIRST_FD + s \in Fds /\ FIRST_FD + s # CMD_FD
BY ConstantFacts DEF Population, Slots, Fds, CMD_FD

\* A slot that is on line has its own descriptor, and a client behind it.
LEMMA OnlineSlot ==
  ASSUME Population, TypeOK, SlotFdLockstep, NEW s \in Slots, users[s].status = ONLINE
  PROVE  /\ users[s].sock = FIRST_FD + s
         /\ users[s].sock \in Fds
         /\ PeerOf(s) = fdTable[FIRST_FD + s]
         /\ PeerOf(s) \in Clients
<1>1. users[s].sock = FIRST_FD + s /\ fdTable[FIRST_FD + s] # NoClient
  BY DEF SlotFdLockstep
<1> QED
  BY <1>1, SlotFd DEF PeerOf, TypeOK

\* While somebody waits to be accepted, fewer than USER_MAX clients have a
\* connection, so new_user_id() finds a slot.
LEMMA SomeSlotIsFree ==
  ASSUME Population, TypeOK, SlotFdLockstep, OneConnectionEach, backlog # <<>>
  PROVE  \E s \in Slots : users[s].status = OFFLINE
<1> SUFFICES ASSUME \A s \in Slots : users[s].status # OFFLINE
             PROVE  FALSE
  OBVIOUS
<1> DEFINE Others == Clients \ {Head(backlog)}
           Peer == [s \in Slots |-> fdTable[FIRST_FD + s]]
<1>1. Head(backlog) \in Clients /\ 1 \in DOMAIN backlog /\ backlog[1] = Head(backlog)
  BY DEF TypeOK
<1>2. IsFiniteSet(Slots) /\ Cardinality(Slots) = USER_MAX
  BY SlotsFinite
<1>3. IsFiniteSet(Others) /\ Cardinality(Others) = Cardinality(Clients) - 1
  BY <1>1, FS_RemoveElement, PopulationAssumption
<1>4. Cardinality(Others) < Cardinality(Slots)
  BY <1>1, <1>2, <1>3, FS_CardinalityType, PopulationAssumption, ConstantFacts DEF Population
<1>5. ASSUME NEW s \in Slots
      PROVE  fdTable[FIRST_FD + s] \in Others
  <2>1. users[s].status = ONLINE
    BY DEF TypeOK
  <2>2. fdTable[FIRST_FD + s] \in Clients /\ FIRST_FD + s \in Fds
    BY <2>1, OnlineSlot, SlotFd
  <2> QED
    BY <2>2, <1>1 DEF OneConnectionEach
<1>6. Peer \in [Slots -> Others]
  BY <1>5
<1>7. PICK s, t \in Slots : s # t /\ Peer[s] = Peer[t]
  <2> HIDE DEF Peer, Others
  <2> QED
    BY <1>2, <1>3, <1>4, <1>6, FS_PigeonHole
<1>8. fdTable[FIRST_FD + s] = fdTable[FIRST_FD + t] /\ fdTable[FIRST_FD + s] # NoClient
  BY <1>5, <1>7, PopulationAssumption
<1>9. FIRST_FD + s = FIRST_FD + t
  BY <1>8, SlotFd DEF OneConnectionEach
<1> QED
  BY <1>7, <1>9, ConstantFacts DEF Slots

\* accept() and new_user_id() choose a descriptor and a slot that match.
LEMMA AcceptMatches ==
  ASSUME Population, TypeOK, SlotFdLockstep, OneConnectionEach, backlog # <<>>,
         NEW f \in Fds, NEW u \in Slots, LowestFree(f), NewUserId(u)
  PROVE  f = FIRST_FD + u /\ users[u].status = OFFLINE /\ fdTable[f] = NoClient
<1>1. users[u].status = OFFLINE /\ \A v \in Slots : v < u => users[v].status # OFFLINE
  BY SomeSlotIsFree DEF NewUserId
<1>2. fdTable[FIRST_FD + u] = NoClient /\ FIRST_FD + u \in Fds
  BY <1>1, SlotFd DEF SlotFdLockstep, ONLINE, OFFLINE
<1>3. fdTable[f] = NoClient /\ \A g \in Fds : g < f => fdTable[g] # NoClient
  BY DEF LowestFree
<1>4. ~(FIRST_FD + u < f)
  BY <1>2, <1>3
<1>5. ~(f < FIRST_FD + u)
  <2> SUFFICES ASSUME f < FIRST_FD + u
               PROVE  FALSE
    OBVIOUS
  <2> DEFINE v == f - FIRST_FD
  <2>1. v \in Slots /\ v < u /\ FIRST_FD + v = f
    BY ConstantFacts DEF Slots, Fds
  <2>2. users[v].status = ONLINE
    BY <1>1, <2>1 DEF TypeOK
  <2> QED
    BY <1>3, <2>1, <2>2 DEF SlotFdLockstep
<1>6. f \in Nat /\ FIRST_FD + u \in Nat
  BY ConstantFacts
<1> QED
  BY <1>1, <1>3, <1>4, <1>5, <1>6

LEMMA InductiveInit == ASSUME Population PROVE Init => Inductive
<1> SUFFICES ASSUME Init
             PROVE  Inductive
  OBVIOUS
<1>1. SlotFdLockstep
  BY SlotFd DEF Init, SlotFdLockstep, ONLINE, OFFLINE
<1>2. NothingAboveTable /\ OneConnectionEach /\ ScanIsCurrent /\ NoHeartbeats
  BY DEF Init, NothingAboveTable, OneConnectionEach, ScanIsCurrent, NoHeartbeats
<1> QED
  BY <1>1, <1>2 DEF Inductive

\* A new user: both tables change at the same index, and the descriptor that
\* accept() returns is not one that select has just reported.
LEMMA InductiveAccept ==
  ASSUME Population, TypeOK, Inductive, HandleNewUser
  PROVE  Inductive'
<1> USE DEF Inductive
<1>0. PICK f \in Fds, u \in Slots :
        /\ LowestFree(f)
        /\ NewUserId(u)
        /\ fdTable' = [fdTable EXCEPT ![f] = Head(backlog)]
        /\ users' = [users EXCEPT ![u] = [status |-> ONLINE, sock |-> f]]
  BY DEF HandleNewUser
<1>1. f = FIRST_FD + u /\ users[u].status = OFFLINE /\ fdTable[f] = NoClient
  BY <1>0, AcceptMatches DEF HandleNewUser
<1>2. /\ Head(backlog) \in Clients /\ Head(backlog) # NoClient
      /\ backlog # <<>> /\ 1 \in DOMAIN backlog /\ backlog[1] = Head(backlog)
  BY PopulationAssumption DEF HandleNewUser, TypeOK
<1>3. \A s \in Slots : FIRST_FD + s \in Fds /\ (FIRST_FD + s = f <=> s = u)
  BY <1>1, SlotFd, ConstantFacts
<1>4. SlotFdLockstep'
  <2> SUFFICES ASSUME NEW s \in Slots
               PROVE  LET g == FIRST_FD + s
                      IN  IF users'[s].status = ONLINE
                          THEN users'[s].sock = g /\ fdTable'[g] # NoClient
                          ELSE users'[s].sock \in {CMD_FD, g} /\ fdTable'[g] = NoClient
    BY DEF SlotFdLockstep
  <2>1. CASE s = u
    BY <1>0, <1>1, <1>2, <2>1 DEF TypeOK
  <2>2. CASE s # u
    <3>1. users'[s] = users[s] /\ fdTable'[FIRST_FD + s] = fdTable[FIRST_FD + s]
      BY <1>0, <1>3, <2>2 DEF TypeOK
    <3> QED
      BY <3>1 DEF SlotFdLockstep
  <2> QED
    BY <2>1, <2>2
<1>5. NothingAboveTable'
  <2>1. ~(f >= FIRST_FD + USER_MAX)
    BY <1>1, ConstantFacts DEF Slots
  <2> QED
    BY <1>0, <2>1 DEF NothingAboveTable, TypeOK
<1>6. OneConnectionEach'
  BY OneConnectionStep DEF Next, ServerStep
<1>7. ScanIsCurrent'
  <2> SUFFICES ASSUME NEW s \in Slots, Eligible(s)'
               PROVE  Readable(users[s].sock)'
    BY DEF ScanIsCurrent
  <2>1. backup_set' = Selected /\ inq' = inq /\ client' = client
    BY DEF HandleNewUser, BeginScan, outside
  <2>2. users'[s].sock \in Selected /\ users'[s].status = ONLINE
    BY <2>1 DEF Eligible
  <2>3. ~Readable(f)
    BY <1>1, ConstantFacts DEF Readable
  <2>4. s # u
    BY <1>0, <2>2, <2>3 DEF Selected, TypeOK
  <2>5. users'[s] = users[s]
    BY <1>0, <2>4 DEF TypeOK
  <2>6. users[s].sock = FIRST_FD + s /\ users[s].sock \in Fds /\ users[s].sock # CMD_FD
    BY <2>2, <2>5, OnlineSlot, SlotFd
  <2>7. Readable(users[s].sock)
    BY <2>2, <2>5 DEF Selected
  <2>8. fdTable'[users[s].sock] = fdTable[users[s].sock]
    BY <1>0, <1>3, <2>4, <2>6 DEF TypeOK
  <2> QED
    BY <2>1, <2>5, <2>6, <2>7, <2>8 DEF Readable
<1>8. NoHeartbeats'
  BY DEF HandleNewUser, outside, NoHeartbeats
<1> QED
  BY <1>4, <1>5, <1>6, <1>7, <1>8

\* A step that leaves the tables, the listen queue and the heartbeats alone, and
\* brings no client back, keeps everything but ScanIsCurrent.
LEMMA SameTables ==
  ASSUME Inductive, TypeOK,
         UNCHANGED <<users, fdTable, backlog, hbBuf, beat>>,
         \A c \in Clients : client'[c] = "off" => client[c] = "off"
  PROVE  SlotFdLockstep' /\ NothingAboveTable' /\ OneConnectionEach' /\ NoHeartbeats'
<1> USE DEF Inductive
<1>1. SlotFdLockstep' /\ NothingAboveTable' /\ NoHeartbeats'
  BY DEF SlotFdLockstep, NothingAboveTable, NoHeartbeats
<1>2. \A i \in DOMAIN backlog : backlog[i] \in Clients
  BY DEF TypeOK
<1>3. \A f \in Fds : fdTable[f] # NoClient => fdTable[f] \in Clients
  BY DEF TypeOK
<1>4. OneConnectionEach'
  BY <1>2, <1>3 DEF OneConnectionEach
<1> QED
  BY <1>1, <1>4

\* A step of the loop that selects, or ends a round, or reads the terminal.
LEMMA InductiveLoop ==
  ASSUME Population, TypeOK, Inductive, EnterCmd \/ ReadCmd \/ SelectUsers \/ EndRound
  PROVE  Inductive'
<1> USE DEF Inductive
<1>0. UNCHANGED <<users, users_cnt, fdTable, backlog, hbBuf, beat, client, inq>>
  BY DEF EnterCmd, ReadCmd, SelectUsers, EndRound, kernel, outside
<1>1. SlotFdLockstep' /\ NothingAboveTable' /\ OneConnectionEach' /\ NoHeartbeats'
  BY <1>0, SameTables
<1>2. ASSUME NEW s \in Slots, phase' \in {"cmd", "scan"}, Eligible(s)', scan' <= s
      PROVE  Readable(users[s].sock)'
  <2>1. users[s].status = ONLINE
    BY <1>0, <1>2 DEF Eligible
  <2>2. users[s].sock \in Fds /\ users[s].sock # CMD_FD
    BY <2>1, OnlineSlot, SlotFd
  <2>3. Readable(users[s].sock)
    <3>1. CASE backup_set' = Selected
      BY <1>0, <1>2, <3>1, <2>2 DEF Eligible, Selected
    <3>2. CASE ReadCmd
      <4>1. backup_set' = backup_set /\ scan' = scan /\ phase = "cmd"
        BY <3>2 DEF ReadCmd
      <4> QED
        BY <1>0, <1>2, <4>1 DEF Eligible, ScanIsCurrent
    <3>3. CASE EndRound
      BY <1>2, <3>3 DEF EndRound
    <3> QED
      BY <3>1, <3>2, <3>3 DEF EnterCmd, SelectUsers, BeginScan
  <2> QED
    BY <1>0, <2>2, <2>3 DEF Readable
<1>3. ScanIsCurrent'
  BY <1>0, <1>2 DEF ScanIsCurrent
<1> QED
  BY <1>1, <1>3

\* A request read for slot s: the other slots have other connections.
LEMMA InductiveRequest ==
  ASSUME Population, TypeOK, Inductive, NEW s \in Slots, HandleRequest(s)
  PROVE  Inductive'
<1> USE DEF Inductive
<1> DEFINE c == PeerOf(s)
<1>0. UNCHANGED <<users, users_cnt, fdTable, backlog, hbBuf, beat, backup_set>>
  BY DEF HandleRequest
<1>1. \A d \in Clients : /\ client'[d] = "off" => client[d] = "off"
                         /\ client[d] \in Gone => client'[d] \in Gone
  <2>1. PICK T \in SUBSET Slots, m \in BOOLEAN : Write(T, m)
    BY RequestWrites
  <2> QED
    BY <2>1 DEF Write, TypeOK, Gone
<1>2. SlotFdLockstep' /\ NothingAboveTable' /\ OneConnectionEach' /\ NoHeartbeats'
  BY <1>0, <1>1, SameTables
<1>3. /\ phase = "scan" /\ scan <= s /\ scan' = s + 1
      /\ users[s].status = ONLINE
  BY ConstantFacts DEF HandleRequest, NextSlot, Eligible, TypeOK
<1>4. ASSUME NEW t \in Slots, s + 1 <= t, Eligible(t)'
      PROVE  Readable(users[t].sock)'
  <2>1. Eligible(t) /\ users[t].status = ONLINE
    BY <1>0, <1>4 DEF Eligible
  <2>2. scan <= t /\ s # t
    BY <1>3, <1>4, ConstantFacts DEF TypeOK
  <2>3. Readable(users[t].sock)
    BY <1>3, <2>1, <2>2 DEF ScanIsCurrent
  <2>4. /\ users[t].sock = FIRST_FD + t /\ users[t].sock \in Fds /\ users[t].sock # CMD_FD
        /\ PeerOf(t) = fdTable[FIRST_FD + t] /\ PeerOf(t) \in Clients
        /\ c = fdTable[FIRST_FD + s] /\ c \in Clients
    BY <1>3, <2>1, OnlineSlot, SlotFd
  <2>5. fdTable[FIRST_FD + t] # c
    <3>1. FIRST_FD + s # FIRST_FD + t /\ FIRST_FD + s \in Fds /\ FIRST_FD + t \in Fds
      BY <2>2, SlotFd, ConstantFacts
    <3> QED
      BY <2>4, <3>1, PopulationAssumption DEF OneConnectionEach
  <2>6. inq'[PeerOf(t)] = inq[PeerOf(t)]
    BY <2>4, <2>5 DEF HandleRequest, TypeOK
  <2> QED
    BY <1>0, <1>1, <2>3, <2>4, <2>6 DEF Readable
<1>5. ScanIsCurrent'
  BY <1>0, <1>3, <1>4 DEF ScanIsCurrent
<1> QED
  BY <1>2, <1>5

\* The end of slot s: its descriptor is closed as it goes off line.
LEMMA InductiveClosed ==
  ASSUME Population, TypeOK, Inductive, NEW s \in Slots, HandleClosed(s)
  PROVE  Inductive'
<1> USE DEF Inductive
<1>1. /\ phase = "scan" /\ phase' = phase /\ scan <= s /\ scan' = s + 1
      /\ users[s].status = ONLINE
      /\ UNCHANGED <<users_cnt, backup_set, backlog, inq, hbBuf, client, beat>>
  BY DEF HandleClosed, NextSlot, Eligible, kernel, outside
<1>2. users[s].sock = FIRST_FD + s /\ FIRST_FD + s \in Fds
  BY <1>1, OnlineSlot, SlotFd
<1>3. /\ fdTable' = [fdTable EXCEPT ![FIRST_FD + s] = NoClient]
      /\ users' = [users EXCEPT ![s].status = OFFLINE]
  BY <1>2 DEF HandleClosed, UsersAfterClose
<1>4. \A t \in Slots : FIRST_FD + t \in Fds /\ (FIRST_FD + t = FIRST_FD + s <=> t = s)
  BY SlotFd, ConstantFacts
<1>5. ASSUME NEW t \in Slots, t # s
      PROVE  users'[t] = users[t] /\ fdTable'[FIRST_FD + t] = fdTable[FIRST_FD + t]
  BY <1>3, <1>4, <1>5 DEF TypeOK
<1>6. users'[s].status = OFFLINE /\ users'[s].sock = FIRST_FD + s
      /\ fdTable'[FIRST_FD + s] = NoClient
  BY <1>2, <1>3 DEF TypeOK
<1>7. SlotFdLockstep'
  BY <1>5, <1>6 DEF SlotFdLockstep, ONLINE, OFFLINE
<1>8. \A f \in Fds : fdTable'[f] = NoClient \/ fdTable'[f] = fdTable[f]
  BY <1>3 DEF TypeOK
<1>9. NothingAboveTable' /\ OneConnectionEach' /\ NoHeartbeats'
  <2>1. NothingAboveTable'
    BY <1>8 DEF NothingAboveTable
  <2>2. OneConnectionEach'
    BY OneConnectionStep DEF Next, ServerStep
  <2> QED
    BY <1>1, <2>1, <2>2 DEF NoHeartbeats
<1>10. ASSUME NEW t \in Slots, s + 1 <= t, Eligible(t)'
       PROVE  Readable(users[t].sock)'
  <2>1. t # s /\ scan <= t
    BY <1>1, <1>10, ConstantFacts DEF TypeOK
  <2>2. users'[t] = users[t] /\ fdTable'[FIRST_FD + t] = fdTable[FIRST_FD + t]
    BY <1>5, <2>1
  <2>3. Eligible(t) /\ users[t].status = ONLINE
    BY <1>1, <1>10, <2>2 DEF Eligible
  <2>4. Readable(users[t].sock)
    BY <1>1, <2>1, <2>3 DEF ScanIsCurrent
  <2>5. users[t].sock = FIRST_FD + t /\ users[t].sock \in Fds /\ users[t].sock # CMD_FD
    BY <2>3, OnlineSlot, SlotFd
  <2> QED
    BY <1>1, <2>2, <2>4, <2>5 DEF Readable
<1>11. ScanIsCurrent'
  BY <1>1, <1>10 DEF ScanIsCurrent
<1> QED
  BY <1>7, <1>9, <1>11

\* A step of a client, the network or the operator: requests are added, never
\* taken away, except by a client that leaves, whose end of file is readable.
LEMMA InductiveEnvironment ==
  ASSUME Population, TypeOK, Inductive, EnvironmentStep
  PROVE  Inductive'
<1> USE DEF Inductive, server, kernel, outside
<1>1. ASSUME UNCHANGED <<server, backlog, hbBuf, beat>>,
             \A c \in Clients :
               /\ client'[c] = "off" => client[c] = "off"
               /\ inq[c] # <<>> \/ client[c] \in Gone => inq'[c] # <<>> \/ client'[c] \in Gone
      PROVE  Inductive'
  <2>1. SlotFdLockstep' /\ NothingAboveTable' /\ OneConnectionEach' /\ NoHeartbeats'
    BY <1>1, SameTables
  <2>2. ASSUME NEW s \in Slots, phase \in {"cmd", "scan"}, scan <= s, Eligible(s)
        PROVE  Readable(users[s].sock)'
    <3>1. users[s].status = ONLINE /\ Readable(users[s].sock)
      BY <2>2 DEF Eligible, ScanIsCurrent
    <3>2. users[s].sock \in Fds /\ users[s].sock # CMD_FD /\ fdTable[users[s].sock] \in Clients
      BY <3>1, OnlineSlot, SlotFd
    <3> QED
      BY <1>1, <3>1, <3>2 DEF Readable
  <2>3. ScanIsCurrent'
    BY <1>1, <2>2 DEF ScanIsCurrent, Eligible
  <2> QED
    BY <2>1, <2>3
<1>2. ASSUME NEW c \in Clients, Connect(c)
      PROVE  Inductive'
  <2>1. /\ client[c] = "off" /\ client' = [client EXCEPT ![c] = "naming"]
        /\ backlog' = Append(backlog, c)
        /\ UNCHANGED <<server, inq, hbBuf, beat>>
    BY <1>2 DEF Connect
  <2>7. OneConnectionEach'
    BY OneConnectionStep DEF Next
  <2>8. SlotFdLockstep' /\ NothingAboveTable' /\ NoHeartbeats'
    BY <2>1 DEF SlotFdLockstep, NothingAboveTable, NoHeartbeats
  <2>9. ScanIsCurrent'
    <3>1. \A d \in Clients : client[d] \in Gone => client'[d] \in Gone
      BY <2>1 DEF Gone, TypeOK
    <3>2. ASSUME NEW s \in Slots, phase \in {"cmd", "scan"}, scan <= s, Eligible(s)
          PROVE  Readable(users[s].sock)'
      <4>1. users[s].status = ONLINE /\ Readable(users[s].sock)
        BY <3>2 DEF Eligible, ScanIsCurrent
      <4>2. users[s].sock \in Fds /\ users[s].sock # CMD_FD /\ fdTable[users[s].sock] \in Clients
        BY <4>1, OnlineSlot, SlotFd
      <4> QED
        BY <2>1, <3>1, <4>1, <4>2 DEF Readable
    <3> QED
      BY <2>1, <3>2 DEF ScanIsCurrent, Eligible
  <2> QED
    BY <2>7, <2>8, <2>9
<1>3. ASSUME NEW c \in Clients, Register(c) \/ \E q \in Requests : Request(c, q)
      PROVE  Inductive'
  <2>1. PICK q \in Requests \cup {"register"} : inq' = [inq EXCEPT ![c] = Append(@, q)]
    BY <1>3 DEF Register, Request
  <2>2. Append(inq[c], q) # <<>>
    <3>1. inq[c] \in Seq(Requests \cup {"register"})
      BY DEF TypeOK
    <3>2. Len(Append(inq[c], q)) = Len(inq[c]) + 1 /\ Len(inq[c]) \in Nat
      BY <3>1
    <3> QED
      BY <3>2
  <2>3. \A d \in Clients : /\ client'[d] = "off" => client[d] = "off"
                           /\ client[d] \in Gone => client'[d] \in Gone
    BY <1>3 DEF Register, Request, TypeOK, Gone
  <2>4. \A d \in Clients : inq[d] # <<>> => inq'[d] # <<>>
    BY <2>1, <2>2 DEF TypeOK
  <2>5. UNCHANGED <<server, backlog, hbBuf, beat>>
    BY <1>3 DEF Register, Request
  <2> QED
    BY <1>1, <2>3, <2>4, <2>5
<1>4. ASSUME NEW c \in Clients, Receive(c)
      PROVE  Inductive'
  <2>1. UNCHANGED <<server, backlog, hbBuf, beat, inq>>
    BY <1>4 DEF Receive
  <2>2. \A d \in Clients : /\ client'[d] = "off" => client[d] = "off"
                           /\ client[d] \in Gone => client'[d] \in Gone
    BY <1>4 DEF Receive, TypeOK, Gone
  <2> QED
    BY <1>1, <2>1, <2>2
<1>5. ASSUME NEW c \in Clients, Arrive(c) \/ Lose(c)
      PROVE  FALSE
  BY <1>5 DEF Arrive, Lose, NoHeartbeats
<1>6. ASSUME NEW c \in Clients, Exit(c)
      PROVE  Inductive'
  <2>1. UNCHANGED <<server, backlog, hbBuf, beat>>
    BY <1>6 DEF Exit
  <2>2. \A d \in Clients : client'[d] = IF d = c THEN "exited" ELSE client[d]
    BY <1>6 DEF Exit, TypeOK
  <2>3. \A d \in Clients \ {c} : inq'[d] = inq[d]
    BY <1>6 DEF Exit, TypeOK
  <2> QED
    BY <1>1, <2>1, <2>2, <2>3 DEF Gone
<1>7. ASSUME NEW l \in Lines, TypeLine(l)
      PROVE  Inductive'
  <2>1. UNCHANGED <<server, backlog, hbBuf, beat, client, inq>>
    BY <1>7 DEF TypeLine
  <2> QED
    BY <1>1, <2>1
<1> QED
  BY <1>2, <1>3, <1>4, <1>5, <1>6, <1>7 DEF EnvironmentStep, Population

\* Every step keeps the invariant; two of the loop's cannot happen.
LEMMA InductiveNext ==
  ASSUME Population, TypeOK, Inductive, [Next]_vars
  PROVE  Inductive'
<1>1. CASE UNCHANGED vars
  BY <1>1 DEF vars, server, kernel, outside, Inductive, SlotFdLockstep, NothingAboveTable,
              OneConnectionEach, ScanIsCurrent, Eligible, Readable, NoHeartbeats
<1>2. ~HandleHeartbeat
  BY DEF HandleHeartbeat, Inductive, NoHeartbeats
<1>3. ASSUME NEW s \in Slots
      PROVE  ~HandleTerminal(s)
  BY OnlineSlot, SlotFd DEF HandleTerminal, NextSlot, Eligible, Inductive
<1>4. CASE ServerStep
  BY <1>2, <1>3, <1>4, InductiveAccept, InductiveLoop, InductiveRequest, InductiveClosed
     DEF ServerStep
<1>5. CASE EnvironmentStep
  BY <1>5, InductiveEnvironment
<1> QED
  BY <1>1, <1>4, <1>5 DEF Next

LEMMA InductiveAlways ==
  ASSUME Population
  PROVE  Spec => [](TypeOK /\ Inductive)
<1>1. Init => TypeOK /\ Inductive
  BY TypeInit, InductiveInit
<1>2. TypeOK /\ Inductive /\ [Next]_vars => (TypeOK /\ Inductive)'
  <2>1. TypeOK /\ [Next]_vars => TypeOK'
    BY TypeServer, TypeEnvironment, TypeStutter DEF Next
  <2> QED
    BY <2>1, InductiveNext
<1> QED
  BY <1>1, <1>2, PTL DEF Spec

\* Without heartbeats, and with room for every client, all that the manager holds
\* about its connections is at every moment in the relation that keeps it so
\* (main.c:49-95, 146-169, req.c:13-77).
THEOREM InductiveHolds ==
  ASSUME Population
  PROVE  Spec => []Inductive
BY InductiveAlways, PTL

\* Without heartbeats, and with room for every client, the manager's two tables
\* are always in lockstep: uid s is on line exactly while descriptor
\* FIRST_FD + s is open (main.c:146-169, req.c:22-29).
THEOREM Lockstep ==
  ASSUME Population
  PROVE  Spec => []SlotFdLockstep
BY InductiveAlways, PTL DEF Inductive

\* Under the same assumptions the single-threaded loop never waits in read():
\* whatever the scan turns to is readable (req.c:21, main.c:83-89).
THEOREM NeverBlocks ==
  ASSUME Population
  PROVE  Spec => []ReadNeverBlocks
<1>1. TypeOK /\ Inductive => ReadNeverBlocks
  <2> SUFFICES ASSUME TypeOK, Inductive, NEW s \in Slots, NextSlot(s)
               PROVE  CanRead(s)
    BY DEF ReadNeverBlocks
  <2>1. users[s].status = ONLINE /\ Readable(users[s].sock)
    BY DEF NextSlot, Eligible, Inductive, ScanIsCurrent
  <2> QED
    BY <2>1, OnlineSlot DEF CanRead, Inductive
<1> QED
  BY <1>1, InductiveAlways, PTL

-----------------------------------------------------------------------------
(* Users' ids.                                                             *)

\* A slot that changes hands was nobody's, or its client had left.
LEMMA OwnsKept ==
  ASSUME Population, TypeOK, Inductive, [Next]_vars,
         NEW c \in Clients, NEW s \in Slots, Owns(c, s), client[c] \notin Gone
  PROVE  Owns(c, s)'
<1> USE DEF Inductive, server, kernel, outside
<1>1. users[s].status = ONLINE /\ PeerOf(s) = c /\ c # NoClient
  BY PopulationAssumption DEF Owns
<1>2. users[s].sock = FIRST_FD + s /\ users[s].sock \in Fds /\ fdTable[FIRST_FD + s] = c
  BY <1>1, OnlineSlot
<1>3. CASE UNCHANGED <<users, fdTable>>
  BY <1>1, <1>3 DEF Owns, PeerOf
<1>4. CASE HandleNewUser
  <2>1. PICK f \in Fds, u \in Slots :
          /\ LowestFree(f)
          /\ NewUserId(u)
          /\ fdTable' = [fdTable EXCEPT ![f] = Head(backlog)]
          /\ users' = [users EXCEPT ![u] = [status |-> ONLINE, sock |-> f]]
    BY <1>4 DEF HandleNewUser
  <2>2. users[u].status = OFFLINE /\ fdTable[f] = NoClient
    BY <1>4, <2>1, AcceptMatches DEF HandleNewUser
  <2>3. s # u /\ f # users[s].sock
    BY <1>1, <1>2, <2>2 DEF ONLINE, OFFLINE
  <2>4. users'[s] = users[s] /\ fdTable'[users[s].sock] = fdTable[users[s].sock]
    BY <1>2, <2>1, <2>3 DEF TypeOK
  <2> QED
    BY <1>1, <1>2, <2>4 DEF Owns, PeerOf
<1>5. ASSUME NEW t \in Slots, HandleClosed(t)
      PROVE  Owns(c, s)'
  <2>1. users[t].status = ONLINE
    BY <1>5 DEF HandleClosed, NextSlot, Eligible
  <2>2. users[t].sock = FIRST_FD + t /\ PeerOf(t) \in Clients
    BY <2>1, OnlineSlot
  <2>3. client[PeerOf(t)] \in Gone
    BY <1>5, <2>2, PopulationAssumption DEF HandleClosed
  <2>4. s # t
    BY <1>1, <2>3
  <2>5. users'[s] = users[s]
    BY <1>5, <2>4 DEF HandleClosed, UsersAfterClose, TypeOK
  <2>6. FIRST_FD + s # FIRST_FD + t
    BY <2>4, ConstantFacts
  <2>7. fdTable'[FIRST_FD + s] = fdTable[FIRST_FD + s]
    BY <1>2, <1>5, <2>2, <2>6 DEF HandleClosed, TypeOK
  <2> QED
    BY <1>1, <1>2, <2>5, <2>7 DEF Owns, PeerOf
<1>6. CASE ServerStep
  <2>1. ~HandleHeartbeat
    BY DEF HandleHeartbeat, NoHeartbeats
  <2>2. ASSUME EnterCmd \/ ReadCmd \/ SelectUsers \/ EndRound
        PROVE  Owns(c, s)'
    BY <1>3, <2>2 DEF EnterCmd, ReadCmd, SelectUsers, EndRound
  <2>3. ASSUME NEW t \in Slots, HandleRequest(t) \/ HandleTerminal(t)
        PROVE  Owns(c, s)'
    BY <1>3, <2>3 DEF HandleRequest, HandleTerminal
  <2> QED
    BY <1>4, <1>5, <1>6, <2>1, <2>2, <2>3 DEF ServerStep
<1>7. CASE EnvironmentStep
  BY <1>3, <1>7 DEF EnvironmentStep, Connect, Register, Request, Receive, SendHeartbeat, Arrive,
                    Lose, Exit, TypeLine
<1>8. CASE UNCHANGED vars
  BY <1>3, <1>8 DEF vars
<1> QED
  BY <1>6, <1>7, <1>8 DEF Next

\* The pairs of a client and a slot of its own; ClientIdIsItsSlot in these terms.
Owned == {p \in Clients \X Slots : Owns(p[1], p[2])}

OwnedIds ==
  \A c \in Clients :
    /\ \A i \in DOMAIN reply[c] : <<c, reply[c][i]>> \in Owned
    /\ client[c] = "ready" => <<c, my_user_id[c]>> \in Owned

LEMMA OwnedKept ==
  ASSUME Population, TypeOK, Inductive, [Next]_vars,
         NEW c \in Clients, NEW s \in Slots, <<c, s>> \in Owned, client[c] \notin Gone
  PROVE  <<c, s>> \in Owned'
BY OwnsKept DEF Owned

\* It is inductive, with what it needs of the clients that have left.
LEMMA OwnIdsNext ==
  ASSUME Population, TypeOK, Inductive, OwnedIds, NoReplyToTheGone, [Next]_vars
  PROVE  OwnedIds' /\ NoReplyToTheGone'
<1> USE DEF Inductive, server, kernel, outside
<1>1. ASSUME NEW c \in Clients,
             client'[c] \in Gone => client[c] \in Gone \/ reply'[c] = <<>>,
             client'[c] = "ready" => client[c] = "ready", my_user_id'[c] = my_user_id[c],
             reply'[c] = reply[c] \/ reply'[c] = <<>>
      PROVE  /\ \A i \in DOMAIN reply'[c] : <<c, reply'[c][i]>> \in Owned'
             /\ client'[c] = "ready" => <<c, my_user_id[c]>> \in Owned'
             /\ client'[c] \in Gone => reply'[c] = <<>>
  <2>1. reply[c] \in Seq(Slots) /\ my_user_id[c] \in Slots
    BY DEF TypeOK
  <2>2. ASSUME NEW i \in DOMAIN reply[c]
        PROVE  reply[c][i] \in Slots /\ <<c, reply[c][i]>> \in Owned'
    <3>0. reply[c][i] \in Slots
      BY <2>1, <2>2
    <3>1. <<c, reply[c][i]>> \in Owned
      BY <2>2 DEF OwnedIds
    <3>2. reply[c] # <<>>
      <4>1. DOMAIN reply[c] = 1 .. Len(reply[c]) /\ Len(reply[c]) # 0
        BY <2>1, <2>2
      <4> QED
        BY <4>1
    <3>3. client[c] \notin Gone
      BY <3>2 DEF NoReplyToTheGone
    <3> QED
      BY <3>0, <3>1, <3>3, OwnedKept
  <2>3. client[c] = "ready" => <<c, my_user_id[c]>> \in Owned'
    BY <2>1, OwnedKept DEF OwnedIds, Gone
  <2> QED
    BY <1>1, <2>2, <2>3 DEF NoReplyToTheGone
<1>2. ASSUME \A c \in Clients :
               /\ client'[c] \in Gone => client[c] \in Gone \/ reply'[c] = <<>>
               /\ client'[c] = "ready" => client[c] = "ready"
               /\ my_user_id'[c] = my_user_id[c]
               /\ reply'[c] = reply[c] \/ reply'[c] = <<>>
      PROVE  OwnedIds' /\ NoReplyToTheGone'
  BY <1>1, <1>2 DEF OwnedIds, NoReplyToTheGone
<1>3. ASSUME UNCHANGED <<client, my_user_id, reply>>
      PROVE  OwnedIds' /\ NoReplyToTheGone'
  BY <1>2, <1>3
<1>4. ASSUME NEW s \in Slots, HandleRequest(s)
      PROVE  OwnedIds' /\ NoReplyToTheGone'
  <2> DEFINE d == PeerOf(s)
  <2>1. users[s].status = ONLINE /\ d \in Clients
    BY <1>4, OnlineSlot DEF HandleRequest, NextSlot, Eligible
  <2>2. <<d, s>> \in Owned
    BY <2>1 DEF Owns, Owned
  <2>3. \A c \in Clients :
          client'[c] # client[c] => client[c] = "exited" /\ client'[c] = "written"
    <3>1. PICK T \in SUBSET Slots, m \in BOOLEAN : Write(T, m)
      BY <1>4, RequestWrites
    <3>2. \/ client' = client
          \/ client' = [c \in Clients |-> IF c \in Reached(T) /\ client[c] = "exited"
                                          THEN "written" ELSE client[c]]
      BY <3>1 DEF Write
    <3>3. \A c \in Clients : client'[c] \in {client[c]} \cup
                                (IF client[c] = "exited" THEN {"written"} ELSE {})
      BY <3>2
    <3> QED
      BY <3>3
  <2>4. my_user_id' = my_user_id
    BY <1>4 DEF HandleRequest
  <2>5. \A c \in Clients : c # d => reply'[c] = reply[c]
    BY <1>4 DEF HandleRequest, TypeOK
  <2>6. CASE reply' = reply
    BY <1>2, <2>3, <2>4, <2>6 DEF Gone
  <2>7. CASE reply' # reply
    <3>1. client[d] \in Up /\ reply' = [reply EXCEPT ![d] = Append(reply[d], s)]
      BY <1>4, <2>7 DEF HandleRequest
    <3>2. reply[d] \in Seq(Slots) /\ my_user_id[d] \in Slots /\ client[d] \notin Gone
      BY <2>1, <3>1 DEF TypeOK, Up, Gone
    <3>3. /\ reply'[d] = Append(reply[d], s)
          /\ DOMAIN reply'[d] = DOMAIN reply[d] \cup {Len(reply[d]) + 1}
          /\ reply'[d][Len(reply[d]) + 1] = s
          /\ \A i \in DOMAIN reply[d] : reply'[d][i] = reply[d][i] /\ reply[d][i] \in Slots
      BY <2>1, <3>1, <3>2 DEF TypeOK
    <3>4. ASSUME NEW i \in DOMAIN reply'[d]
          PROVE  <<d, reply'[d][i]>> \in Owned'
      <4>1. reply'[d][i] \in Slots /\ <<d, reply'[d][i]>> \in Owned
        BY <2>1, <2>2, <3>3 DEF OwnedIds
      <4> QED
        BY <2>1, <3>2, <4>1, OwnedKept
    <3>5. client'[d] = "ready" => <<d, my_user_id[d]>> \in Owned'
      BY <2>1, <2>3, <3>2, OwnedKept DEF OwnedIds
    <3>6. client'[d] \notin Gone
      BY <2>1, <2>3, <3>2 DEF Gone
    <3>7. ASSUME NEW c \in Clients, c # d
          PROVE  /\ \A i \in DOMAIN reply'[c] : <<c, reply'[c][i]>> \in Owned'
                 /\ client'[c] = "ready" => <<c, my_user_id[c]>> \in Owned'
                 /\ client'[c] \in Gone => reply'[c] = <<>>
      BY <1>1, <2>3, <2>4, <2>5, <3>7 DEF Gone
    <3> QED
      BY <2>4, <3>4, <3>5, <3>6, <3>7 DEF OwnedIds, NoReplyToTheGone
  <2> QED
    BY <2>6, <2>7
<1>5. ASSUME NEW d \in Clients, Receive(d)
      PROVE  OwnedIds' /\ NoReplyToTheGone'
  <2>1. /\ client[d] \notin Gone /\ reply[d] # <<>> /\ reply[d] \in Seq(Slots)
        /\ client' = [client EXCEPT ![d] = "ready"]
        /\ my_user_id' = [my_user_id EXCEPT ![d] = Head(reply[d])]
        /\ reply' = [reply EXCEPT ![d] = Tail(reply[d])]
    BY <1>5 DEF Receive, Gone, TypeOK
  <2>2. /\ Head(reply[d]) \in Slots /\ 1 \in DOMAIN reply[d] /\ Head(reply[d]) = reply[d][1]
        /\ \A i \in DOMAIN Tail(reply[d]) :
             i + 1 \in DOMAIN reply[d] /\ Tail(reply[d])[i] = reply[d][i + 1]
             /\ reply[d][i + 1] \in Slots
    BY <2>1
  <2>3. <<d, Head(reply[d])>> \in Owned'
    BY <2>1, <2>2, OwnedKept DEF OwnedIds
  <2>4. ASSUME NEW i \in DOMAIN Tail(reply[d])
        PROVE  <<d, Tail(reply[d])[i]>> \in Owned'
    <3>1. Tail(reply[d])[i] \in Slots /\ <<d, Tail(reply[d])[i]>> \in Owned
      BY <2>2 DEF OwnedIds
    <3> QED
      BY <2>1, <3>1, OwnedKept
  <2>5. reply'[d] = Tail(reply[d]) /\ my_user_id'[d] = Head(reply[d]) /\ client'[d] = "ready"
    BY <2>1 DEF TypeOK
  <2>6. ASSUME NEW c \in Clients, c # d
        PROVE  /\ \A i \in DOMAIN reply'[c] : <<c, reply'[c][i]>> \in Owned'
               /\ client'[c] = "ready" => <<c, my_user_id'[c]>> \in Owned'
               /\ client'[c] \in Gone => reply'[c] = <<>>
    <3>1. reply'[c] = reply[c] /\ my_user_id'[c] = my_user_id[c] /\ client'[c] = client[c]
      BY <2>1, <2>6 DEF TypeOK
    <3> QED
      BY <1>1, <3>1
  <2> QED
    BY <2>3, <2>4, <2>5, <2>6 DEF OwnedIds, NoReplyToTheGone, Gone
<1>6. ASSUME NEW d \in Clients, Connect(d) \/ Register(d) \/ Exit(d)
      PROVE  OwnedIds' /\ NoReplyToTheGone'
  <2>1. my_user_id' = my_user_id
    BY <1>6 DEF Connect, Register, Exit
  <2>2. \A c \in Clients :
          /\ client'[c] \in Gone => client[c] \in Gone \/ reply'[c] = <<>>
          /\ client'[c] = "ready" => client[c] = "ready"
          /\ reply'[c] = reply[c] \/ reply'[c] = <<>>
    BY <1>6 DEF Connect, Register, Exit, TypeOK, Gone
  <2> QED
    BY <1>2, <2>1, <2>2
<1>7. CASE ServerStep
  <2>1. ASSUME \/ HandleHeartbeat \/ HandleNewUser \/ EnterCmd \/ ReadCmd \/ SelectUsers \/ EndRound
               \/ \E s \in Slots : HandleClosed(s) \/ HandleTerminal(s)
        PROVE  UNCHANGED <<client, my_user_id, reply>>
    BY <2>1 DEF HandleHeartbeat, HandleNewUser, EnterCmd, ReadCmd, SelectUsers, EndRound,
                HandleClosed, HandleTerminal
  <2> QED
    BY <1>3, <1>4, <1>7, <2>1 DEF ServerStep
<1>8. CASE EnvironmentStep
  <2>1. ASSUME NEW c \in Clients, \/ \E q \in Requests : Request(c, q)
                                  \/ Arrive(c) \/ Lose(c) \/ SendHeartbeat(c)
        PROVE  UNCHANGED <<client, my_user_id, reply>>
    BY <2>1 DEF Request, Arrive, Lose, SendHeartbeat
  <2>2. ASSUME NEW l \in Lines, TypeLine(l)
        PROVE  UNCHANGED <<client, my_user_id, reply>>
    BY <2>2 DEF TypeLine
  <2> QED
    BY <1>3, <1>5, <1>6, <1>8, <2>1, <2>2, PopulationAssumption DEF EnvironmentStep
<1>9. CASE UNCHANGED vars
  BY <1>3, <1>9 DEF vars
<1> QED
  BY <1>7, <1>8, <1>9 DEF Next

LEMMA OwnIdsAlways ==
  ASSUME Population
  PROVE  Spec => [](TypeOK /\ Inductive /\ OwnedIds /\ NoReplyToTheGone)
<1>1. Init => OwnedIds /\ NoReplyToTheGone
  BY DEF Init, OwnedIds, NoReplyToTheGone, Gone
<1>2. TypeOK /\ Inductive /\ OwnedIds /\ NoReplyToTheGone /\ [Next]_vars
        => (OwnedIds /\ NoReplyToTheGone)'
  BY OwnIdsNext
<1> QED
  BY <1>1, <1>2, InductiveAlways, PTL DEF Spec

\* Without heartbeats, and with room for every client, the id a client is sent,
\* and goes by from then on, is the slot its own connection is in
\* (req.c:80-97, gogup_client/src/main.c:421-425).
THEOREM OwnIds ==
  ASSUME Population
  PROVE  Spec => []ClientIdIsItsSlot
<1>1. OwnedIds => ClientIdIsItsSlot
  BY DEF OwnedIds, Owned, ClientIdIsItsSlot
<1> QED
  BY <1>1, OwnIdsAlways, PTL

-----------------------------------------------------------------------------
(* The session layer implements Identity.                                  *)

\* The refinement mapping of Ids, by name, with Admitted.
Holder   == [s \in Slots |-> IF users[s].status = ONLINE THEN PeerOf(s) ELSE NoClient]
Told     == [c \in Clients |-> IF client[c] = "ready" THEN my_user_id[c] ELSE USER_MAX]
Left     == {c \in Clients : client[c] \in Gone}

LEMMA MapInit == Init => Ids!Init
BY DEF Init, Ids!Init, Gone, ONLINE, OFFLINE

\* accept() admits the client at the head of the listen queue.
LEMMA MapAccept ==
  ASSUME Population, TypeOK, Inductive, HandleNewUser
  PROVE  Ids!Next
<1> USE DEF Inductive, outside
<1>1. PICK f \in Fds, u \in Slots :
        /\ LowestFree(f)
        /\ NewUserId(u)
        /\ fdTable' = [fdTable EXCEPT ![f] = Head(backlog)]
        /\ users' = [users EXCEPT ![u] = [status |-> ONLINE, sock |-> f]]
  BY DEF HandleNewUser
<1>2. f = FIRST_FD + u /\ users[u].status = OFFLINE /\ fdTable[f] = NoClient
  BY <1>1, AcceptMatches DEF HandleNewUser
<1>0. PICK c \in Clients : c = Head(backlog)
  BY DEF HandleNewUser, TypeOK
<1>3. /\ c \in Clients /\ backlog # <<>> /\ 1 \in DOMAIN backlog /\ backlog[1] = c
      /\ backlog' = Tail(backlog) /\ client' = client /\ my_user_id' = my_user_id
      /\ DOMAIN Tail(backlog) = 1 .. Len(backlog) - 1
      /\ DOMAIN backlog = 1 .. Len(backlog) /\ Len(backlog) \in Nat
      /\ \A i \in DOMAIN Tail(backlog) : Tail(backlog)[i] = backlog[i + 1]
  BY <1>0 DEF HandleNewUser, TypeOK
<1>4. c \notin Admitted
  BY <1>3 DEF Admitted
<1>5. Admitted' = Admitted \cup {c}
  <2>1. client[c] # "off"
    BY <1>3 DEF OneConnectionEach
  <2>2. \A i \in DOMAIN Tail(backlog) : Tail(backlog)[i] # c
    BY <1>3 DEF OneConnectionEach
  <2>3. ASSUME NEW d \in Clients, d # c
        PROVE  (\A i \in DOMAIN backlog : backlog[i] # d)
                 <=> (\A i \in DOMAIN Tail(backlog) : Tail(backlog)[i] # d)
    <3>1. \A i \in DOMAIN backlog : i = 1 \/ i - 1 \in DOMAIN Tail(backlog)
      BY <1>3
    <3> QED
      BY <1>3, <2>3, <3>1
  <2> QED
    BY <1>3, <2>1, <2>2, <2>3 DEF Admitted
<1>6. Holder[u] = NoClient
  BY <1>2 DEF Holder, ONLINE, OFFLINE
<1>7. Holder' = [Holder EXCEPT ![u] = c]
  <2>1. ASSUME NEW s \in Slots, s # u
        PROVE  Holder'[s] = Holder[s]
    <3>1. users'[s] = users[s]
      BY <1>1, <2>1 DEF TypeOK
    <3>2. CASE users[s].status = ONLINE
      <4>0. FIRST_FD + s # FIRST_FD + u
        BY <2>1, ConstantFacts
      <4>1. users[s].sock = FIRST_FD + s /\ users[s].sock \in Fds /\ users[s].sock # f
        BY <1>2, <3>2, <4>0, OnlineSlot
      <4>2. fdTable'[users[s].sock] = fdTable[users[s].sock]
        BY <1>1, <4>1 DEF TypeOK
      <4> QED
        BY <3>1, <4>1, <4>2 DEF Holder, PeerOf
    <3>3. CASE users[s].status # ONLINE
      BY <3>1, <3>3 DEF Holder
    <3> QED
      BY <3>2, <3>3
  <2>2. Holder'[u] = c
    <3>1. users'[u] = [status |-> ONLINE, sock |-> f] /\ fdTable'[f] = c
      BY <1>0, <1>1 DEF TypeOK
    <3> QED
      BY <3>1 DEF Holder, PeerOf
  <2> QED
    BY <2>1, <2>2 DEF Holder
<1>8. Told' = Told /\ Left' = Left
  BY <1>3 DEF Told, Left
<1>9. Ids!Admit(c, u)
  BY <1>4, <1>5, <1>6, <1>7, <1>8 DEF Ids!Admit, Holder, Admitted, Told, Left
<1> QED
  BY <1>9 DEF Ids!Next

\* Closing a connection releases the id of a client that has left.
LEMMA MapClosed ==
  ASSUME Population, TypeOK, Inductive, NEW s \in Slots, HandleClosed(s)
  PROVE  Ids!Next
<1> USE DEF Inductive, kernel, outside
<1>1. users[s].status = ONLINE
  BY DEF HandleClosed, NextSlot, Eligible
<1>2. users[s].sock = FIRST_FD + s /\ PeerOf(s) \in Clients /\ FIRST_FD + s \in Fds
  BY <1>1, OnlineSlot, SlotFd
<1>3. Holder[s] \in Left
  <2>1. client[PeerOf(s)] \in Gone
    BY <1>2, PopulationAssumption DEF HandleClosed
  <2> QED
    BY <1>1, <1>2, <2>1 DEF Holder, Left
<1>4. /\ users' = [users EXCEPT ![s].status = OFFLINE]
      /\ fdTable' = [fdTable EXCEPT ![FIRST_FD + s] = NoClient]
      /\ UNCHANGED <<backlog, client, my_user_id>>
  BY <1>2 DEF HandleClosed, UsersAfterClose
<1>5. Holder' = [Holder EXCEPT ![s] = NoClient]
  <2>1. ASSUME NEW t \in Slots, t # s
        PROVE  Holder'[t] = Holder[t]
    <3>1. users'[t] = users[t]
      BY <1>4, <2>1 DEF TypeOK
    <3>2. CASE users[t].status = ONLINE
      <4>1. users[t].sock = FIRST_FD + t /\ users[t].sock \in Fds
            /\ users[t].sock # FIRST_FD + s
        BY <2>1, <3>2, OnlineSlot, ConstantFacts
      <4>2. fdTable'[users[t].sock] = fdTable[users[t].sock]
        BY <1>4, <4>1 DEF TypeOK
      <4> QED
        BY <3>1, <4>1, <4>2 DEF Holder, PeerOf
    <3>3. CASE users[t].status # ONLINE
      BY <3>1, <3>3 DEF Holder
    <3> QED
      BY <3>2, <3>3
  <2>2. Holder'[s] = NoClient
    <3>1. users'[s].status = OFFLINE
      BY <1>4 DEF TypeOK
    <3> QED
      BY <3>1 DEF Holder, ONLINE, OFFLINE
  <2> QED
    BY <2>1, <2>2 DEF Holder
<1>6. Admitted' = Admitted /\ Told' = Told /\ Left' = Left
  BY <1>4 DEF Admitted, Told, Left
<1>7. Ids!Release(s)
  BY <1>3, <1>5, <1>6 DEF Ids!Release, Holder, Admitted, Told, Left
<1> QED
  BY <1>7 DEF Ids!Next

\* The response tells a client an id that is its own.
LEMMA MapReceive ==
  ASSUME Population, TypeOK, Inductive, OwnedIds, NEW c \in Clients, Receive(c)
  PROVE  Ids!Next
<1> USE DEF server, kernel
<1>1. /\ client[c] \notin Gone /\ reply[c] # <<>> /\ reply[c] \in Seq(Slots)
      /\ client' = [client EXCEPT ![c] = "ready"]
      /\ my_user_id' = [my_user_id EXCEPT ![c] = Head(reply[c])]
      /\ client[c] # "off"
      /\ UNCHANGED <<users, fdTable, backlog>>
  BY DEF Receive, Gone, TypeOK
<1>2. PICK u \in Slots : u = Head(reply[c]) /\ <<c, u>> \in Owned
  <2>1. Head(reply[c]) \in Slots /\ 1 \in DOMAIN reply[c] /\ Head(reply[c]) = reply[c][1]
    BY <1>1
  <2>2. <<c, reply[c][1]>> \in Owned
    BY <2>1 DEF OwnedIds
  <2> QED
    BY <2>1, <2>2
<1>3. c \notin Left /\ Holder[u] = c
  <2>1. users[u].status = ONLINE /\ PeerOf(u) = c
    BY <1>2 DEF Owned, Owns
  <2>2. Holder[u] = c
    BY <2>1 DEF Holder
  <2> QED
    BY <1>1, <2>2 DEF Left
<1>4. Told' = [Told EXCEPT ![c] = u]
  BY <1>1, <1>2 DEF Told, TypeOK
<1>5. Holder' = Holder
  BY <1>1 DEF Holder, PeerOf
<1>6. Admitted' = Admitted /\ Left' = Left
  <2>1. \A d \in Clients : client'[d] = IF d = c THEN "ready" ELSE client[d]
    BY <1>1 DEF TypeOK
  <2>2. Admitted' = Admitted
    BY <1>1, <2>1 DEF Admitted
  <2>3. Left' = Left
    BY <1>1, <2>1 DEF Left, Gone
  <2> QED
    BY <2>2, <2>3
<1>7. Ids!Tell(c, u)
  BY <1>3, <1>4, <1>5, <1>6 DEF Ids!Tell, Holder, Admitted, Told, Left
<1> QED
  BY <1>7 DEF Ids!Next

LEMMA MapExit ==
  ASSUME TypeOK, NEW c \in Clients, Exit(c)
  PROVE  Ids!Next
<1> USE DEF server
<1>1. /\ client[c] \notin Gone /\ client[c] # "off"
      /\ client' = [client EXCEPT ![c] = "exited"]
      /\ UNCHANGED <<users, fdTable, backlog, my_user_id>>
  BY DEF Exit, Up, Gone
<1>2. c \notin Left /\ Left' = Left \cup {c}
  BY <1>1 DEF Left, Gone, TypeOK
<1>3. Told' = [Told EXCEPT ![c] = USER_MAX]
  BY <1>1 DEF Told, TypeOK
<1>4. Holder' = Holder /\ Admitted' = Admitted
  BY <1>1 DEF Holder, PeerOf, Admitted, TypeOK
<1>5. Ids!Leave(c)
  BY <1>2, <1>3, <1>4 DEF Ids!Leave, Holder, Admitted, Told, Left
<1> QED
  BY <1>5 DEF Ids!Next

\* Every other step is invisible: it moves no slot, and no client comes, is
\* answered or leaves.
LEMMA MapStutter ==
  ASSUME TypeOK,
         UNCHANGED <<users, fdTable, my_user_id>>,
         \A c \in Clients : /\ client'[c] = "ready" <=> client[c] = "ready"
                            /\ client'[c] \in Gone <=> client[c] \in Gone,
         Admitted' = Admitted
  PROVE  UNCHANGED Ids!vars
<1>1. Holder' = Holder
  BY DEF Holder, PeerOf
<1>2. Told' = Told /\ Left' = Left
  BY DEF Told, Left
<1> QED
  BY <1>1, <1>2 DEF Ids!vars, Holder, Admitted, Told, Left

LEMMA MapNext ==
  ASSUME Population, TypeOK, Inductive, OwnedIds, [Next]_vars
  PROVE  [Ids!Next]_Ids!vars
<1> USE DEF server, kernel, outside
<1>1. CASE ServerStep
  <2>1. ~HandleHeartbeat
    BY DEF HandleHeartbeat, Inductive, NoHeartbeats
  <2>2. ASSUME \/ EnterCmd \/ ReadCmd \/ SelectUsers \/ EndRound
               \/ \E s \in Slots : HandleTerminal(s)
        PROVE  UNCHANGED Ids!vars
    <3>1. UNCHANGED <<users, fdTable, my_user_id, client, backlog>>
      BY <2>2 DEF EnterCmd, ReadCmd, SelectUsers, BeginScan, EndRound, HandleTerminal
    <3>2. Admitted' = Admitted
      BY <3>1 DEF Admitted
    <3> QED
      BY <3>1, <3>2, MapStutter
  <2>3. ASSUME NEW s \in Slots, HandleRequest(s)
        PROVE  UNCHANGED Ids!vars
    <3>1. UNCHANGED <<users, fdTable, my_user_id, backlog>>
      BY <2>3 DEF HandleRequest
    <3>2. PICK T \in SUBSET Slots, m \in BOOLEAN : Write(T, m)
      BY <2>3, RequestWrites
    <3>3. \/ client' = client
          \/ client' = [c \in Clients |-> IF c \in Reached(T) /\ client[c] = "exited"
                                          THEN "written" ELSE client[c]]
      BY <3>2 DEF Write
    <3>4. \A c \in Clients :
            client'[c] # client[c] => client[c] = "exited" /\ client'[c] = "written"
      BY <3>3
    <3>5. \A c \in Clients : /\ client'[c] = "ready" <=> client[c] = "ready"
                             /\ client'[c] \in Gone <=> client[c] \in Gone
                             /\ client'[c] # "off" <=> client[c] # "off"
      BY <3>4 DEF Gone
    <3>6. Admitted' = Admitted
      BY <3>1, <3>5 DEF Admitted
    <3> QED
      BY <3>1, <3>5, <3>6, MapStutter
  <2> QED
    BY <1>1, <2>1, <2>2, <2>3, MapAccept, MapClosed DEF ServerStep
<1>2. CASE EnvironmentStep
  <2>1. ASSUME NEW c \in Clients, Connect(c)
        PROVE  UNCHANGED Ids!vars
    <3>1. /\ client[c] = "off" /\ client' = [client EXCEPT ![c] = "naming"]
          /\ backlog' = Append(backlog, c) /\ backlog \in Seq(Clients)
          /\ UNCHANGED <<users, fdTable, my_user_id>>
      BY <2>1 DEF Connect, TypeOK
    <3>2. \A d \in Clients : client'[d] = IF d = c THEN "naming" ELSE client[d]
      BY <3>1 DEF TypeOK
    <3>3. /\ DOMAIN backlog' = DOMAIN backlog \cup {Len(backlog) + 1}
          /\ backlog'[Len(backlog) + 1] = c
          /\ \A i \in DOMAIN backlog : backlog'[i] = backlog[i]
      BY <3>1
    <3>4. Admitted' = Admitted
      BY <3>1, <3>2, <3>3 DEF Admitted
    <3>5. \A d \in Clients : /\ client'[d] = "ready" <=> client[d] = "ready"
                             /\ client'[d] \in Gone <=> client[d] \in Gone
      BY <3>1, <3>2 DEF Gone
    <3> QED
      BY <3>1, <3>4, <3>5, MapStutter
  <2>2. ASSUME NEW c \in Clients, Register(c)
        PROVE  UNCHANGED Ids!vars
    <3>1. /\ client[c] = "naming" /\ client' = [client EXCEPT ![c] = "waiting"]
          /\ UNCHANGED <<users, fdTable, my_user_id, backlog>>
      BY <2>2 DEF Register
    <3>2. \A d \in Clients : client'[d] = IF d = c THEN "waiting" ELSE client[d]
      BY <3>1 DEF TypeOK
    <3>3. Admitted' = Admitted
      BY <3>1, <3>2 DEF Admitted
    <3>4. \A d \in Clients : /\ client'[d] = "ready" <=> client[d] = "ready"
                             /\ client'[d] \in Gone <=> client[d] \in Gone
      BY <3>1, <3>2 DEF Gone
    <3> QED
      BY <3>1, <3>3, <3>4, MapStutter
  <2>3. ASSUME \/ \E c \in Clients, q \in Requests : Request(c, q)
               \/ \E c \in Clients : Arrive(c) \/ Lose(c)
               \/ \E l \in Lines : TypeLine(l)
        PROVE  UNCHANGED Ids!vars
    <3>1. UNCHANGED <<users, fdTable, my_user_id, client, backlog>>
      BY <2>3 DEF Request, Arrive, Lose, TypeLine
    <3>2. Admitted' = Admitted
      BY <3>1 DEF Admitted
    <3> QED
      BY <3>1, <3>2, MapStutter
  <2> QED
    BY <1>2, <2>1, <2>2, <2>3, MapReceive, MapExit DEF EnvironmentStep, Population
<1>3. CASE UNCHANGED vars
  <2>1. UNCHANGED <<users, fdTable, my_user_id, client, backlog>>
    BY <1>3 DEF vars
  <2>2. Admitted' = Admitted
    BY <2>1 DEF Admitted
  <2> QED
    BY <2>1, <2>2, MapStutter
<1> QED
  BY <1>1, <1>2, <1>3 DEF Next

\* The session layer implements Identity when no client sends heartbeats and
\* the table has room: every step admits, tells, loses or releases one user as
\* Identity allows, or changes nothing a user can see.
THEOREM Implements ==
  ASSUME Population
  PROVE  Spec => ImplementsIdentity
<1>1. Init => Ids!Init
  BY MapInit
<1>2. TypeOK /\ Inductive /\ OwnedIds /\ [Next]_vars => [Ids!Next]_Ids!vars
  BY MapNext
<1> QED
  BY <1>1, <1>2, OwnIdsAlways, PTL DEF Spec, Ids!Spec, ImplementsIdentity

\* A user who has been told an id holds it and nobody else does: the promise of
\* Identity, kept by the session layer through the refinement mapping.
THEOREM TheirOwn ==
  ASSUME Population
  PROVE  Spec => []Ids!IdsAreTheirOwn
<1>1. ASSUME TypeOK, Inductive, OwnedIds, NEW c \in Clients, NEW u \in Slots,
             Told[c] # USER_MAX
      PROVE  Told[c] = u <=> Holder[u] = c
  <2>1. client[c] = "ready" /\ Told[c] = my_user_id[c]
    BY <1>1 DEF Told
  <2>2. my_user_id[c] \in Slots /\ Owns(c, my_user_id[c])
    BY <1>1, <2>1 DEF OwnedIds, Owned
  <2>3. Told[c] = u => Holder[u] = c
    BY <2>1, <2>2 DEF Owns, Holder
  <2>4. ASSUME Holder[u] = c
        PROVE  Told[c] = u
    <3>1. users[u].status = ONLINE /\ PeerOf(u) = c
      BY <2>4, PopulationAssumption DEF Holder
    <3>2. /\ FIRST_FD + u \in Fds /\ fdTable[FIRST_FD + u] = c
          /\ FIRST_FD + my_user_id[c] \in Fds /\ fdTable[FIRST_FD + my_user_id[c]] = c
      BY <1>1, <2>2, <3>1, OnlineSlot DEF Inductive, Owns
    <3>3. c # NoClient
      BY PopulationAssumption
    <3>4. FIRST_FD + u = FIRST_FD + my_user_id[c]
      BY <1>1, <3>2, <3>3 DEF Inductive, OneConnectionEach
    <3> QED
      BY <2>1, <2>2, <3>4, ConstantFacts DEF Slots
  <2> QED
    BY <2>3, <2>4
<1>2. TypeOK /\ Inductive /\ OwnedIds => Ids!IdsAreTheirOwn
  BY <1>1 DEF Ids!IdsAreTheirOwn, Told, Holder
<1> QED
  BY <1>2, OwnIdsAlways, PTL
=============================================================================
