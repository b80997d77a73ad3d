----------------------------- MODULE Discovery -----------------------------
(***************************************************************************)
(* How clients find the manager.  A manager announces its address to a     *)
(* multicast group; a client that was started without an address waits in  *)
(* recvfrom() for an announcement, connects, asks its user for a name and  *)
(* enters its select loop, where it sends a heartbeat after five idle      *)
(* seconds.  The two managers of the repository announce themselves at     *)
(* different places of their loops; one of them runs.  All client programs *)
(* of the repository are here, as records of what they do differently.     *)
(*                                                                         *)
(* A round of a manager may wait outside select(): in scanf() for a word of *)
(* its operator, or in read() for a client whose socket two slots hold.    *)
(* Nothing is announced meanwhile.                                         *)
(*                                                                         *)
(* Time passes in seconds.  Programs are fast: a second does not pass      *)
(* while one of them has something to read or a timer that has run out.    *)
(***************************************************************************)
EXTENDS Naturals, FiniteSets

CONSTANTS
  Clients,
  Installed,         \* bound: the programs that each client may be
  TIME_VAL_SECONDS,  \* the select timeout of both managers
  CLIENT_SECONDS,    \* the select timeout of the clients
  MaxBeats           \* bound: heartbeats the manager's UDP socket holds

ASSUME DiscoveryAssumption ==
  /\ TIME_VAL_SECONDS \in Nat \ {0}
  /\ CLIENT_SECONDS \in Nat \ {0}
  /\ MaxBeats \in Nat
  /\ Installed \in [Clients -> SUBSET
       [group : {"argument", "none", "release"}, registers : BOOLEAN,
        beats : BOOLEAN, atEnd : {"off", "spinning"}]]

-----------------------------------------------------------------------------
(* The programs.  group: where the manager's address comes from; registers *)
(* and beats: whether it does; atEnd: what follows when read() says that   *)
(* the manager is gone.                                                    *)

gogup_client ==
  [group |-> "argument", registers |-> TRUE, beats |-> TRUE, atEnd |-> "off"]

client_out ==
  [group |-> "argument", registers |-> TRUE, beats |-> TRUE, atEnd |-> "off"]

gogup_mcast ==
  [group |-> "argument", registers |-> TRUE, beats |-> TRUE, atEnd |-> "off"]

\* It is told the manager's address instead of a group.
gogup_without_mcast ==
  [group |-> "none", registers |-> TRUE, beats |-> TRUE, atEnd |-> "off"]

\* It knows the release manager's group only, sends no heartbeats, and when the
\* manager is gone its select() returns at once for ever.
client ==
  [group |-> "release", registers |-> TRUE, beats |-> FALSE, atEnd |-> "spinning"]

client_core ==
  [group |-> "argument", registers |-> FALSE, beats |-> TRUE, atEnd |-> "off"]

tcp_client ==
  [group |-> "none", registers |-> FALSE, beats |-> FALSE, atEnd |-> "off"]

VARIABLES
  running,  \* the manager that is installed: "manager" or "release"
  up,       \* whether it runs
  at,       \* what it waits in: "select", "scanf" or "read"
  reported, \* the clients that select() reported and the scan has not come to
  from,     \* the client whose connection it waits for in read(), as a set
  waited,   \* seconds its select() has waited
  since,    \* seconds since its last announcement (manager/: its multiTimer)
  beats,    \* heartbeats in its UDP socket
  stray,    \* whether one of them may name a slot that is not its sender's
  ghost,    \* whether a slot may be on line with the socket of another slot
  line,     \* the line the operator has typed and it has not read
  program,  \* program[c] : the program of client c
  phase,    \* where in its program client c is
  conn,     \* the connection of client c
  ready,    \* ready[c] : the manager's end of the connection is readable
  inbox,    \* inbox[c] : the client's end is
  heard,    \* heard[c] : an announcement is in the client's multicast socket
  idle      \* seconds the client's select() has waited

loopVars    == <<at, reported, from, waited, since>>
managerVars == <<up, loopVars, beats, stray, ghost, line>>
clientVars  == <<phase, conn, ready, inbox, heard, idle>>
vars        == <<running, program, managerVars, clientVars>>

TypeOK ==
  /\ running \in {"manager", "release"}
  /\ up \in BOOLEAN
  /\ at \in {"select", "scanf", "read"}
  /\ reported \subseteq Clients
  /\ from \subseteq Clients
  /\ waited \in 0 .. TIME_VAL_SECONDS
  /\ since \in 0 .. TIME_VAL_SECONDS + 1
  /\ beats \in 0 .. MaxBeats
  /\ stray \in BOOLEAN /\ ghost \in BOOLEAN
  /\ line \in {"none", "blank", "word"}
  /\ program \in [Clients -> UNION {Installed[c] : c \in Clients}]
  /\ phase \in [Clients -> {"off", "listening", "connecting", "naming", "looping", "spinning"}]
  /\ conn \in [Clients -> {"none", "queued", "accepted", "closed"}]
  /\ ready \in [Clients -> BOOLEAN]
  /\ inbox \in [Clients -> BOOLEAN]
  /\ heard \in [Clients -> BOOLEAN]
  /\ idle \in [Clients -> 0 .. CLIENT_SECONDS]

Init ==
  /\ running \in {"manager", "release"}
  /\ up = FALSE
  /\ at = "select" /\ reported = {} /\ from = {} /\ waited = 0 /\ since = 0
  /\ beats = 0 /\ stray = FALSE /\ ghost = FALSE /\ line = "none"
  /\ program \in [Clients -> UNION {Installed[c] : c \in Clients}]
  /\ \A c \in Clients : program[c] \in Installed[c]
  /\ phase = [c \in Clients |-> "off"]
  /\ conn = [c \in Clients |-> "none"]
  /\ ready = [c \in Clients |-> FALSE]
  /\ inbox = [c \in Clients |-> FALSE]
  /\ heard = [c \in Clients |-> FALSE]
  /\ idle = [c \in Clients |-> 0]

-----------------------------------------------------------------------------
(* The manager.                                                            *)

Connected == {c \in Clients : conn[c] \in {"queued", "accepted"}}
Queued    == {c \in Clients : conn[c] = "queued"}
Readable  == {c \in Clients : conn[c] = "accepted" /\ ready[c]}

\* The clients whose multicast socket has joined the manager's group: a group
\* given as an argument is the right one.
Listeners ==
  {c \in Clients : phase[c] = "listening" /\ program[c].group \in {"argument", running}}

\* select() has a descriptor to report.
Event == beats > 0 \/ Queued # {} \/ line # "none" \/ Readable # {}

TimedOut == at = "select" /\ ~Event

\* sendto() the group: any of the listeners may miss it.
multicast_server_info(got) ==
  /\ got \subseteq Listeners
  /\ heard' = [c \in Clients |-> heard[c] \/ c \in got]
  /\ since' = 0

NoAnnouncement == UNCHANGED <<heard, since>>

-----------------------------------------------------------------------------
(* The scan of users[].                                                    *)

\* The sockets of the clients in R are read: a request is answered (that some
\* are not, and others by several responses, matters in Sessions only), the end
\* of a connection is answered by closing it.  new is the client accepted in
\* this round, if any.  A heartbeat that is left of a client whose connection
\* is closed names a slot that is off line.
Scanned(R, new) ==
  /\ conn' = [c \in Clients |->
       IF c \in new THEN "accepted" ELSE IF c \in R /\ phase[c] = "off" THEN "none" ELSE conn[c]]
  /\ ready' = [c \in Clients |-> ready[c] /\ c \notin R]
  /\ inbox' = [c \in Clients |-> inbox[c] \/ (c \in R /\ phase[c] # "off")]
  /\ stray' = (beats' > 0 /\ (stray \/ \E c \in R : phase[c] = "off"))

\* Mutant of AnnouncesNow: only when select() timed out, as in release/manager.
OnTimeoutOnly == TimedOut

\* manager/: the clock is asked before every select().
AnnouncesNow == since >= 1

\* Mutant of ReleaseAnnounces: select() is taken to have timed out when it failed.
OnError == FALSE

\* release/manager: when select() has timed out.
ReleaseAnnounces == TimedOut

Announces == IF running = "manager" THEN AnnouncesNow ELSE ReleaseAnnounces

\* The scan comes to its end and select() is called again.
ScanEnds(R, new, got) ==
  /\ Scanned(R, new)
  /\ at' = "select" /\ reported' = {} /\ from' = {}
  /\ \/ Announces /\ multicast_server_info(got)
     \/ ~Announces /\ got = {} /\ NoAnnouncement

\* After the clients in S, the scan comes a second time to the socket of one of
\* them, whose request it has read: read() waits (main.c:141, req.c:21).
ScanWaits(R, new) ==
  /\ ghost
  /\ \E S \in SUBSET R : \E c \in S :
       /\ phase[c] # "off"
       /\ Scanned(S, new)
       /\ from' = {c}
       /\ reported' = R \ S
  /\ at' = "read"
  /\ NoAnnouncement

Scan(R, new, got) == ScanEnds(R, new, got) \/ (got = {} /\ ScanWaits(R, new))

-----------------------------------------------------------------------------
(* The round: one heartbeat, connection or line, then the scan.            *)

\* Mutant of handle_heartbeat: recvfrom() without asking FD_ISSET().
HeartbeatUnasked ==
  /\ beats' = beats - 1
  /\ UNCHANGED <<line, ghost>>

\* The slot a heartbeat names is on line afterwards, with the socket it had last.
handle_heartbeat ==
  /\ beats > 0
  /\ beats' = beats - 1
  /\ ghost' = (ghost \/ stray)
  /\ UNCHANGED line

\* One connection of the listen queue, in no particular order.
handle_new_user(c) ==
  /\ beats = 0 /\ c \in Queued
  /\ UNCHANGED <<beats, line, ghost>>

\* scanf() has the line l of the operator.
Typed(l) ==
  /\ line = l /\ line' = "none"
  /\ UNCHANGED <<beats, ghost>>

handle_cmd(l) ==
  /\ beats = 0 /\ Queued = {}
  /\ Typed(l)

NoneOfThese ==
  /\ beats = 0 /\ Queued = {} /\ line = "none"
  /\ UNCHANGED <<beats, line, ghost>>

\* A blank line does not end scanf(): it waits for the next.
WaitsForWord(R) ==
  /\ at' = "scanf" /\ reported' = R
  /\ UNCHANGED <<from, stray, conn, ready, inbox>>
  /\ NoAnnouncement

\* select() returns, and the round is done or comes to wait.
Serve(got) ==
  /\ up /\ at = "select"
  /\ Event \/ waited = TIME_VAL_SECONDS
  /\ \/ (handle_heartbeat \/ handle_cmd("word") \/ NoneOfThese) /\ Scan(Readable, {}, got)
     \/ \E c \in Clients : handle_new_user(c) /\ Scan(Readable, {c}, got)
     \/ got = {} /\ handle_cmd("blank") /\ WaitsForWord(Readable)
  /\ waited' = 0
  /\ UNCHANGED <<running, program, up, phase, idle>>

\* scanf() reads the next line.
ServeWord(got) ==
  /\ up /\ at = "scanf"
  /\ \/ Typed("word") /\ Scan(reported, {}, got)
     \/ got = {} /\ Typed("blank") /\ WaitsForWord(reported)
  /\ UNCHANGED <<running, program, up, waited, phase, idle>>

\* The client has sent another request, or has left.
ServeAgain(got) ==
  /\ up /\ at = "read"
  /\ \A c \in from : ready[c]
  /\ UNCHANGED <<beats, line, ghost>>
  /\ Scan(reported \cup from, {}, got)
  /\ UNCHANGED <<running, program, up, waited, phase, idle>>

ManagerStep(got) == Serve(got) \/ ServeWord(got) \/ ServeAgain(got)

\* main() up to its first select().
Start ==
  /\ ~up
  /\ up' = TRUE
  /\ UNCHANGED <<running, program, loopVars, beats, stray, ghost, line, clientVars>>

\* The manager is killed; its sockets are closed.
Die ==
  /\ up
  /\ up' = FALSE
  /\ at' = "select" /\ reported' = {} /\ from' = {} /\ waited' = 0 /\ since' = 0
  /\ beats' = 0 /\ stray' = FALSE /\ ghost' = FALSE /\ line' = "none"
  /\ conn' = [c \in Clients |->
       IF c \in Connected THEN IF phase[c] = "off" THEN "none" ELSE "closed" ELSE conn[c]]
  /\ ready' = [c \in Clients |-> FALSE]
  /\ UNCHANGED <<running, program, phase, inbox, heard, idle>>

TypeLine(l) ==
  /\ up /\ line = "none"
  /\ line' = l
  /\ UNCHANGED <<running, program, up, loopVars, beats, stray, ghost, clientVars>>

-----------------------------------------------------------------------------
(* A client.                                                               *)

Only(c, p) ==
  /\ phase' = [phase EXCEPT ![c] = p]
  /\ UNCHANGED <<running, program, managerVars>>

\* main() and init() up to recvfrom(), or to connect() when there is no group.
Launch(c) ==
  /\ phase[c] = "off" /\ conn[c] = "none"
  /\ Only(c, IF program[c].group = "none" THEN "connecting" ELSE "listening")
  /\ UNCHANGED <<conn, ready, inbox, heard, idle>>

recv_server_info(c) ==
  /\ phase[c] = "listening" /\ heard[c]
  /\ heard' = [heard EXCEPT ![c] = FALSE]
  /\ Only(c, "connecting")
  /\ UNCHANGED <<conn, ready, inbox, idle>>

\* connect() is refused while no manager runs, and the program ends.
Connect(c) ==
  /\ phase[c] = "connecting"
  /\ \/ /\ up
        /\ conn' = [conn EXCEPT ![c] = "queued"]
        /\ Only(c, IF program[c].registers THEN "naming" ELSE "looping")
     \/ /\ ~up
        /\ Only(c, "off")
        /\ UNCHANGED conn
  /\ idle' = [idle EXCEPT ![c] = 0]
  /\ UNCHANGED <<ready, inbox, heard>>

\* A request on the client's connection.
Written(c) == ready' = [ready EXCEPT ![c] = c \in Connected]

\* The user types a name; it is sent and the loop begins.
req_register(c) ==
  /\ phase[c] = "naming"
  /\ Written(c)
  /\ Only(c, "looping")
  /\ idle' = [idle EXCEPT ![c] = 0]
  /\ UNCHANGED <<conn, inbox, heard>>

\* The user types at most one line a second.
Ask(c) ==
  /\ phase[c] = "looping" /\ idle[c] > 0
  /\ Written(c)
  /\ idle' = [idle EXCEPT ![c] = 0]
  /\ Only(c, "looping")
  /\ UNCHANGED <<conn, inbox, heard>>

\* Whatever the manager sent is read, or the end of the connection.
handle_res(c) ==
  /\ phase[c] = "looping"
  /\ \/ /\ inbox[c]
        /\ inbox' = [inbox EXCEPT ![c] = FALSE]
        /\ Only(c, "looping")
        /\ UNCHANGED conn
     \/ /\ ~inbox[c] /\ conn[c] = "closed"
        /\ Only(c, program[c].atEnd)
        /\ conn' = [conn EXCEPT ![c] = "none"]
        /\ UNCHANGED inbox
  /\ idle' = [idle EXCEPT ![c] = 0]
  /\ UNCHANGED <<ready, heard>>

\* select() times out: a heartbeat, which the network may lose.  It carries the
\* user's id, or 0 while the client has not been told it.
Told(c) == program[c].registers /\ conn[c] = "accepted" /\ ~ready[c]

send_heartbeat(c) ==
  /\ phase[c] = "looping" /\ idle[c] = CLIENT_SECONDS
  /\ \/ /\ program[c].beats /\ up /\ beats < MaxBeats
        /\ beats' = beats + 1
        /\ stray' = (stray \/ ~Told(c))
     \/ UNCHANGED <<beats, stray>>
  /\ idle' = [idle EXCEPT ![c] = 0]
  /\ UNCHANGED <<running, program, up, loopVars, ghost, line, phase, conn, ready, inbox, heard>>

\* The user ends the program.
Exit(c) ==
  /\ phase[c] # "off"
  /\ ready' = [ready EXCEPT ![c] = c \in Connected]
  /\ conn' = [conn EXCEPT ![c] = IF @ = "closed" THEN "none" ELSE @]
  /\ inbox' = [inbox EXCEPT ![c] = FALSE]
  /\ heard' = [heard EXCEPT ![c] = FALSE]
  /\ Only(c, "off")
  /\ UNCHANGED idle

-----------------------------------------------------------------------------
(* A second passes.                                                        *)

Later(n, limit) == IF n < limit THEN n + 1 ELSE n

\* The manager has nothing to do by itself yet.
Waiting ==
  \/ TimedOut /\ waited < TIME_VAL_SECONDS
  \/ at = "scanf" /\ line = "none"
  \/ at = "read" /\ \E c \in from : ~ready[c]

Tick ==
  /\ up => Waiting
  /\ \A c \in Clients :
       phase[c] = "looping" => ~inbox[c] /\ conn[c] # "closed" /\ idle[c] < CLIENT_SECONDS
  /\ waited' = IF up /\ at = "select" THEN waited + 1 ELSE waited
  /\ since' = IF up THEN Later(since, TIME_VAL_SECONDS + 1) ELSE since
  /\ idle' = [c \in Clients |-> IF phase[c] = "looping" THEN idle[c] + 1 ELSE idle[c]]
  /\ UNCHANGED <<running, program, up, at, reported, from, beats, stray, ghost, line,
                 phase, conn, ready, inbox, heard>>

ClientStep(c) ==
  Launch(c) \/ recv_server_info(c) \/ Connect(c) \/ req_register(c) \/ Ask(c)
    \/ handle_res(c) \/ send_heartbeat(c) \/ Exit(c)

Next ==
  \/ \E got \in SUBSET Clients : ManagerStep(got)
  \/ Start \/ Die \/ Tick
  \/ \E l \in {"blank", "word"} : TypeLine(l)
  \/ \E c \in Clients : ClientStep(c)

\* Time goes on, the manager takes the steps it can take by itself (it waits for
\* others in select(), scanf() and read() only), and so do the programs; a client
\* that is sent announcements again and again gets one.  Users, the operator and
\* whoever starts and kills the manager owe nothing.
Fairness ==
  /\ []<><<Tick>>_vars
  /\ WF_vars(\E got \in SUBSET Clients : ManagerStep(got))
  /\ \A c \in Clients :
       /\ SF_vars(\E got \in SUBSET Clients : c \in got /\ ManagerStep(got))
       /\ WF_vars(recv_server_info(c) \/ Connect(c) \/ handle_res(c) \/ send_heartbeat(c))

Spec == Init /\ [][Next]_vars /\ Fairness

-----------------------------------------------------------------------------
(* What discovery promises.                                                *)

\* Whenever manager/ is in select(), its last announcement is no older than the
\* timeout, however many heartbeats, connections, requests and lines keep
\* select() from timing out, and however long scanf() or read() has made it
\* wait before (main.c:58-62).  While it waits in those, it is silent.
NeverSilent == running = "manager" /\ up /\ at = "select" => since <= TIME_VAL_SECONDS

\* release/manager announces itself "every TIME_VAL_SECONDS", as the comment at
\* its only announcement says (release/manager/main.c:59).
EveryTimeout == running = "release" /\ up /\ at = "select" => since <= TIME_VAL_SECONDS

\* A client that waits for the announcements of manager/ hears one, unless its
\* user or the manager stops, or the manager comes to wait in scanf() or read()
\* for a word, a request or an end that never comes.
ManagerHeard ==
  \A c \in Clients :
    running = "manager" /\ c \in Listeners
      ~> phase[c] # "listening" \/ ~up \/ [](at # "select")

\* The release manager is heard as well while no other client is connected to it
\* and its operator types nothing; their heartbeats, requests and lines may keep
\* it from ever announcing itself (release/manager/main.c:59).
ReleaseHeard ==
  \A c \in Clients :
    running = "release" /\ c \in Listeners
      ~> phase[c] # "listening" \/ ~up \/ Connected # {} \/ line # "none" \/ [](at # "select")
=============================================================================
