-------------------------- MODULE DiscoveryProofs --------------------------
(* Proofs about discovery: types, and the silence of manager/.             *)
EXTENDS Discovery, TLAPS

AllInstalled == UNION {Installed[c] : c \in Clients}

LEMMA ConstantFacts ==
  /\ TIME_VAL_SECONDS \in Nat /\ TIME_VAL_SECONDS > 0
  /\ CLIENT_SECONDS \in Nat /\ CLIENT_SECONDS > 0
  /\ MaxBeats \in Nat
  /\ \A p \in AllInstalled : p.atEnd \in {"off", "spinning"}
<1>1. \A c \in Clients : \A p \in Installed[c] : p.atEnd \in {"off", "spinning"}
  BY DiscoveryAssumption
<1> QED
  BY <1>1, DiscoveryAssumption DEF AllInstalled

Phases == {"off", "listening", "connecting", "naming", "looping", "spinning"}
Conns  == {"none", "queued", "accepted", "closed"}

\* TypeOK in three parts: what the loop waits for, the rest of the manager's
\* side, and the clients' side.
LoopType ==
  /\ at \in {"select", "scanf", "read"}
  /\ reported \subseteq Clients
  /\ from \subseteq Clients
  /\ waited \in 0 .. TIME_VAL_SECONDS
  /\ since \in 0 .. TIME_VAL_SECONDS + 1

SocketType ==
  /\ running \in {"manager", "release"}
  /\ up \in BOOLEAN
  /\ beats \in 0 .. MaxBeats
  /\ stray \in BOOLEAN /\ ghost \in BOOLEAN
  /\ line \in {"none", "blank", "word"}
  /\ program \in [Clients -> AllInstalled]

ClientType ==
  /\ phase \in [Clients -> Phases]
  /\ conn \in [Clients -> Conns]
  /\ ready \in [Clients -> BOOLEAN]
  /\ inbox \in [Clients -> BOOLEAN]
  /\ heard \in [Clients -> BOOLEAN]
  /\ idle \in [Clients -> 0 .. CLIENT_SECONDS]

LEMMA TypeParts == TypeOK <=> LoopType /\ SocketType /\ ClientType
BY DEF TypeOK, LoopType, SocketType, ClientType, Phases, Conns, AllInstalled

LEMMA TypePartsNext == TypeOK' <=> LoopType' /\ SocketType' /\ ClientType'
BY DEF TypeOK, LoopType, SocketType, ClientType, Phases, Conns, AllInstalled

LEMMA TypeInit == Init => TypeOK
<1> SUFFICES ASSUME Init
             PROVE  TypeOK
  OBVIOUS
<1> USE ConstantFacts DEF Init
<1>1. LoopType
  BY DEF LoopType
<1>2. SocketType
  <2>1. program \in [Clients -> AllInstalled]
    BY DEF AllInstalled
  <2>2. running \in {"manager", "release"} /\ up \in BOOLEAN /\ stray \in BOOLEAN /\ ghost \in BOOLEAN
    OBVIOUS
  <2>3. beats \in 0 .. MaxBeats /\ line \in {"none", "blank", "word"}
    OBVIOUS
  <2> QED
    BY <2>1, <2>2, <2>3 DEF SocketType
<1>3. ready \in [Clients -> BOOLEAN] /\ inbox \in [Clients -> BOOLEAN] /\ heard \in [Clients -> BOOLEAN]
  OBVIOUS
<1>4. phase \in [Clients -> Phases] /\ conn \in [Clients -> Conns] /\ idle \in [Clients -> 0 .. CLIENT_SECONDS]
  BY DEF Phases, Conns
<1>5. ClientType
  BY <1>3, <1>4 DEF ClientType
<1> QED
  BY <1>1, <1>2, <1>5, TypeParts

-----------------------------------------------------------------------------
(* The scan: it moves connections forward, and ends or waits.              *)

LEMMA ScannedType ==
  ASSUME TypeOK, NEW R, NEW new, Scanned(R, new)
  PROVE  /\ conn' \in [Clients -> Conns]
         /\ ready' \in [Clients -> BOOLEAN]
         /\ inbox' \in [Clients -> BOOLEAN]
         /\ stray' \in BOOLEAN
<1>1. \A c \in Clients : ready[c] \in BOOLEAN /\ inbox[c] \in BOOLEAN
  BY DEF TypeOK
<1>2. conn' \in [Clients -> Conns]
  BY DEF Scanned, TypeOK, Conns
<1>3. ready' \in [Clients -> BOOLEAN] /\ inbox' \in [Clients -> BOOLEAN]
  BY <1>1 DEF Scanned
<1>4. stray' \in BOOLEAN
  BY DEF Scanned
<1> QED
  BY <1>2, <1>3, <1>4

LEMMA AnnouncedType ==
  ASSUME TypeOK, NEW got, multicast_server_info(got) \/ NoAnnouncement
  PROVE  heard' \in [Clients -> BOOLEAN] /\ since' \in 0 .. TIME_VAL_SECONDS + 1
<1>1. \A c \in Clients : heard[c] \in BOOLEAN
  BY DEF TypeOK
<1>2. CASE multicast_server_info(got)
  BY <1>1, <1>2, ConstantFacts DEF multicast_server_info
<1>3. CASE NoAnnouncement
  BY <1>3 DEF NoAnnouncement, TypeOK
<1> QED
  BY <1>2, <1>3

\* What a round leaves of the types, but for the socket of heartbeats, the line
\* and the clock of select().
RoundType ==
  /\ at' \in {"select", "scanf", "read"}
  /\ reported' \subseteq Clients
  /\ from' \subseteq Clients
  /\ since' \in 0 .. TIME_VAL_SECONDS + 1
  /\ stray' \in BOOLEAN
  /\ conn' \in [Clients -> Conns]
  /\ ready' \in [Clients -> BOOLEAN]
  /\ inbox' \in [Clients -> BOOLEAN]
  /\ heard' \in [Clients -> BOOLEAN]

LEMMA ScanType ==
  ASSUME TypeOK, NEW R \in SUBSET Clients, NEW new, NEW got, Scan(R, new, got)
  PROVE  RoundType
<1>1. CASE ScanEnds(R, new, got)
  <2>1. at' = "select" /\ reported' = {} /\ from' = {} /\ Scanned(R, new)
    BY <1>1 DEF ScanEnds
  <2>2. multicast_server_info(got) \/ NoAnnouncement
    BY <1>1 DEF ScanEnds
  <2> QED
    BY <2>1, <2>2, ScannedType, AnnouncedType DEF RoundType
<1>2. CASE ScanWaits(R, new)
  <2>1. PICK S \in SUBSET R : \E c \in S :
          Scanned(S, new) /\ from' = {c} /\ reported' = R \ S
    BY <1>2 DEF ScanWaits
  <2>2. at' = "read" /\ NoAnnouncement
    BY <1>2 DEF ScanWaits
  <2>3. from' \subseteq Clients /\ reported' \subseteq Clients
    BY <2>1
  <2> QED
    BY <2>1, <2>2, <2>3, ScannedType, AnnouncedType DEF RoundType
<1> QED
  BY <1>1, <1>2 DEF Scan

LEMMA WaitsForWordType ==
  ASSUME TypeOK, NEW R \in SUBSET Clients, WaitsForWord(R)
  PROVE  RoundType
<1>1. at' = "scanf" /\ reported' = R /\ NoAnnouncement
  BY DEF WaitsForWord
<1>2. UNCHANGED <<from, stray, conn, ready, inbox>>
  BY DEF WaitsForWord
<1> QED
  BY <1>1, <1>2, AnnouncedType DEF RoundType, TypeOK, Conns

\* A round takes at most one thing from the special descriptors.
LEMMA TakenType ==
  ASSUME TypeOK,
         \/ handle_heartbeat \/ NoneOfThese
         \/ \E c \in Clients : handle_new_user(c)
         \/ \E l \in {"blank", "word"} : Typed(l)
         \/ UNCHANGED <<beats, line, ghost>>
  PROVE  beats' \in 0 .. MaxBeats /\ line' \in {"none", "blank", "word"} /\ ghost' \in BOOLEAN
<1>1. /\ beats' = beats \/ (beats > 0 /\ beats' = beats - 1)
      /\ line' = line \/ line' = "none"
      /\ ghost' = ghost \/ ghost' = (ghost \/ stray)
  BY DEF handle_heartbeat, Typed, NoneOfThese, handle_new_user
<1>2. beats' \in 0 .. MaxBeats
  BY <1>1, ConstantFacts DEF TypeOK
<1>3. line' \in {"none", "blank", "word"}
  BY <1>1 DEF TypeOK
<1>4. ghost' \in BOOLEAN
  BY <1>1, Zenon DEF TypeOK
<1> QED
  BY <1>2, <1>3, <1>4

LEMMA ManagerStepType ==
  ASSUME TypeOK, NEW got \in SUBSET Clients, ManagerStep(got)
  PROVE  TypeOK'
<1>1. Readable \in SUBSET Clients /\ reported \in SUBSET Clients /\ reported \cup from \in SUBSET Clients
  BY DEF Readable, TypeOK
<1>2. RoundType
  <2>1. CASE Serve(got)
    <3>1. \/ Scan(Readable, {}, got)
          \/ \E c \in Clients : Scan(Readable, {c}, got)
          \/ WaitsForWord(Readable)
      BY <2>1 DEF Serve
    <3> QED
      BY <1>1, <3>1, ScanType, WaitsForWordType
  <2>2. CASE ServeWord(got)
    <3>1. Scan(reported, {}, got) \/ WaitsForWord(reported)
      BY <2>2 DEF ServeWord
    <3> QED
      BY <1>1, <3>1, ScanType, WaitsForWordType
  <2>3. CASE ServeAgain(got)
    <3>1. Scan(reported \cup from, {}, got)
      BY <2>3 DEF ServeAgain
    <3> QED
      BY <1>1, <3>1, ScanType
  <2> QED
    BY <2>1, <2>2, <2>3 DEF ManagerStep
<1>3. beats' \in 0 .. MaxBeats /\ line' \in {"none", "blank", "word"} /\ ghost' \in BOOLEAN
  <2>1. \/ handle_heartbeat \/ NoneOfThese
        \/ \E c \in Clients : handle_new_user(c)
        \/ \E l \in {"blank", "word"} : Typed(l)
        \/ UNCHANGED <<beats, line, ghost>>
    BY DEF ManagerStep, Serve, ServeWord, ServeAgain, handle_cmd
  <2> QED
    BY <2>1, TakenType
<1>4. waited' = 0 \/ waited' = waited
  BY DEF ManagerStep, Serve, ServeWord, ServeAgain
<1>5. UNCHANGED <<running, program, up, phase, idle>>
  BY DEF ManagerStep, Serve, ServeWord, ServeAgain
<1>6. LoopType'
  BY <1>2, <1>4, ConstantFacts DEF RoundType, LoopType, TypeOK
<1>7. SocketType'
  <2>1. SocketType
    BY TypeParts
  <2> QED
    BY <1>2, <1>3, <1>5, <2>1 DEF RoundType, SocketType
<1>8. ClientType'
  <2>1. ClientType
    BY TypeParts
  <2> QED
    BY <1>2, <1>5, <2>1 DEF RoundType, ClientType
<1> QED
  BY <1>6, <1>7, <1>8, TypePartsNext

-----------------------------------------------------------------------------
LEMMA SameManager ==
  ASSUME TypeOK, UNCHANGED <<running, program, managerVars>>
  PROVE  LoopType' /\ SocketType'
<1>1. LoopType /\ SocketType
  BY TypeParts
<1>2. UNCHANGED <<at, reported, from, waited, since>>
  BY DEF managerVars, loopVars
<1>3. UNCHANGED <<up, beats, stray, ghost, line, running, program>>
  BY DEF managerVars
<1> QED
  BY <1>1, <1>2, <1>3 DEF LoopType, SocketType

LEMMA ClientStepType ==
  ASSUME TypeOK, NEW c \in Clients, ClientStep(c)
  PROVE  TypeOK'
<1> USE ConstantFacts DEF Only
<1>0. ClientType
  BY TypeParts
<1>1. CASE Launch(c)
  <2>1. ClientType'
    BY <1>0, <1>1 DEF Launch, ClientType, Phases
  <2> QED
    BY <1>1, <2>1, SameManager, TypePartsNext DEF Launch
<1>2. CASE recv_server_info(c)
  <2>1. ClientType'
    BY <1>0, <1>2 DEF recv_server_info, ClientType, Phases
  <2> QED
    BY <1>2, <2>1, SameManager, TypePartsNext DEF recv_server_info
<1>3. CASE Connect(c)
  <2>1. ClientType'
    BY <1>0, <1>3 DEF Connect, ClientType, Phases, Conns
  <2> QED
    BY <1>3, <2>1, SameManager, TypePartsNext DEF Connect
<1>4. CASE req_register(c) \/ Ask(c)
  <2>1. ready' = [ready EXCEPT ![c] = c \in Connected] /\ (c \in Connected) \in BOOLEAN
    BY <1>4 DEF req_register, Ask, Written
  <2>2. /\ phase' = [phase EXCEPT ![c] = "looping"]
        /\ idle' = [idle EXCEPT ![c] = 0]
        /\ UNCHANGED <<running, program, managerVars>>
        /\ UNCHANGED <<conn, inbox, heard>>
    BY <1>4 DEF req_register, Ask
  <2>3. ready' \in [Clients -> BOOLEAN]
    BY <1>0, <2>1 DEF ClientType
  <2>4. inbox' \in [Clients -> BOOLEAN] /\ heard' \in [Clients -> BOOLEAN] /\ conn' \in [Clients -> Conns]
    BY <1>0, <2>2 DEF ClientType
  <2>5. phase' \in [Clients -> Phases] /\ idle' \in [Clients -> 0 .. CLIENT_SECONDS]
    BY <1>0, <2>2 DEF ClientType, Phases
  <2>6. ClientType'
    BY <2>3, <2>4, <2>5 DEF ClientType
  <2> QED
    BY <2>2, <2>6, SameManager, TypePartsNext
<1>5. CASE handle_res(c)
  <2>1. program[c].atEnd \in {"off", "spinning"}
    BY TypeParts DEF SocketType
  <2>2. phase' = [phase EXCEPT ![c] = "looping"] \/ phase' = [phase EXCEPT ![c] = program[c].atEnd]
    BY <1>5 DEF handle_res
  <2>3. inbox' = inbox \/ inbox' = [inbox EXCEPT ![c] = FALSE]
    BY <1>5 DEF handle_res
  <2>4. conn' = conn \/ conn' = [conn EXCEPT ![c] = "none"]
    BY <1>5 DEF handle_res
  <2>5. /\ idle' = [idle EXCEPT ![c] = 0]
        /\ UNCHANGED <<running, program, managerVars>>
        /\ UNCHANGED <<ready, heard>>
    BY <1>5 DEF handle_res
  <2>6. phase' \in [Clients -> Phases]
    BY <1>0, <2>1, <2>2 DEF ClientType, Phases
  <2>7. inbox' \in [Clients -> BOOLEAN] /\ conn' \in [Clients -> Conns]
    BY <1>0, <2>3, <2>4 DEF ClientType, Conns
  <2>8. ready' \in [Clients -> BOOLEAN] /\ heard' \in [Clients -> BOOLEAN]
    BY <1>0, <2>5 DEF ClientType
  <2>9. idle' \in [Clients -> 0 .. CLIENT_SECONDS]
    BY <1>0, <2>5 DEF ClientType
  <2>10. ClientType'
    BY <2>6, <2>7, <2>8, <2>9 DEF ClientType
  <2> QED
    BY <2>5, <2>10, SameManager, TypePartsNext
<1>6. CASE send_heartbeat(c)
  <2>1. /\ UNCHANGED <<running, program, up, loopVars, ghost, line, phase, conn, ready, inbox, heard>>
        /\ idle' = [idle EXCEPT ![c] = 0]
    BY <1>6 DEF send_heartbeat
  <2>2. beats' = beats \/ (beats < MaxBeats /\ beats' = beats + 1)
    BY <1>6 DEF send_heartbeat
  <2>3. stray' = stray \/ stray' = (stray \/ ~Told(c))
    BY <1>6 DEF send_heartbeat
  <2>4. LoopType /\ SocketType
    BY TypeParts
  <2>5. LoopType'
    BY <2>1, <2>4 DEF loopVars, LoopType
  <2>6. beats' \in 0 .. MaxBeats
    BY <2>2, <2>4 DEF SocketType
  <2>7. stray' \in BOOLEAN
    BY <2>3, <2>4, Zenon DEF SocketType
  <2>8. SocketType'
    BY <2>1, <2>4, <2>6, <2>7 DEF SocketType
  <2>9. ClientType'
    BY <1>0, <2>1 DEF ClientType
  <2> QED
    BY <2>5, <2>8, <2>9, TypePartsNext
<1>7. CASE Exit(c)
  <2>1. (c \in Connected) \in BOOLEAN
    BY DEF Connected
  <2>2. ready' \in [Clients -> BOOLEAN] /\ inbox' \in [Clients -> BOOLEAN] /\ heard' \in [Clients -> BOOLEAN]
    BY <1>0, <1>7, <2>1 DEF Exit, ClientType
  <2>3. conn' \in [Clients -> Conns] /\ phase' \in [Clients -> Phases]
    BY <1>0, <1>7 DEF Exit, ClientType, Conns, Phases
  <2>4. ClientType'
    BY <1>0, <1>7, <2>2, <2>3 DEF Exit, ClientType
  <2> QED
    BY <1>7, <2>4, SameManager, TypePartsNext DEF Exit
<1> QED
  BY <1>1, <1>2, <1>3, <1>4, <1>5, <1>6, <1>7 DEF ClientStep

LEMMA TypeStep == TypeOK /\ [Next]_vars => TypeOK'
<1> SUFFICES ASSUME TypeOK, [Next]_vars
             PROVE  TypeOK'
  OBVIOUS
<1>0. LoopType /\ SocketType /\ ClientType
  BY TypeParts
<1>1. CASE Start
  <2>1. up' \in BOOLEAN
    BY <1>1 DEF Start
  <2>2. LoopType' /\ SocketType' /\ ClientType'
    BY <1>0, <1>1, <2>1 DEF Start, loopVars, clientVars, LoopType, SocketType, ClientType
  <2> QED
    BY <2>2, TypePartsNext
<1>2. CASE Die
  <2>1. up' \in BOOLEAN /\ stray' \in BOOLEAN /\ ghost' \in BOOLEAN /\ ready' \in [Clients -> BOOLEAN]
    BY <1>2 DEF Die
  <2>2. conn' \in [Clients -> Conns]
    BY <1>0, <1>2 DEF Die, ClientType, Conns
  <2>3. LoopType'
    BY <1>2, ConstantFacts DEF Die, LoopType
  <2>4. SocketType'
    BY <1>0, <1>2, <2>1, ConstantFacts DEF Die, SocketType
  <2>5. ClientType'
    BY <1>0, <1>2, <2>1, <2>2 DEF Die, ClientType
  <2> QED
    BY <2>3, <2>4, <2>5, TypePartsNext
<1>3. ASSUME NEW l \in {"blank", "word"}, TypeLine(l)
      PROVE  TypeOK'
  <2>1. line' = l /\ UNCHANGED <<running, program, up, loopVars, beats, stray, ghost, clientVars>>
    BY <1>3 DEF TypeLine
  <2>2. LoopType' /\ SocketType' /\ ClientType'
    BY <1>0, <2>1 DEF loopVars, clientVars, LoopType, SocketType, ClientType
  <2> QED
    BY <2>2, TypePartsNext
<1>4. CASE Tick
  <2>1. waited' \in 0 .. TIME_VAL_SECONDS
    <3>1. CASE up /\ at = "select"
      <4>1. Waiting /\ waited' = waited + 1
        BY <1>4, <3>1 DEF Tick
      <4>2. waited < TIME_VAL_SECONDS
        BY <3>1, <4>1 DEF Waiting
      <4> QED
        BY <1>0, <4>1, <4>2, ConstantFacts DEF LoopType
    <3>2. CASE ~(up /\ at = "select")
      <4>1. waited' = waited
        BY <1>4, <3>2 DEF Tick
      <4> QED
        BY <1>0, <4>1 DEF LoopType
    <3> QED
      BY <3>1, <3>2
  <2>2. since' \in 0 .. TIME_VAL_SECONDS + 1
    BY <1>0, <1>4, ConstantFacts DEF Tick, Later, LoopType
  <2>3. idle' \in [Clients -> 0 .. CLIENT_SECONDS]
    BY <1>0, <1>4, ConstantFacts DEF Tick, ClientType
  <2>4. UNCHANGED <<running, program, up, at, reported, from, beats, stray, ghost, line,
                    phase, conn, ready, inbox, heard>>
    BY <1>4 DEF Tick
  <2>5. LoopType' /\ SocketType' /\ ClientType'
    BY <1>0, <2>1, <2>2, <2>3, <2>4 DEF LoopType, SocketType, ClientType
  <2> QED
    BY <2>5, TypePartsNext
<1>5. CASE UNCHANGED vars
  <2>1. LoopType' /\ SocketType' /\ ClientType'
    BY <1>0, <1>5 DEF vars, managerVars, loopVars, clientVars, LoopType, SocketType, ClientType
  <2> QED
    BY <2>1, TypePartsNext
<1> QED
  BY <1>1, <1>2, <1>3, <1>4, <1>5, ManagerStepType, ClientStepType DEF Next

\* Every variable of discovery keeps its type, for any number of clients, any
\* timeouts and any mixture of programs.
THEOREM TypeCorrect == Spec => []TypeOK
BY TypeInit, TypeStep, PTL DEF Spec

-----------------------------------------------------------------------------
(* The clock of manager/ is asked before every select(), so however a scan *)
(* comes to its end and however long it took, no second is left behind: in *)
(* select() the last announcement is no older than the wait.               *)
NoOlderThanTheWait ==
  /\ running = "manager" /\ up /\ at = "select" => since <= waited
  /\ ~up => since = 0

LEMMA EndedJustAnnounced ==
  ASSUME TypeOK, running = "manager", NEW R, NEW new, NEW got, Scan(R, new, got), at' = "select"
  PROVE  since' = 0
<1>1. since \in Nat
  BY DEF TypeOK
<1>2. ScanEnds(R, new, got)
  BY DEF Scan, ScanWaits
<1> QED
  BY <1>1, <1>2 DEF ScanEnds, Announces, AnnouncesNow, multicast_server_info, NoAnnouncement

LEMMA SilenceStep ==
  ASSUME TypeOK, NoOlderThanTheWait, [Next]_vars
  PROVE  NoOlderThanTheWait'
<1>0. since \in Nat /\ waited \in Nat
  BY DEF TypeOK
<1>1. ASSUME NEW got \in SUBSET Clients, ManagerStep(got)
      PROVE  NoOlderThanTheWait'
  <2>1. up /\ up' = up /\ running' = running
    BY <1>1 DEF ManagerStep, Serve, ServeWord, ServeAgain
  <2>2. waited' \in Nat
    BY <1>0, <1>1 DEF ManagerStep, Serve, ServeWord, ServeAgain
  <2>3. \/ \E R, new : Scan(R, new, got)
        \/ \E R : WaitsForWord(R)
    BY <1>1 DEF ManagerStep, Serve, ServeWord, ServeAgain
  <2>4. running = "manager" /\ at' = "select" => since' = 0
    BY <2>3, EndedJustAnnounced DEF WaitsForWord
  <2> QED
    BY <2>1, <2>2, <2>4 DEF NoOlderThanTheWait
<1>2. CASE Start
  BY <1>0, <1>2 DEF Start, loopVars, NoOlderThanTheWait
<1>3. CASE Die
  BY <1>3 DEF Die, NoOlderThanTheWait
<1>4. CASE Tick
  <2>1. CASE up /\ at = "select"
    BY <1>0, <1>4, <2>1, ConstantFacts DEF Tick, Later, NoOlderThanTheWait
  <2>2. CASE ~(up /\ at = "select")
    BY <1>4, <2>2 DEF Tick, NoOlderThanTheWait
  <2> QED
    BY <2>1, <2>2
<1>5. CASE UNCHANGED <<running, up, at, since, waited>>
  BY <1>5 DEF NoOlderThanTheWait
<1>6. ASSUME NEW c \in Clients, ClientStep(c)
      PROVE  UNCHANGED <<running, up, at, since, waited>>
  BY <1>6 DEF ClientStep, Launch, recv_server_info, Connect, req_register, Ask,
      handle_res, send_heartbeat, Exit, Only, managerVars, loopVars
<1>7. ASSUME NEW l \in {"blank", "word"}, TypeLine(l)
      PROVE  UNCHANGED <<running, up, at, since, waited>>
  BY <1>7 DEF TypeLine, loopVars
<1>8. CASE UNCHANGED vars
  BY <1>5, <1>8 DEF vars, managerVars, loopVars
<1> QED
  BY <1>1, <1>2, <1>3, <1>4, <1>5, <1>6, <1>7, <1>8 DEF Next

\* Whatever heartbeats, connections, requests and lines there were, and however
\* long scanf() or read() waited before, manager/ is in select() only within a
\* timeout of its last announcement (main.c:58-62).
THEOREM NeverSilentHolds == Spec => []NeverSilent
<1>1. Init => NoOlderThanTheWait
  BY DEF Init, NoOlderThanTheWait
<1>2. TypeOK /\ NoOlderThanTheWait /\ [Next]_vars => NoOlderThanTheWait'
  BY SilenceStep
<1>3. TypeOK /\ NoOlderThanTheWait => NeverSilent
  BY ConstantFacts DEF TypeOK, NoOlderThanTheWait, NeverSilent
<1> QED
  BY <1>1, <1>2, <1>3, TypeCorrect, PTL DEF Spec
=============================================================================
