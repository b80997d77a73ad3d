--------------------------- MODULE ProgramsProofs ---------------------------
(***************************************************************************)
(* Proofs about Programs, for every set of ids: types, that gogup_client,  *)
(* client_out and gogup_client_without_mcast hold one conversation, and    *)
(* that each program implements Terminal.                                  *)
(*                                                                         *)
(* A program changes its state in a handful of ways, the effects below;    *)
(* which of them a line or a response has is decided by its first word.    *)
(***************************************************************************)
EXTENDS Programs, TLAPS

\* What a program can have written to the manager, and put among the chats.
Requests == Plain \cup Connects \cup {Zeros} \cup ({"chat"} \X (Ids \cup {NoRoom}) \X Ids)
Wire     == {<<>>} \cup {<<q>> : q \in Requests}
Screen   == {<<>>} \cup {<<m>> : m \in Ids \X Ids}

\* What it can have told its user.
Messages ==
  {"none", "room not connected", "Command not found", "Heartbeat log", "help", "failed",
   "success", "list", "user id", "register", "rl", "ul"}

State ==
  [on : BOOLEAN, id : Ids, room : Ids \cup {NoRoom}, hb : BOOLEAN,
   sent : Wire, shown : Screen, told : Messages]

\* What is sent is a command, or a chat in the program's own room and name.
OwnRequests(s) ==
  s.sent \in {<<>>} \cup {<<q>> : q \in Plain \cup Connects \cup {Zeros, <<"chat", s.room, s.id>>}}

Typed ==
  /\ typed \in Lines \cup {<<>>}
  /\ \A s \in {gogup, out, without, old} : s \in State /\ OwnRequests(s)

\* t is s with what the last step sent and showed.
Same(s, t) == t.on = s.on /\ t.id = s.id /\ t.room = s.room /\ t.hb = s.hb

\* t is s with the id u.
Renamed(s, t, u) ==
  /\ t.on = s.on /\ t.id = u /\ t.room = s.room /\ t.hb = s.hb
  /\ t.sent = <<>> /\ t.shown = <<>>

\* The two effects that Programs writes out.
Toggled(s, w)    == [Tells(s, w) EXCEPT !.hb = ~@]
Learned(s, w, u) == [Tells(s, w) EXCEPT !.id = u]

-----------------------------------------------------------------------------
(* Effects.                                                                *)

LEMMA WireFacts ==
  /\ <<>> \in Wire /\ <<>> \in Screen
  /\ \A q \in Requests : <<q>> \in Wire
  /\ \A r, u \in Ids : <<<<r, u>>>> \in Screen
  /\ \A r \in Ids : <<"connect", r>> \in Connects
  /\ Plain \subseteq Requests /\ Connects \subseteq Requests /\ Zeros \in Requests
  /\ \A r \in Ids \cup {NoRoom}, u \in Ids : <<"chat", r, u>> \in Requests
BY DEF Wire, Screen, Requests, Connects

LEMMA FreshEffect ==
  ASSUME NEW s \in State
  PROVE  /\ Fresh(s) \in State /\ OwnRequests(Fresh(s))
         /\ Same(s, Fresh(s)) /\ Fresh(s).sent = <<>> /\ Fresh(s).shown = <<>>
<1> DEFINE t == Fresh(s)
<1>1. <<>> \in Wire /\ <<>> \in Screen
  BY WireFacts
<1>n. "none" \in Messages
  BY DEF Messages
<1>2. t \in State /\ Same(s, t) /\ t.sent = <<>> /\ t.shown = <<>>
  BY <1>1, <1>n DEF State, Fresh, Same
<1> HIDE DEF t
<1>3. OwnRequests(t)
  BY <1>2 DEF OwnRequests
<1> QED
  BY <1>2, <1>3 DEF t

LEMMA TellsEffect ==
  ASSUME NEW s \in State, NEW w \in Messages
  PROVE  /\ Tells(s, w) \in State /\ OwnRequests(Tells(s, w))
         /\ Same(s, Tells(s, w)) /\ Tells(s, w).sent = <<>> /\ Tells(s, w).shown = <<>>
<1>1. Fresh(s) \in State /\ Same(s, Fresh(s)) /\ Fresh(s).sent = <<>> /\ Fresh(s).shown = <<>>
  BY FreshEffect
<1> QED
  BY <1>1 DEF State, Tells, Same, OwnRequests

LEMMA TogglesEffect ==
  ASSUME NEW s \in State, NEW w \in Messages
  PROVE  /\ Toggled(s, w) \in State /\ OwnRequests(Toggled(s, w))
         /\ Toggled(s, w).on = s.on /\ Toggled(s, w).id = s.id
         /\ Toggled(s, w).room = s.room /\ Toggled(s, w).hb = ~s.hb
         /\ Toggled(s, w).sent = <<>> /\ Toggled(s, w).shown = <<>>
<1>1. /\ Tells(s, w) \in State /\ Same(s, Tells(s, w))
      /\ Tells(s, w).sent = <<>> /\ Tells(s, w).shown = <<>>
  BY TellsEffect
<1> QED
  BY <1>1 DEF State, Same, OwnRequests, Toggled

LEMMA LearnsEffect ==
  ASSUME NEW s \in State, NEW w \in Messages, NEW u \in Ids
  PROVE  /\ Learned(s, w, u) \in State /\ OwnRequests(Learned(s, w, u))
         /\ Renamed(s, Learned(s, w, u), u)
<1>1. /\ Tells(s, w) \in State /\ Same(s, Tells(s, w))
      /\ Tells(s, w).sent = <<>> /\ Tells(s, w).shown = <<>>
  BY TellsEffect
<1> QED
  BY <1>1 DEF State, Same, OwnRequests, Learned, Renamed

LEMMA EndsEffect ==
  ASSUME NEW s \in State
  PROVE  /\ Ends(s) \in State /\ OwnRequests(Ends(s))
         /\ ~Ends(s).on /\ Ends(s).id = s.id /\ Ends(s).room = s.room
         /\ Ends(s).sent = <<>> /\ Ends(s).shown = <<>>
<1>1. Fresh(s) \in State /\ Same(s, Fresh(s)) /\ Fresh(s).sent = <<>> /\ Fresh(s).shown = <<>>
  BY FreshEffect
<1> QED
  BY <1>1 DEF State, Ends, Same, OwnRequests

LEMMA SendsEffect ==
  ASSUME NEW s \in State, NEW q \in Requests
  PROVE  /\ Sends(s, q) \in State
         /\ Same(s, Sends(s, q)) /\ Sends(s, q).sent = <<q>> /\ Sends(s, q).shown = <<>>
<1>1. Fresh(s) \in State /\ Same(s, Fresh(s)) /\ Fresh(s).shown = <<>>
  BY FreshEffect
<1>2. <<q>> \in Wire
  BY WireFacts
<1> QED
  BY <1>1, <1>2 DEF State, Sends, Same

LEMMA AsksEffect ==
  ASSUME NEW s \in State, NEW l \in Plain \cup {Zeros}
  PROVE  /\ Sends(s, l) \in State /\ OwnRequests(Sends(s, l))
         /\ Same(s, Sends(s, l)) /\ Sends(s, l).sent = <<l>> /\ Sends(s, l).shown = <<>>
<1>1. l \in Requests
  BY WireFacts
<1> QED
  BY <1>1, SendsEffect DEF OwnRequests

LEMMA MovesEffect ==
  ASSUME NEW s \in State, NEW r \in Ids
  PROVE  /\ Moves(s, r) \in State /\ OwnRequests(Moves(s, r))
         /\ Moves(s, r).on = s.on /\ Moves(s, r).id = s.id
         /\ Moves(s, r).room = r /\ Moves(s, r).hb = s.hb
         /\ Moves(s, r).sent = <<<<"connect", r>>>> /\ Moves(s, r).shown = <<>>
<1> DEFINE q == <<"connect", r>>
           t == Moves(s, r)
<1>1. q \in Connects /\ q \in Requests
  BY WireFacts
<1>2. /\ Sends(s, q) \in State /\ Same(s, Sends(s, q))
      /\ Sends(s, q).sent = <<q>> /\ Sends(s, q).shown = <<>>
  BY <1>1, SendsEffect
<1>3. t = [Sends(s, q) EXCEPT !.room = r]
  BY DEF Moves
<1> HIDE DEF t, q
<1>4. t \in State /\ t.on = s.on /\ t.id = s.id /\ t.room = r /\ t.hb = s.hb
        /\ t.sent = <<q>> /\ t.shown = <<>>
  BY <1>2, <1>3 DEF State, Same
<1>5. OwnRequests(t)
  BY <1>1, <1>4 DEF OwnRequests
<1> QED
  BY <1>4, <1>5 DEF t, q

LEMMA SaysEffect ==
  ASSUME NEW s \in State
  PROVE  /\ Says(s) \in State /\ OwnRequests(Says(s))
         /\ Same(s, Says(s)) /\ Says(s).sent = <<<<"chat", s.room, s.id>>>> /\ Says(s).shown = <<>>
<1> DEFINE q == <<"chat", s.room, s.id>>
           t == Says(s)
<1>1. q \in Requests
  BY WireFacts DEF State
<1>2. t = Sends(s, q)
  BY DEF Says
<1>3. t \in State /\ Same(s, t) /\ t.sent = <<q>> /\ t.shown = <<>>
  BY <1>1, <1>2, SendsEffect
<1>4. OwnRequests(t)
  <2>1. t.sent = <<<<"chat", t.room, t.id>>>>
    BY <1>3 DEF Same
  <2> HIDE DEF t
  <2> QED
    BY <2>1 DEF OwnRequests
<1> QED
  BY <1>3, <1>4

LEMMA ShowsEffect ==
  ASSUME NEW s \in State, NEW r \in Ids, NEW u \in Ids
  PROVE  /\ Shows(s, r, u) \in State /\ OwnRequests(Shows(s, r, u))
         /\ Same(s, Shows(s, r, u)) /\ Shows(s, r, u).sent = <<>>
         /\ Shows(s, r, u).shown = <<<<r, u>>>>
<1>1. Fresh(s) \in State /\ Same(s, Fresh(s)) /\ Fresh(s).sent = <<>>
  BY FreshEffect
<1>2. <<<<r, u>>>> \in Screen
  BY WireFacts
<1> QED
  BY <1>1, <1>2 DEF State, Shows, Same, OwnRequests

-----------------------------------------------------------------------------
(* Lines.                                                                  *)

\* The first word of a line says which of the disjuncts of a handle_cmd() it is
\* for.
Others == {"send", "register", "hb", "help", "exit", "other", "text"}

LEMMA FirstWords ==
  /\ \A l \in Plain : l[1] \in {"create", "rl", "ul", "delete", "invite"}
  /\ \A l \in Connects : l[1] = "connect" /\ l[2] \in Ids /\ l = <<"connect", l[2]>>
  /\ \A w : <<w>>[1] = w
  /\ \A w \in {"rl", "ul", "create"} : <<w>> \in Plain
<1>1. \A l \in Plain : l[1] \in {"create", "rl", "ul", "delete", "invite"}
  BY DEF Plain
<1>2. \A l \in Connects : l[1] = "connect" /\ l[2] \in Ids /\ l = <<"connect", l[2]>>
  BY DEF Connects
<1>3. \A w \in {"rl", "ul", "create"} : <<w>> \in Plain
  BY DEF Plain
<1> QED
  BY <1>1, <1>2, <1>3

\* A line is of one kind, and of no other.
LEMMA Kinds ==
  ASSUME NEW l \in Lines
  PROVE  \/ l \in Plain /\ l \notin Connects /\ \A w \in Others : l # <<w>>
         \/ l \in Connects /\ l \notin Plain /\ \A w \in Others : l # <<w>>
         \/ \E w \in Others :
              /\ l = <<w>> /\ l \notin Plain /\ l \notin Connects
              /\ \A v \in Others : v # w => l # <<v>>
<1>1. l \in Plain \/ l \in Connects \/ \E w \in Others : l = <<w>>
  BY DEF Lines, Others
<1> QED
  BY <1>1, FirstWords DEF Others

-----------------------------------------------------------------------------
(* Each program: what a line or a response does to it.                     *)

\* A step of Terminal from s to t.
TerminalStep(s, t) ==
  \/ /\ t.sent \in {<<>>} \cup {<<q>> : q \in Plain \cup {Zeros}}
     /\ t.shown = <<>> /\ t.id = s.id /\ t.room = s.room
  \/ /\ s.room # NoRoom
     /\ t.sent = <<<<"chat", s.room, s.id>>>>
     /\ t.shown = <<>> /\ t.id = s.id /\ t.room = s.room
  \/ \E r \in Ids :
       /\ t.room = r /\ t.sent = <<<<"connect", r>>>>
       /\ t.shown = <<>> /\ t.id = s.id
  \/ \E u \in Ids :
       /\ t.id = u /\ t.sent = <<>> /\ t.shown = <<>> /\ t.room = s.room
  \/ \E u \in Ids :
       /\ s.room # NoRoom /\ t.shown = <<<<s.room, u>>>>
       /\ t.sent = <<>> /\ t.id = s.id /\ t.room = s.room

\* What every step of a program is.
Proper(s, t) == t \in State /\ OwnRequests(t) /\ TerminalStep(s, t)

LEMMA ProperSteps ==
  ASSUME NEW s \in State
  PROVE  /\ Proper(s, Fresh(s)) /\ Proper(s, Ends(s))
         /\ \A w \in Messages : Proper(s, Tells(s, w))
         /\ \A w \in Messages : Proper(s, Toggled(s, w))
         /\ \A w \in Messages, u \in Ids : Proper(s, Learned(s, w, u))
         /\ \A l \in Plain \cup {Zeros} : Proper(s, Sends(s, l))
         /\ \A r \in Ids : Proper(s, Moves(s, r))
         /\ s.room # NoRoom => Proper(s, Says(s))
         /\ s.room # NoRoom => \A u \in Ids : Proper(s, Shows(s, s.room, u))
<1>1. Proper(s, Fresh(s))
  BY FreshEffect DEF Proper, TerminalStep, Same
<1>2. Proper(s, Ends(s))
  BY EndsEffect DEF Proper, TerminalStep
<1>3. ASSUME NEW w \in Messages PROVE Proper(s, Tells(s, w))
  BY TellsEffect DEF Proper, TerminalStep, Same
<1>4. ASSUME NEW w \in Messages PROVE Proper(s, Toggled(s, w))
  BY TogglesEffect DEF Proper, TerminalStep
<1>5. ASSUME NEW w \in Messages, NEW u \in Ids PROVE Proper(s, Learned(s, w, u))
  BY LearnsEffect DEF Proper, TerminalStep, Renamed
<1>6. ASSUME NEW l \in Plain \cup {Zeros} PROVE Proper(s, Sends(s, l))
  BY AsksEffect DEF Proper, TerminalStep, Same
<1>7. ASSUME NEW r \in Ids PROVE Proper(s, Moves(s, r))
  BY MovesEffect DEF Proper, TerminalStep
<1>8. ASSUME s.room # NoRoom PROVE Proper(s, Says(s))
  BY <1>8, SaysEffect DEF Proper, TerminalStep, Same
<1>9. ASSUME s.room # NoRoom, NEW u \in Ids PROVE Proper(s, Shows(s, s.room, u))
  <2>1. s.room \in Ids
    BY <1>9 DEF State
  <2> QED
    BY <1>9, <2>1, ShowsEffect DEF Proper, TerminalStep, Same
<1> QED
  BY <1>1, <1>2, <1>3, <1>4, <1>5, <1>6, <1>7, <1>8, <1>9

LEMMA ResponseTypes ==
  ASSUME NEW f \in Responses
  PROVE  /\ f.user \in Ids /\ f.room \in Ids
         /\ f.code \in {"register", "rl", "ul"} => f.code \in Messages
         /\ f.code = "end" <=> f.status = 0
         /\ f.status \in {0, 200, 300, 500}
<1>1. /\ f.user \in Ids /\ f.room \in Ids
      /\ f.code = "end" <=> f.status = 0
      /\ f.status \in {0, 200, 300, 500}
  <2>1. CASE f \in [code : {"create", "delete", "connect", "invite", "rl", "ul"},
                    status : {200}, room : {0}, user : {0}]
    BY <2>1, ProgramsAssumption
  <2>2. CASE f \in [code : {"delete", "connect", "chat"}, status : {500}, room : {0}, user : {0}]
    BY <2>2, ProgramsAssumption
  <2>3. CASE f \in [code : {"invite"}, status : {300}, room : {0}, user : {0}]
    BY <2>3, ProgramsAssumption
  <2>4. CASE f \in [code : {"register"}, status : {200}, room : {0}, user : Ids]
    BY <2>4, ProgramsAssumption
  <2>5. CASE f \in [code : {"chat"}, status : {200}, room : Ids, user : Ids]
    BY <2>5, ProgramsAssumption
  <2>6. CASE f \in [code : {"end"}, status : {0}, room : {0}, user : {0}]
    BY <2>6, ProgramsAssumption
  <2> QED
    BY <2>1, <2>2, <2>3, <2>4, <2>5, <2>6 DEF Responses
<1>2. f.code \in {"register", "rl", "ul"} => f.code \in Messages
  BY DEF Messages
<1> QED
  BY <1>1, <1>2

LEMMA GogupProper ==
  ASSUME NEW s \in State, NEW t
  PROVE  /\ \A l \in Lines : gogup_handle_cmd(s, l, t) => Proper(s, t)
         /\ \A f \in Responses : gogup_handle_res(s, f, t) => Proper(s, t)
<1>1. ASSUME NEW l \in Lines, gogup_handle_cmd(s, l, t) PROVE Proper(s, t)
  <2>1. \/ l \in Plain /\ t = Sends(s, l)
        \/ t = Sends(s, Zeros)
        \/ l \in Connects /\ t = Moves(s, l[2])
        \/ s.room # NoRoom /\ t = Says(s)
        \/ \E w \in Messages : t = Tells(s, w) \/ t = Toggled(s, w)
        \/ t = Ends(s)
    BY <1>1 DEF gogup_handle_cmd, Messages, Toggled
  <2>2. l \in Connects => l[2] \in Ids
    BY FirstWords
  <2> QED
    BY <2>1, <2>2, ProperSteps
<1>2. ASSUME NEW f \in Responses, gogup_handle_res(s, f, t) PROVE Proper(s, t)
  <2>1. \/ t \in {Fresh(s), Ends(s)}
        \/ \E w \in Messages : t = Tells(s, w) \/ t = Learned(s, w, f.user)
        \/ f.room = s.room /\ t = Shows(s, f.room, f.user)
    BY <1>2 DEF gogup_handle_res, Messages, Learned
  <2>2. f.user \in Ids /\ f.room \in Ids
    BY ResponseTypes
  <2>3. f.room = s.room => s.room # NoRoom
    BY <2>2, ProgramsAssumption
  <2> QED
    BY <2>1, <2>2, <2>3, ProperSteps
<1> QED
  BY <1>1, <1>2

\* The two handlers of gogup_client_without_mcast do what gogup_client's do.
LEMMA WithoutIsGogup ==
  ASSUME NEW s, NEW t
  PROVE  /\ \A l : without_handle_cmd(s, l, t) <=> gogup_handle_cmd(s, l, t)
         /\ \A f : without_handle_res(s, f, t) <=> gogup_handle_res(s, f, t)
<1>1. ASSUME NEW l PROVE without_handle_cmd(s, l, t) <=> gogup_handle_cmd(s, l, t)
  BY Zenon DEF without_handle_cmd, gogup_handle_cmd
<1>2. ASSUME NEW f PROVE without_handle_res(s, f, t) <=> gogup_handle_res(s, f, t)
  BY Zenon DEF without_handle_res, gogup_handle_res
<1> QED
  BY <1>1, <1>2

LEMMA OutProper ==
  ASSUME NEW s \in State, NEW t
  PROVE  /\ \A l \in Lines : out_handle_cmd(s, l, t) => Proper(s, t)
         /\ \A f \in Responses : out_handle_res(s, f, t) => Proper(s, t)
<1>1. ASSUME NEW l \in Lines, out_handle_cmd(s, l, t) PROVE Proper(s, t)
  <2>1. \/ l \in Plain /\ t = Sends(s, l)
        \/ t = Sends(s, Zeros)
        \/ l \in Connects /\ t = Moves(s, l[2])
        \/ s.room # NoRoom /\ t = Says(s)
        \/ \E w \in Messages : t = Tells(s, w) \/ t = Toggled(s, w)
    BY <1>1 DEF out_handle_cmd, Messages, Toggled
  <2>2. l \in Connects => l[2] \in Ids
    BY FirstWords
  <2> QED
    BY <2>1, <2>2, ProperSteps
<1>2. ASSUME NEW f \in Responses, out_handle_res(s, f, t) PROVE Proper(s, t)
  <2>1. \/ t \in {Fresh(s), Ends(s)}
        \/ \E w \in Messages : t = Tells(s, w) \/ t = Learned(s, w, f.user)
        \/ f.room = s.room /\ t = Shows(s, f.room, f.user)
    BY <1>2 DEF out_handle_res, Messages, Learned
  <2>2. f.user \in Ids /\ f.room \in Ids
    BY ResponseTypes
  <2>3. f.room = s.room => s.room # NoRoom
    BY <2>2, ProgramsAssumption
  <2> QED
    BY <2>1, <2>2, <2>3, ProperSteps
<1> QED
  BY <1>1, <1>2

LEMMA OldProper ==
  ASSUME NEW s \in State, NEW t
  PROVE  /\ \A l \in Lines : old_handle_cmd(s, l, t) => Proper(s, t)
         /\ \A f \in Responses : old_handle_res(s, f, t) => Proper(s, t)
<1>1. ASSUME NEW l \in Lines, old_handle_cmd(s, l, t) PROVE Proper(s, t)
  <2>1. \/ l \in {<<"rl">>, <<"ul">>, <<"create">>} /\ t = Sends(s, l)
        \/ t = Fresh(s)
        \/ \E w \in Messages : t = Tells(s, w)
    BY <1>1 DEF old_handle_cmd, Messages
  <2>2. {<<"rl">>, <<"ul">>, <<"create">>} \subseteq Plain
    BY FirstWords
  <2> QED
    BY <2>1, <2>2, ProperSteps
<1>2. ASSUME NEW f \in Responses, old_handle_res(s, f, t) PROVE Proper(s, t)
  BY <1>2, ProperSteps, ResponseTypes DEF old_handle_res
<1> QED
  BY <1>1, <1>2

-----------------------------------------------------------------------------
(* Types.                                                                  *)

LEMMA StepsProper ==
  ASSUME Typed, Next
  PROVE  /\ Proper(gogup, gogup') /\ Proper(out, out')
         /\ Proper(without, without') /\ Proper(old, old')
         /\ typed' \in Lines \cup {<<>>}
<1>1. gogup \in State /\ out \in State /\ without \in State /\ old \in State
  BY DEF Typed
<1>2. /\ Proper(gogup, Fresh(gogup)) /\ Proper(out, Fresh(out))
      /\ Proper(without, Fresh(without)) /\ Proper(old, Fresh(old))
  BY <1>1, ProperSteps
<1>3. CASE \E l \in Lines : TypeLine(l)
  <2> PICK l \in Lines : TypeLine(l)
    BY <1>3
  <2>1. Proper(gogup, gogup')
    BY <1>1, <1>2, GogupProper DEF TypeLine
  <2>2. Proper(out, out')
    BY <1>1, <1>2, OutProper DEF TypeLine
  <2>3. Proper(without, without')
    BY <1>1, <1>2, GogupProper, WithoutIsGogup DEF TypeLine
  <2>4. Proper(old, old')
    BY <1>1, <1>2, OldProper DEF TypeLine
  <2> QED
    BY <2>1, <2>2, <2>3, <2>4 DEF TypeLine
<1>4. CASE \E f \in Responses : Respond(f)
  <2> PICK f \in Responses : Respond(f)
    BY <1>4
  <2>1. Proper(gogup, gogup')
    BY <1>1, <1>2, GogupProper DEF Respond
  <2>2. Proper(out, out')
    BY <1>1, <1>2, OutProper DEF Respond
  <2>3. Proper(without, without')
    BY <1>1, <1>2, GogupProper, WithoutIsGogup DEF Respond
  <2>4. Proper(old, old')
    BY <1>1, <1>2, OldProper DEF Respond
  <2> QED
    BY <2>1, <2>2, <2>3, <2>4 DEF Respond
<1> QED
  BY <1>3, <1>4 DEF Next

LEMMA StartedFacts ==
  /\ Started \in State /\ OwnRequests(Started)
  /\ Started.on /\ Started.id = 0 /\ Started.room = NoRoom
  /\ Started.sent = <<>> /\ Started.shown = <<>>
<1>1. <<>> \in Wire /\ <<>> \in Screen
  BY WireFacts
<1>2. "none" \in Messages
  BY DEF Messages
<1> QED
  BY <1>1, <1>2, ProgramsAssumption DEF Started, State, OwnRequests

LEMMA TypedInvariant == Spec => []Typed
<1>1. Init => Typed
  BY StartedFacts DEF Init, Typed
<1>2. Typed /\ [Next]_vars => Typed'
  <2> SUFFICES ASSUME Typed, [Next]_vars PROVE Typed'
    OBVIOUS
  <2>1. CASE Next
    BY <2>1, StepsProper DEF Typed, Proper
  <2>2. CASE UNCHANGED vars
    BY <2>2 DEF Typed, vars
  <2> QED
    BY <2>1, <2>2
<1> QED
  BY <1>1, <1>2, PTL DEF Spec

LEMMA TypedIsTypeOK == Typed => TypeOK
<1> SUFFICES ASSUME Typed PROVE TypeOK
  OBVIOUS
<1>1. ASSUME NEW s \in State, OwnRequests(s)
      PROVE  /\ s.on \in BOOLEAN /\ s.hb \in BOOLEAN
             /\ s.id \in Ids /\ s.room \in Ids \cup {NoRoom}
             /\ s.sent \in {<<>>} \cup
                  {<<q>> : q \in Plain \cup Connects \cup {Zeros, <<"chat", s.room, s.id>>}}
             /\ s.shown \in {<<>>} \cup {<<m>> : m \in Ids \X Ids}
  BY <1>1 DEF State, Screen, OwnRequests
<1> QED
  BY <1>1 DEF Typed, TypeOK

\* Whatever is typed and answered, the variables of all four programs keep their
\* types; a chat goes to the program's current room under the id it has
\* (TypeOK; handle_cmd() and handle_res() of the four programs).
THEOREM TypeCorrect == Spec => []TypeOK
BY TypedInvariant, TypedIsTypeOK, PTL

-----------------------------------------------------------------------------
(* Each program implements Terminal.                                       *)

LEMMA SameAsks ==
  /\ Gogup!Plain = Plain /\ Out!Plain = Plain /\ Without!Plain = Plain /\ OldClient!Plain = Plain
  /\ Gogup!Zeros = Zeros /\ Out!Zeros = Zeros /\ Without!Zeros = Zeros /\ OldClient!Zeros = Zeros
BY DEF Gogup!Plain, Out!Plain, Without!Plain, OldClient!Plain, Plain,
       Gogup!Zeros, Out!Zeros, Without!Zeros, OldClient!Zeros, Zeros

\* Each of the four programs does, step by step, what Terminal allows
\* (ImplementTerminal; the commands and responses of each main.c).
THEOREM ImplementsTerminal == Spec => ImplementTerminal
<1>1. ASSUME Init PROVE Gogup!Init /\ Out!Init /\ Without!Init /\ OldClient!Init
  BY <1>1, StartedFacts DEF Init, Gogup!Init, Out!Init, Without!Init, OldClient!Init
<1>2. ASSUME Typed, [Next]_vars
      PROVE  /\ [Gogup!Next]_(Gogup!vars) /\ [Out!Next]_(Out!vars)
             /\ [Without!Next]_(Without!vars) /\ [OldClient!Next]_(OldClient!vars)
  <2>1. CASE Next
    <3>1. Gogup!Next
      BY <2>1, <1>2, StepsProper, SameAsks
         DEF Proper, TerminalStep, Gogup!Next, Gogup!Ask, Gogup!Say,
             Gogup!Connect, Gogup!Learn, Gogup!Show
    <3>2. Out!Next
      BY <2>1, <1>2, StepsProper, SameAsks
         DEF Proper, TerminalStep, Out!Next, Out!Ask, Out!Say, Out!Connect, Out!Learn, Out!Show
    <3>3. Without!Next
      BY <2>1, <1>2, StepsProper, SameAsks
         DEF Proper, TerminalStep, Without!Next, Without!Ask, Without!Say,
             Without!Connect, Without!Learn, Without!Show
    <3>4. OldClient!Next
      BY <2>1, <1>2, StepsProper, SameAsks
         DEF Proper, TerminalStep, OldClient!Next, OldClient!Ask, OldClient!Say,
             OldClient!Connect, OldClient!Learn, OldClient!Show
    <3> QED
      BY <3>1, <3>2, <3>3, <3>4
  <2>2. CASE UNCHANGED vars
    BY <2>2 DEF vars, Gogup!vars, Out!vars, Without!vars, OldClient!vars
  <2> QED
    BY <1>2, <2>1, <2>2
<1> QED
  BY <1>1, <1>2, TypedInvariant, PTL
     DEF Spec, ImplementTerminal, Gogup!Spec, Out!Spec, Without!Spec, OldClient!Spec

-----------------------------------------------------------------------------
(* One conversation.                                                       *)

\* What the two programs have in common while both run.
Alike(g, o) == o.on /\ o.id = g.id /\ o.room = g.room /\ o.hb = g.hb

\* What SameConversation says of a step's outcome.
SameOutcome(g, o, l) ==
  g.on => /\ Alike(g, o)
          /\ o.shown = g.shown
          /\ o.sent = g.sent \/ (l = <<"other">> /\ g.sent = <<>>)

\* What a line does in gogup_client and in client_out, by its kind.
GogupLine(s, l, t) ==
  /\ l \in Plain => t = Sends(s, l)
  /\ l \in Connects => t = Moves(s, l[2])
  /\ l \in {<<"send">>, <<"register">>} => t = Sends(s, Zeros)
  /\ l = <<"text">> => t = IF s.room = NoRoom THEN Tells(s, "room not connected") ELSE Says(s)
  /\ l = <<"other">> => t = Tells(s, "Command not found")
  /\ l = <<"hb">> => t = Toggled(s, "Heartbeat log")
  /\ l = <<"help">> => t = Tells(s, "help")
  /\ l = <<"exit">> => t = Ends(s)

OutLine(s, l, t) ==
  /\ l \in Plain => t = Sends(s, l)
  /\ l \in Connects => t = Moves(s, l[2])
  /\ l \in {<<"send">>, <<"register">>} => t = Sends(s, Zeros)
  /\ l \in {<<"text">>, <<"other">>, <<"exit">>} =>
       t = IF s.room = NoRoom THEN Tells(s, "room not connected") ELSE Says(s)
  /\ l = <<"hb">> => t = Toggled(s, "Heartbeat log")
  /\ l = <<"help">> => t = Tells(s, "help")

LEMMA GogupLines ==
  ASSUME NEW s, NEW l \in Lines, NEW t, gogup_handle_cmd(s, l, t)
  PROVE  GogupLine(s, l, t)
<1>1. l \in Plain => t = Sends(s, l)
  BY Kinds DEF gogup_handle_cmd, Others
<1>2. l \in Connects => t = Moves(s, l[2])
  BY Kinds DEF gogup_handle_cmd, Others
<1>3. ASSUME NEW w \in Others, l = <<w>>
      PROVE  l \notin Plain /\ l \notin Connects /\ \A v \in Others : v # w => l # <<v>>
  BY <1>3, Kinds DEF Others
<1>4. l = <<"text">> => t = IF s.room = NoRoom THEN Tells(s, "room not connected") ELSE Says(s)
  <2> SUFFICES ASSUME l = <<"text">>
               PROVE  t = IF s.room = NoRoom THEN Tells(s, "room not connected") ELSE Says(s)
    OBVIOUS
  <2>1. /\ l \notin Plain /\ l \notin Connects
        /\ l \notin {<<"send">>, <<"register">>, <<"hb">>, <<"help">>, <<"exit">>, <<"other">>}
    BY <1>3 DEF Others
  <2> QED
    BY <2>1 DEF gogup_handle_cmd, Toggled
<1>5. l = <<"other">> => t = Tells(s, "Command not found")
  <2> SUFFICES ASSUME l = <<"other">> PROVE t = Tells(s, "Command not found")
    OBVIOUS
  <2>1. /\ l \notin Plain /\ l \notin Connects
        /\ l \notin {<<"send">>, <<"register">>, <<"hb">>, <<"help">>, <<"exit">>, <<"text">>}
    BY <1>3 DEF Others
  <2> QED
    BY <2>1 DEF gogup_handle_cmd, Toggled
<1>6. l = <<"hb">> => t = Toggled(s, "Heartbeat log")
  <2> SUFFICES ASSUME l = <<"hb">> PROVE t = Toggled(s, "Heartbeat log")
    OBVIOUS
  <2>1. /\ l \notin Plain /\ l \notin Connects
        /\ l \notin {<<"send">>, <<"register">>, <<"help">>, <<"exit">>, <<"other">>, <<"text">>}
    BY <1>3 DEF Others
  <2> QED
    BY <2>1 DEF gogup_handle_cmd, Toggled
<1>7. l = <<"help">> => t = Tells(s, "help")
  <2> SUFFICES ASSUME l = <<"help">> PROVE t = Tells(s, "help")
    OBVIOUS
  <2>1. /\ l \notin Plain /\ l \notin Connects
        /\ l \notin {<<"send">>, <<"register">>, <<"hb">>, <<"exit">>, <<"other">>, <<"text">>}
    BY <1>3 DEF Others
  <2> QED
    BY <2>1 DEF gogup_handle_cmd, Toggled
<1>8. l = <<"exit">> => t = Ends(s)
  <2> SUFFICES ASSUME l = <<"exit">> PROVE t = Ends(s)
    OBVIOUS
  <2>1. /\ l \notin Plain /\ l \notin Connects
        /\ l \notin {<<"send">>, <<"register">>, <<"hb">>, <<"help">>, <<"other">>, <<"text">>}
    BY <1>3 DEF Others
  <2> QED
    BY <2>1 DEF gogup_handle_cmd, Toggled
<1>9. l \in {<<"send">>, <<"register">>} => t = Sends(s, Zeros)
  <2> SUFFICES ASSUME NEW w \in {"send", "register"}, l = <<w>> PROVE t = Sends(s, Zeros)
    OBVIOUS
  <2>1. /\ l \notin Plain /\ l \notin Connects
        /\ l \notin {<<"hb">>, <<"help">>, <<"exit">>, <<"other">>, <<"text">>}
    BY <1>3 DEF Others
  <2> QED
    BY <2>1 DEF gogup_handle_cmd, Toggled
<1> QED
  BY <1>1, <1>2, <1>4, <1>5, <1>6, <1>7, <1>8, <1>9 DEF GogupLine

LEMMA OutLines ==
  ASSUME NEW s, NEW l \in Lines, NEW t, out_handle_cmd(s, l, t)
  PROVE  OutLine(s, l, t)
<1>1. l \in Plain => t = Sends(s, l)
  BY Kinds DEF out_handle_cmd, Others
<1>2. l \in Connects => t = Moves(s, l[2])
  BY Kinds DEF out_handle_cmd, Others
<1>3. ASSUME NEW w \in Others, l = <<w>>
      PROVE  l \notin Plain /\ l \notin Connects /\ \A v \in Others : v # w => l # <<v>>
  BY <1>3, Kinds DEF Others
<1>4. l = <<"text">> => t = IF s.room = NoRoom THEN Tells(s, "room not connected") ELSE Says(s)
  <2> SUFFICES ASSUME l = <<"text">>
               PROVE  t = IF s.room = NoRoom THEN Tells(s, "room not connected") ELSE Says(s)
    OBVIOUS
  <2>1. /\ l \notin Plain /\ l \notin Connects
        /\ l \notin {<<"send">>, <<"register">>, <<"hb">>, <<"help">>, <<"exit">>, <<"other">>}
    BY <1>3 DEF Others
  <2> QED
    BY <2>1 DEF out_handle_cmd, Toggled
<1>5. l = <<"other">> => t = IF s.room = NoRoom THEN Tells(s, "room not connected") ELSE Says(s)
  <2> SUFFICES ASSUME l = <<"other">>
               PROVE  t = IF s.room = NoRoom THEN Tells(s, "room not connected") ELSE Says(s)
    OBVIOUS
  <2>1. /\ l \notin Plain /\ l \notin Connects
        /\ l \notin {<<"send">>, <<"register">>, <<"hb">>, <<"help">>, <<"exit">>, <<"text">>}
    BY <1>3 DEF Others
  <2> QED
    BY <2>1 DEF out_handle_cmd, Toggled
<1>6. l = <<"hb">> => t = Toggled(s, "Heartbeat log")
  <2> SUFFICES ASSUME l = <<"hb">> PROVE t = Toggled(s, "Heartbeat log")
    OBVIOUS
  <2>1. /\ l \notin Plain /\ l \notin Connects
        /\ l \notin {<<"send">>, <<"register">>, <<"help">>, <<"exit">>, <<"other">>, <<"text">>}
    BY <1>3 DEF Others
  <2> QED
    BY <2>1 DEF out_handle_cmd, Toggled
<1>7. l = <<"help">> => t = Tells(s, "help")
  <2> SUFFICES ASSUME l = <<"help">> PROVE t = Tells(s, "help")
    OBVIOUS
  <2>1. /\ l \notin Plain /\ l \notin Connects
        /\ l \notin {<<"send">>, <<"register">>, <<"hb">>, <<"exit">>, <<"other">>, <<"text">>}
    BY <1>3 DEF Others
  <2> QED
    BY <2>1 DEF out_handle_cmd, Toggled
<1>8. l = <<"exit">> => t = IF s.room = NoRoom THEN Tells(s, "room not connected") ELSE Says(s)
  <2> SUFFICES ASSUME l = <<"exit">>
               PROVE  t = IF s.room = NoRoom THEN Tells(s, "room not connected") ELSE Says(s)
    OBVIOUS
  <2>1. /\ l \notin Plain /\ l \notin Connects
        /\ l \notin {<<"send">>, <<"register">>, <<"hb">>, <<"help">>, <<"other">>, <<"text">>}
    BY <1>3 DEF Others
  <2> QED
    BY <2>1 DEF out_handle_cmd, Toggled
<1>9. l \in {<<"send">>, <<"register">>} => t = Sends(s, Zeros)
  <2> SUFFICES ASSUME NEW w \in {"send", "register"}, l = <<w>> PROVE t = Sends(s, Zeros)
    OBVIOUS
  <2>1. /\ l \notin Plain /\ l \notin Connects
        /\ l \notin {<<"hb">>, <<"help">>, <<"exit">>, <<"other">>, <<"text">>}
    BY <1>3 DEF Others
  <2> QED
    BY <2>1 DEF out_handle_cmd, Toggled
<1> QED
  BY <1>1, <1>2, <1>4, <1>5, <1>6, <1>7, <1>8, <1>9 DEF OutLine

\* What a response does in them.
GogupResponse(s, f, t) ==
  /\ f.status = 0 => t = Ends(s)
  /\ f.status = 500 => t = Tells(s, "failed")
  /\ f.status = 300 => t = Fresh(s)
  /\ f.status = 200 =>
       /\ f.code = "register" => t = Learned(s, "success", f.user)
       /\ f.code = "chat" => t = IF f.room = s.room THEN Shows(s, f.room, f.user) ELSE Fresh(s)
       /\ f.code \notin {"register", "chat"} => t = Tells(s, "success")

OutResponse(s, f, t) ==
  /\ f.status = 0 => t = Ends(s)
  /\ f.status = 200 /\ f.code = "register" => t = Learned(s, "user id", f.user)
  /\ f.status = 200 /\ f.code = "chat" =>
       t = IF f.room = s.room THEN Shows(s, f.room, f.user) ELSE Fresh(s)
  /\ f.status # 0 /\ ~(f.status = 200 /\ f.code \in {"register", "chat"}) =>
       t = Fresh(s) \/ t = Tells(s, "list")

LEMMA GogupResponses ==
  ASSUME NEW s, NEW f \in Responses, NEW t, gogup_handle_res(s, f, t)
  PROVE  GogupResponse(s, f, t)
BY ResponseTypes DEF gogup_handle_res, GogupResponse, Learned

LEMMA OutResponses ==
  ASSUME NEW s, NEW f \in Responses, NEW t, out_handle_res(s, f, t)
  PROVE  OutResponse(s, f, t)
<1>1. f.status = 0 => t = Ends(s)
  BY ResponseTypes DEF out_handle_res
<1>2. f.status = 200 /\ f.code = "register" => t = Learned(s, "user id", f.user)
  <2> SUFFICES ASSUME f.status = 200, f.code = "register"
               PROVE  t = Learned(s, "user id", f.user)
    OBVIOUS
  <2>1. /\ f.code \notin {"create", "delete", "invite", "connect", "rl", "ul"}
        /\ f.code # "end" /\ f.code # "chat" /\ f.status \notin {300, 500}
    OBVIOUS
  <2> QED
    BY <2>1, Zenon DEF out_handle_res, Learned
<1>3. f.status = 200 /\ f.code = "chat" =>
        t = IF f.room = s.room THEN Shows(s, f.room, f.user) ELSE Fresh(s)
  BY ResponseTypes DEF out_handle_res
<1>4. f.status # 0 /\ ~(f.status = 200 /\ f.code \in {"register", "chat"}) =>
        t = Fresh(s) \/ t = Tells(s, "list")
  BY ResponseTypes DEF out_handle_res
<1> QED
  BY <1>1, <1>2, <1>3, <1>4 DEF OutResponse

\* A line, or a response, leaves gogup_client nothing to choose.
LEMMA GogupDetermined ==
  ASSUME NEW s, NEW t, NEW u
  PROVE  /\ \A l \in Lines : gogup_handle_cmd(s, l, t) /\ gogup_handle_cmd(s, l, u) => t = u
         /\ \A f \in Responses : gogup_handle_res(s, f, t) /\ gogup_handle_res(s, f, u) => t = u
<1>1. ASSUME NEW l \in Lines, gogup_handle_cmd(s, l, t), gogup_handle_cmd(s, l, u) PROVE t = u
  <2>1. GogupLine(s, l, t) /\ GogupLine(s, l, u)
    BY <1>1, GogupLines
  <2>2. \/ l \in Plain \/ l \in Connects \/ l = <<"text">> \/ l = <<"other">>
        \/ l = <<"hb">> \/ l = <<"help">> \/ l = <<"exit">>
        \/ l \in {<<"send">>, <<"register">>}
    BY DEF Lines
  <2>3. CASE l \in Plain
    BY <2>1, <2>3 DEF GogupLine
  <2>4. CASE l \in Connects
    BY <2>1, <2>4 DEF GogupLine
  <2>5. CASE l = <<"text">>
    <3>1. CASE s.room = NoRoom
      <4>1. t = Tells(s, "room not connected") /\ u = Tells(s, "room not connected")
        BY <2>1, <2>5, <3>1 DEF GogupLine
      <4> QED
        BY <4>1
    <3>2. CASE s.room # NoRoom
      <4>1. t = Says(s) /\ u = Says(s)
        BY <2>1, <2>5, <3>2 DEF GogupLine
      <4> QED
        BY <4>1
    <3> QED
      BY <3>1, <3>2
  <2>6. CASE \/ l = <<"other">> \/ l = <<"hb">> \/ l = <<"help">> \/ l = <<"exit">>
             \/ l \in {<<"send">>, <<"register">>}
    BY <2>1, <2>6 DEF GogupLine
  <2> QED
    BY <2>2, <2>3, <2>4, <2>5, <2>6
<1>2. ASSUME NEW f \in Responses, gogup_handle_res(s, f, t), gogup_handle_res(s, f, u) PROVE t = u
  <2>1. GogupResponse(s, f, t) /\ GogupResponse(s, f, u)
    BY <1>2, GogupResponses
  <2> QED
    BY <2>1, ResponseTypes DEF GogupResponse
<1> QED
  BY <1>1, <1>2

\* A line takes two programs that are alike to states that are alike, unless the
\* user leaves gogup_client.
LEMMA SameLine ==
  ASSUME NEW g \in State, NEW o \in State, g.on, Alike(g, o), NEW l \in Lines,
         NEW h, gogup_handle_cmd(g, l, h), NEW p, out_handle_cmd(o, l, p)
  PROVE  SameOutcome(h, p, l)
<1>0. GogupLine(g, l, h) /\ OutLine(o, l, p)
  BY GogupLines, OutLines
<1>n. /\ "room not connected" \in Messages /\ "Command not found" \in Messages
      /\ "Heartbeat log" \in Messages /\ "help" \in Messages
  BY DEF Messages
<1>1. CASE l \in Plain
  <2>1. h = Sends(g, l) /\ p = Sends(o, l)
    BY <1>0, <1>1 DEF GogupLine, OutLine
  <2> QED
    BY <1>1, <2>1, AsksEffect DEF SameOutcome, Alike, Same
<1>2. CASE l \in Connects
  <2>1. h = Moves(g, l[2]) /\ p = Moves(o, l[2])
    BY <1>0, <1>2 DEF GogupLine, OutLine
  <2>2. l[2] \in Ids
    BY <1>2, FirstWords
  <2> QED
    BY <2>1, <2>2, MovesEffect DEF SameOutcome, Alike, Same
<1>3. CASE l = <<"text">>
  <2>1. CASE g.room = NoRoom
    <3>1. h = Tells(g, "room not connected") /\ p = Tells(o, "room not connected")
      BY <1>0, <1>3, <2>1 DEF GogupLine, OutLine, Alike
    <3>2. Same(g, h) /\ h.sent = <<>> /\ h.shown = <<>>
      BY <1>n, <3>1, TellsEffect
    <3>3. Same(o, p) /\ p.sent = <<>> /\ p.shown = <<>>
      BY <1>n, <3>1, TellsEffect
    <3> QED
      BY <3>2, <3>3 DEF SameOutcome, Alike, Same
  <2>2. CASE g.room # NoRoom
    <3>1. h = Says(g) /\ p = Says(o)
      BY <1>0, <1>3, <2>2 DEF GogupLine, OutLine, Alike
    <3> QED
      BY <3>1, SaysEffect DEF SameOutcome, Alike, Same
  <2> QED
    BY <2>1, <2>2
<1>4. CASE l = <<"other">>
  <2>1. h = Tells(g, "Command not found")
    BY <1>0, <1>4 DEF GogupLine
  <2>2. p = Says(o) \/ p = Tells(o, "room not connected")
    BY <1>0, <1>4 DEF OutLine
  <2>3. Same(g, h) /\ h.sent = <<>> /\ h.shown = <<>>
    BY <1>n, <2>1, TellsEffect
  <2>4. Same(o, p) /\ p.shown = <<>>
    BY <1>n, <2>2, TellsEffect, SaysEffect
  <2> QED
    BY <1>4, <2>3, <2>4 DEF SameOutcome, Alike, Same
<1>5. CASE l = <<"hb">>
  <2>1. h = Toggled(g, "Heartbeat log") /\ p = Toggled(o, "Heartbeat log")
    BY <1>0, <1>5 DEF GogupLine, OutLine
  <2>2. /\ h.id = g.id /\ h.room = g.room /\ h.hb = ~g.hb
        /\ h.sent = <<>> /\ h.shown = <<>>
    BY <1>n, <2>1, TogglesEffect
  <2>3. /\ p.on = o.on /\ p.id = o.id /\ p.room = o.room /\ p.hb = ~o.hb
        /\ p.sent = <<>> /\ p.shown = <<>>
    BY <1>n, <2>1, TogglesEffect
  <2> QED
    BY <2>2, <2>3 DEF SameOutcome, Alike
<1>6. CASE l = <<"help">>
  <2>1. h = Tells(g, "help") /\ p = Tells(o, "help")
    BY <1>0, <1>6 DEF GogupLine, OutLine
  <2>2. Same(g, h) /\ h.sent = <<>> /\ h.shown = <<>>
    BY <1>n, <2>1, TellsEffect
  <2>3. Same(o, p) /\ p.sent = <<>> /\ p.shown = <<>>
    BY <1>n, <2>1, TellsEffect
  <2> QED
    BY <2>2, <2>3 DEF SameOutcome, Alike, Same
<1>7. CASE l = <<"exit">>
  <2>1. h = Ends(g)
    BY <1>0, <1>7 DEF GogupLine
  <2> QED
    BY <2>1, EndsEffect DEF SameOutcome
<1>8. CASE l \in {<<"send">>, <<"register">>}
  <2>1. h = Sends(g, Zeros) /\ p = Sends(o, Zeros)
    BY <1>0, <1>8 DEF GogupLine, OutLine
  <2> QED
    BY <2>1, AsksEffect DEF SameOutcome, Alike, Same
<1> QED
  BY <1>1, <1>2, <1>3, <1>4, <1>5, <1>6, <1>7, <1>8 DEF Lines

\* So does a response.
LEMMA SameResponse ==
  ASSUME NEW g \in State, NEW o \in State, g.on, Alike(g, o), NEW f \in Responses,
         NEW h, gogup_handle_res(g, f, h), NEW p, out_handle_res(o, f, p)
  PROVE  SameOutcome(h, p, <<>>)
<1>0. GogupResponse(g, f, h) /\ OutResponse(o, f, p)
  BY GogupResponses, OutResponses
<1>n. /\ "success" \in Messages /\ "user id" \in Messages
      /\ "failed" \in Messages /\ "list" \in Messages
  BY DEF Messages
<1>t. f.user \in Ids /\ f.room \in Ids /\ f.status \in {0, 200, 300, 500}
  BY ResponseTypes
<1>1. CASE f.status = 0
  <2>1. h = Ends(g)
    BY <1>0, <1>1 DEF GogupResponse
  <2> QED
    BY <2>1, EndsEffect DEF SameOutcome
<1>2. CASE f.status = 200 /\ f.code = "register"
  <2>1. h = Learned(g, "success", f.user) /\ p = Learned(o, "user id", f.user)
    BY <1>0, <1>2 DEF GogupResponse, OutResponse
  <2>u. f.user \in Ids /\ "success" \in Messages /\ "user id" \in Messages
    BY <1>n, <1>t
  <2>2. Renamed(g, Learned(g, "success", f.user), f.user)
    BY <2>u, LearnsEffect
  <2>3. Renamed(o, Learned(o, "user id", f.user), f.user)
    BY <2>u, LearnsEffect
  <2> QED
    BY <2>1, <2>2, <2>3 DEF SameOutcome, Alike, Renamed
<1>3. CASE f.status = 200 /\ f.code = "chat" /\ f.room = g.room
  <2>1. h = Shows(g, f.room, f.user) /\ p = Shows(o, f.room, f.user)
    BY <1>0, <1>3 DEF GogupResponse, OutResponse, Alike
  <2> QED
    <3>1. Same(g, h) /\ h.sent = <<>> /\ h.shown = <<<<f.room, f.user>>>>
      BY <1>t, <2>1, ShowsEffect
    <3>2. Same(o, p) /\ p.sent = <<>> /\ p.shown = <<<<f.room, f.user>>>>
      BY <1>t, <2>1, ShowsEffect
    <3> QED
      BY <3>1, <3>2 DEF SameOutcome, Alike, Same
<1>4. CASE /\ f.status # 0 /\ ~(f.status = 200 /\ f.code = "register")
           /\ ~(f.status = 200 /\ f.code = "chat" /\ f.room = g.room)
  <2>1. h \in {Fresh(g), Tells(g, "failed"), Tells(g, "success")}
    BY <1>0, <1>4, <1>t DEF GogupResponse
  <2>2. p \in {Fresh(o), Tells(o, "list")}
    BY <1>0, <1>4 DEF OutResponse, Alike
  <2>3. Same(g, h) /\ h.sent = <<>> /\ h.shown = <<>>
    BY <1>n, <2>1, FreshEffect, TellsEffect
  <2>4. Same(o, p) /\ p.sent = <<>> /\ p.shown = <<>>
    BY <1>n, <2>2, FreshEffect, TellsEffect
  <2> QED
    BY <2>3, <2>4 DEF SameOutcome, Alike, Same
<1> QED
  BY <1>1, <1>2, <1>3, <1>4

\* client sends the three lines it knows as gogup_client sends them.
LEMMA OldSends ==
  ASSUME NEW g \in State, NEW o \in State, NEW h, NEW p
  PROVE  /\ \A l \in Lines : gogup_handle_cmd(g, l, h) /\ old_handle_cmd(o, l, p)
                                => p.sent \in {<<>>, h.sent}
         /\ \A f \in Responses : old_handle_res(o, f, p) => p.sent = <<>>
<1>1. ASSUME NEW l \in Lines, gogup_handle_cmd(g, l, h), old_handle_cmd(o, l, p)
      PROVE  p.sent \in {<<>>, h.sent}
  <2>1. CASE l \in {<<"rl">>, <<"ul">>, <<"create">>}
    <3>1. l \in Plain
      BY <2>1, FirstWords
    <3>2. h = Sends(g, l)
      BY <1>1, <3>1, GogupLines DEF GogupLine
    <3>3. p = Sends(o, l)
      BY <1>1, <2>1 DEF old_handle_cmd
    <3> QED
      BY <3>1, <3>2, <3>3, AsksEffect
  <2>2. CASE l \notin {<<"rl">>, <<"ul">>, <<"create">>}
    <3>1. p = Fresh(o) \/ \E w \in Messages : p = Tells(o, w)
      BY <1>1, <2>2 DEF old_handle_cmd, Messages
    <3> QED
      BY <3>1, FreshEffect, TellsEffect
  <2> QED
    BY <2>1, <2>2
<1>2. ASSUME NEW f \in Responses, old_handle_res(o, f, p) PROVE p.sent = <<>>
  BY <1>2, FreshEffect, TellsEffect, ResponseTypes DEF old_handle_res
<1> QED
  BY <1>1, <1>2

LEMMA SameConversationStep ==
  ASSUME Typed, SameConversation, Next
  PROVE  SameConversation'
<1>1. gogup \in State /\ out \in State /\ without = gogup /\ old \in State
  BY DEF Typed, SameConversation
<1>2. gogup.on => Alike(gogup, out)
  BY DEF SameConversation, Alike
<1>3. CASE \E l \in Lines : TypeLine(l)
  <2> PICK l \in Lines : TypeLine(l)
    BY <1>3
  <2>1. without' = gogup'
    BY <1>1, GogupDetermined, WithoutIsGogup DEF TypeLine
  <2>2. CASE ~gogup.on
    <3>1. ~gogup'.on
      BY <1>1, <2>2, FreshEffect DEF TypeLine, Same
    <3> QED
      BY <2>1, <3>1 DEF SameConversation
  <2>3. CASE gogup.on
    <3>1. gogup_handle_cmd(gogup, l, gogup') /\ out_handle_cmd(out, l, out')
      BY <1>2, <2>3 DEF TypeLine, Alike
    <3>2. SameOutcome(gogup', out', l)
      BY <1>1, <1>2, <2>3, <3>1, SameLine
    <3>3. old'.sent \in {<<>>, gogup'.sent}
      BY <1>1, <3>1, OldSends, FreshEffect DEF TypeLine
    <3>4. typed' = l
      BY DEF TypeLine
    <3> QED
      BY <2>1, <3>2, <3>3, <3>4 DEF SameConversation, SameOutcome, Alike
  <2> QED
    BY <2>2, <2>3
<1>4. CASE \E f \in Responses : Respond(f)
  <2> PICK f \in Responses : Respond(f)
    BY <1>4
  <2>1. without' = gogup'
    BY <1>1, GogupDetermined, WithoutIsGogup DEF Respond
  <2>2. CASE ~gogup.on
    <3>1. ~gogup'.on
      BY <1>1, <2>2, FreshEffect DEF Respond, Same
    <3> QED
      BY <2>1, <3>1 DEF SameConversation
  <2>3. CASE gogup.on
    <3>1. gogup_handle_res(gogup, f, gogup') /\ out_handle_res(out, f, out')
      BY <1>2, <2>3 DEF Respond, Alike
    <3>2. SameOutcome(gogup', out', <<>>)
      BY <1>1, <1>2, <2>3, <3>1, SameResponse
    <3>3. old'.sent = <<>>
      BY <1>1, OldSends, FreshEffect DEF Respond
    <3>4. typed' = <<>>
      BY DEF Respond
    <3> QED
      BY <2>1, <3>2, <3>3, <3>4 DEF SameConversation, SameOutcome, Alike
  <2> QED
    BY <2>2, <2>3
<1> QED
  BY <1>3, <1>4 DEF Next

\* gogup_client, client_out and gogup_client_without_mcast hold one conversation
\* and client a part of it, for any ids in lines and responses
\* (SameConversation; handle_cmd() and handle_res() of the four programs).
THEOREM OneConversation == Spec => []SameConversation
<1>1. Init => SameConversation
  BY StartedFacts DEF Init, SameConversation
<1>2. Typed /\ SameConversation /\ [Next]_vars => SameConversation'
  <2> SUFFICES ASSUME Typed, SameConversation, [Next]_vars PROVE SameConversation'
    OBVIOUS
  <2>1. CASE Next
    BY <2>1, SameConversationStep
  <2>2. CASE UNCHANGED vars
    BY <2>2 DEF SameConversation, vars
  <2> QED
    BY <2>1, <2>2
<1> QED
  BY <1>1, <1>2, TypedInvariant, PTL DEF Spec
=============================================================================
