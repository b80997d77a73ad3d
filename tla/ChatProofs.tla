----------------------------- MODULE ChatProofs -----------------------------
(* Proofs about the promise made by Chatrooms, and about Chat: its types,  *)
(* the rooms it shares with Chatrooms, what a client's chat box can hold,  *)
(* in whose name chats are said, and that none is missed.                  *)
EXTENDS Chat, TLAPS, SequenceTheorems

-----------------------------------------------------------------------------
(* Chatrooms by itself.                                                    *)

LEMMA LatestFacts == Latest \in Nat /\ Latest > 0 /\ NoOwner \notin Users
BY ChatroomsAssumption

\* The end of a log is made of chats, and is its own end.
LEMMA LastOfType ==
  ASSUME NEW s \in Seq(Chats), NEW n \in Nat, n > 0
  PROVE  /\ LastOf(s, n) \in Seq(Chats)
         /\ LastOf(s, Len(LastOf(s, n))) = LastOf(s, n)
<1>0. Len(s) \in Nat
  BY LenProperties
<1>1. CASE Len(s) <= n
  BY <1>0, <1>1 DEF LastOf
<1>2. CASE ~(Len(s) <= n)
  <2> DEFINE a == Len(s) - n + 1
             t == SubSeq(s, a, Len(s))
  <2>1. LastOf(s, n) = t
    BY <1>2 DEF LastOf
  <2>2. a \in 1 .. Len(s)
    BY <1>0, <1>2
  <2>3. \A i \in a .. Len(s) : s[i] \in Chats
    BY <1>0, <2>2, ElementOfSeq
  <2>4. t \in Seq(Chats) /\ Len(t) = Len(s) - a + 1
    BY <1>0, <2>2, <2>3, SubSeqProperties
  <2>5. Len(t) = n
    BY <1>0, <2>4
  <2> QED
    BY <2>1, <2>4, <2>5
<1> QED
  BY <1>0, <1>1, <1>2

LEMMA TypeStep == TypeOK /\ [Next]_vars => TypeOK'
<1> SUFFICES ASSUME TypeOK, [Next]_vars
             PROVE  TypeOK'
  OBVIOUS
<1>0. Nothing \in [Users -> Seq(Chats)]
  BY DEF Nothing
<1>1. ASSUME NEW u \in Users, NEW r \in Rooms, Create(u, r)
      PROVE  TypeOK'
  BY <1>0, <1>1 DEF Create, TypeOK
<1>2. ASSUME NEW u \in Users, NEW r \in Rooms, Delete(u, r)
      PROVE  TypeOK'
  BY <1>0, <1>2 DEF Delete, TypeOK
<1>3. ASSUME NEW u \in Users, NEW r \in Rooms, Connect(u, r)
      PROVE  TypeOK'
  <2>1. Recalled(r) \in Seq(Chats)
    BY LatestFacts, LastOfType DEF Recalled, TypeOK
  <2> QED
    BY <1>0, <1>3, <2>1 DEF Connect, TypeOK
<1>4. ASSUME NEW u \in Users, NEW v \in Users, NEW r \in Rooms, Invite(u, r, v)
      PROVE  TypeOK'
  BY <1>0, <1>4 DEF Invite, TypeOK
<1>5. ASSUME NEW r \in Rooms, NEW m \in Chats, Say(r, m)
      PROVE  TypeOK'
  <2>1. shown' \in [Users -> Seq(Chats)]
    BY <1>5 DEF Say
  <2>2. log' \in [Rooms -> Seq(Chats)]
    BY <1>5 DEF Say, TypeOK
  <2> QED
    BY <1>5, <2>1, <2>2 DEF Say, TypeOK
<1>6. CASE Ask
  BY <1>0, <1>6 DEF Ask, TypeOK
<1>7. CASE UNCHANGED vars
  BY <1>7 DEF vars, TypeOK
<1> QED
  BY <1>1, <1>2, <1>3, <1>4, <1>5, <1>6, <1>7 DEF Next

LEMMA TypeInit == Init => TypeOK
BY DEF Init, TypeOK, Nothing

LEMMA OwnedStep == TypeOK /\ OwnedByMember /\ [Next]_vars => OwnedByMember'
<1> SUFFICES ASSUME TypeOK, OwnedByMember, [Next]_vars
             PROVE  OwnedByMember'
  OBVIOUS
<1> USE LatestFacts DEF TypeOK, OwnedByMember
<1>1. ASSUME NEW u \in Users, NEW r \in Rooms, Create(u, r)
      PROVE  OwnedByMember'
  BY <1>1 DEF Create
<1>2. ASSUME NEW u \in Users, NEW r \in Rooms, Delete(u, r)
      PROVE  OwnedByMember'
  BY <1>2 DEF Delete
<1>3. ASSUME NEW u \in Users, NEW v \in Users, NEW r \in Rooms, Invite(u, r, v)
      PROVE  OwnedByMember'
  BY <1>3 DEF Invite
<1>4. CASE UNCHANGED <<owner, members>>
  BY <1>4
<1> QED
  BY <1>1, <1>2, <1>3, <1>4 DEF Next, Connect, Say, Ask, vars

\* A room exists exactly while it has members, and its owner is one of them.
THEOREM Owned == Spec => []OwnedByMember
<1>1. Init => OwnedByMember
  BY DEF Init, OwnedByMember
<1> QED
  BY <1>1, TypeInit, TypeStep, OwnedStep, PTL DEF Spec

-----------------------------------------------------------------------------
(* Chatrooms among clients.                                                *)

LEMMA IdFacts == Users = Rooms /\ 0 \in Users /\ NoRoom \notin Rooms
BY ChatAssumption

\* The fields of a request are those its command has.
LEMMA RequestFields ==
  ASSUME NEW q \in Request
  PROVE  /\ q.cmd \in {"delete", "connect"} => q.at4 \in Rooms
         /\ q.cmd = "invite" => q.at4 \in Users /\ q.at8 \in Rooms
         /\ q.cmd = "chat" => q.at8 \in Rooms /\ q.chat \in Chats
BY DEF Request

LEMMA ResponseFields ==
  ASSUME NEW p \in Response
  PROVE  /\ p.cmd = "register" => p.id \in Users
         /\ p.cmd = "chat" => p.room \in Rooms /\ p.chat \in Chats
BY DEF Response

\* What the client sends and reads keeps the two queues made of requests and
\* of responses.
LEMMA FirstRequest ==
  ASSUME ChatTypeOK, NEW c \in Users, NEW cmd, Asked(c, cmd)
  PROVE  /\ Head(up[c]) \in Request
         /\ Head(up[c]).cmd = cmd
         /\ [up EXCEPT ![c] = Tail(@)] \in [Users -> Seq(Request)]
<1>1. up[c] \in Seq(Request) /\ up[c] # <<>> /\ up \in [Users -> Seq(Request)]
  BY DEF Asked, ChatTypeOK
<1>2. Head(up[c]) \in Request /\ Tail(up[c]) \in Seq(Request)
  BY <1>1, HeadTailProperties
<1> QED
  BY <1>1, <1>2 DEF Asked

LEMMA SendType ==
  ASSUME ChatTypeOK, NEW c \in Users, NEW q \in Request, Send(c, q)
  PROVE  up' \in [Users -> Seq(Request)] /\ down' \in [Users -> Seq(Response)]
<1>1. up[c] \in Seq(Request)
  BY DEF ChatTypeOK
<1>2. Append(up[c], q) \in Seq(Request)
  BY <1>1, AppendProperties
<1> QED
  BY <1>2 DEF Send, ChatTypeOK

LEMMA AnsweredType ==
  ASSUME ChatTypeOK, NEW c \in Users, NEW cmd, Asked(c, cmd),
         NEW responses \in [Users -> Seq(Response)], Answered(c, responses)
  PROVE  up' \in [Users -> Seq(Request)] /\ down' \in [Users -> Seq(Response)]
<1>1. up' \in [Users -> Seq(Request)]
  BY FirstRequest DEF Answered
<1>2. \A v \in Users : down[v] \o responses[v] \in Seq(Response)
  BY ConcatProperties DEF ChatTypeOK
<1> QED
  BY <1>1, <1>2 DEF Answered

LEMMA ToType ==
  ASSUME NEW c \in Users, NEW p \in Response
  PROVE  To(c, p) \in [Users -> Seq(Response)]
<1>1. <<p>> \in Seq(Response)
  OBVIOUS
<1>2. Nothing \in [Users -> Seq(Response)]
  BY DEF Nothing
<1> QED
  BY <1>1, <1>2 DEF To

LEMMA ChattedType ==
  ASSUME TypeOK', NEW r \in Rooms
  PROVE  Chatted(r) \in [Users -> Seq(Response)]
<1> SUFFICES ASSUME NEW v \in Users
             PROVE  [i \in DOMAIN shown'[v] |->
                       [cmd |-> "chat", room |-> r, chat |-> shown'[v][i]]] \in Seq(Response)
  BY DEF Chatted
<1>1. shown'[v] \in Seq(Chats)
  BY DEF TypeOK
<1>2. \A i \in DOMAIN shown'[v] : [cmd |-> "chat", room |-> r, chat |-> shown'[v][i]] \in Response
  BY <1>1, ElementOfSeq DEF Response
<1>3. DOMAIN shown'[v] = 1 .. Len(shown'[v]) /\ Len(shown'[v]) \in Nat
  BY <1>1, LenProperties
<1> QED
  BY <1>2, <1>3

-----------------------------------------------------------------------------
(* The manager's part of every step is a step of Chatrooms.                *)

\* What clients type and read changes no room.
ClientStep(c) ==
  \/ TypeCreate(c) \/ TypeList(c) \/ TypeChat(c)
  \/ \E r \in Rooms : TypeDelete(c, r) \/ TypeConnect(c, r)
  \/ \E v \in Users, r \in Rooms : TypeInvite(c, v, r)
  \/ handle_res(c)

LEMMA ClientAsks == ASSUME NEW c \in Users, ClientStep(c) PROVE Ask
BY DEF ClientStep, TypeCreate, TypeList, TypeChat, TypeDelete, TypeConnect, TypeInvite,
       handle_res, Send

LEMMA RoomsStep == ChatTypeOK /\ [ChatNext]_chatVars => [Next]_vars
<1> SUFFICES ASSUME ChatTypeOK, [ChatNext]_chatVars
             PROVE  [Next]_vars
  OBVIOUS
<1>1. CASE Ask
  BY <1>1 DEF Next
<1>2. ASSUME NEW c \in Users, ServeCreate(c)
      PROVE  Next
  BY <1>2 DEF ServeCreate, Next
<1>3. ASSUME NEW c \in Users, ServeDelete(c)
      PROVE  Next
  <2>1. Head(up[c]).at4 \in Rooms
    BY <1>3, FirstRequest, RequestFields DEF ServeDelete
  <2> QED
    BY <1>3, <2>1 DEF ServeDelete, Next
<1>4. ASSUME NEW c \in Users, ServeConnect(c)
      PROVE  Next
  <2>1. Head(up[c]).at4 \in Rooms
    BY <1>4, FirstRequest, RequestFields DEF ServeConnect
  <2> QED
    BY <1>4, <2>1 DEF ServeConnect, Next
<1>5. ASSUME NEW c \in Users, ServeInvite(c)
      PROVE  Next
  <2>1. Head(up[c]).at4 \in Rooms /\ Head(up[c]).at8 \in Users
    BY <1>5, FirstRequest, RequestFields, IdFacts DEF ServeInvite
  <2> QED
    BY <1>5, <2>1 DEF ServeInvite, Next
<1>6. ASSUME NEW c \in Users, ServeChat(c)
      PROVE  Next
  <2>1. Head(up[c]).at8 \in Rooms /\ Head(up[c]).chat \in Chats
    BY <1>6, FirstRequest, RequestFields DEF ServeChat
  <2> QED
    BY <1>6, <2>1 DEF ServeChat, Next
<1>7. CASE UNCHANGED chatVars
  BY <1>7 DEF chatVars
<1>8. ASSUME NEW c \in Users, ServeRegister(c) \/ ServeList(c) \/ ClientStep(c)
      PROVE  Ask
  BY <1>8, ClientAsks DEF ServeRegister, ServeList
<1> QED
  BY <1>1, <1>2, <1>3, <1>4, <1>5, <1>6, <1>7, <1>8 DEF ChatNext, ClientStep

-----------------------------------------------------------------------------
(* Types.                                                                  *)

\* A request of client c is answered in the queues' own types.
Serve(c) ==
  \/ ServeRegister(c) \/ ServeCreate(c) \/ ServeList(c) \/ ServeDelete(c)
  \/ ServeConnect(c) \/ ServeInvite(c) \/ ServeChat(c)

LEMMA ServeAnswers ==
  ASSUME ChatTypeOK, TypeOK', NEW c \in Users, Serve(c)
  PROVE  /\ UNCHANGED clientVars
         /\ \E cmd : Asked(c, cmd)
         /\ \E responses \in [Users -> Seq(Response)] : Answered(c, responses)
<1>0. /\ [cmd |-> "lobby"] \in Response
      /\ [cmd |-> "register", id |-> c] \in Response
  BY DEF Response
<1>1. CASE ServeRegister(c)
  BY <1>0, <1>1, ToType DEF ServeRegister, Answered
<1>2. CASE ServeCreate(c) \/ ServeList(c) \/ ServeDelete(c) \/ ServeInvite(c)
  <2>1. Answered(c, To(c, [cmd |-> "lobby"])) /\ \E cmd : Asked(c, cmd)
    BY <1>2 DEF ServeCreate, ServeList, ServeDelete, ServeInvite
  <2> QED
    BY <1>0, <2>1, ToType DEF Answered
<1>3. CASE ServeConnect(c)
  <2> DEFINE r == Head(up[c]).at4
  <2>1. r \in Rooms
    BY <1>3, FirstRequest, RequestFields DEF ServeConnect
  <2>2. Answered(c, Chatted(r)) \/ Answered(c, To(c, [cmd |-> "lobby"]))
    BY <1>3 DEF ServeConnect
  <2>3. Asked(c, "connect")
    BY <1>3 DEF ServeConnect
  <2> HIDE DEF r
  <2> QED
    BY <1>0, <2>1, <2>2, <2>3, ToType, ChattedType DEF Answered
<1>4. CASE ServeChat(c)
  <2> DEFINE r == Head(up[c]).at8
             m == Head(up[c]).chat
  <2>1. r \in Rooms /\ m.from \in Users
    BY <1>4, FirstRequest, RequestFields DEF ServeChat, Chats
  <2>2. Answered(c, Chatted(r)) \/ Answered(c, To(m.from, [cmd |-> "lobby"]))
    BY <1>4 DEF ServeChat
  <2>3. Asked(c, "chat")
    BY <1>4 DEF ServeChat
  <2> HIDE DEF r, m
  <2> QED
    BY <1>0, <2>1, <2>2, <2>3, ToType, ChattedType DEF Answered
<1> QED
  BY <1>1, <1>2, <1>3, <1>4 DEF Serve

LEMMA TypedType ==
  ASSUME ChatTypeOK, NEW c \in Users, ClientStep(c), ~handle_res(c)
  PROVE  /\ my_user_id' = my_user_id
         /\ cur_room_id' \in [Users -> Rooms \cup {NoRoom}]
         /\ screen' \in [Users -> Seq([room : Rooms, chat : Chats])]
         /\ typed' \in [Users -> Nat]
         /\ \E q \in Request : Send(c, q)
<1>1. CASE TypeCreate(c) \/ TypeList(c)
  <2>1. [cmd |-> "create"] \in Request /\ [cmd |-> "list"] \in Request
    BY DEF Request
  <2> QED
    BY <1>1, <2>1 DEF TypeCreate, TypeList, clientVars, ChatTypeOK
<1>2. ASSUME NEW r \in Rooms, TypeDelete(c, r)
      PROVE  UNCHANGED clientVars /\ \E q \in Request : Send(c, q)
  <2>1. [cmd |-> "delete", at4 |-> r] \in Request
    BY DEF Request
  <2> QED
    BY <1>2, <2>1 DEF TypeDelete
<1>3. ASSUME NEW r \in Rooms, NEW v \in Users, TypeInvite(c, v, r)
      PROVE  UNCHANGED clientVars /\ \E q \in Request : Send(c, q)
  <2>1. [cmd |-> "invite", at4 |-> v, at8 |-> r] \in Request
    BY DEF Request
  <2> QED
    BY <1>3, <2>1 DEF TypeInvite
<1>4. ASSUME NEW r \in Rooms, TypeConnect(c, r)
      PROVE  /\ my_user_id' = my_user_id /\ typed' = typed
             /\ cur_room_id' \in [Users -> Rooms \cup {NoRoom}]
             /\ screen' \in [Users -> Seq([room : Rooms, chat : Chats])]
             /\ \E q \in Request : Send(c, q)
  <2>1. [cmd |-> "connect", at4 |-> r] \in Request
    BY DEF Request
  <2>2. Send(c, [cmd |-> "connect", at4 |-> r])
    BY <1>4 DEF TypeConnect
  <2>3. screen' \in [Users -> Seq([room : Rooms, chat : Chats])]
    <3>1. <<>> \in Seq([room : Rooms, chat : Chats])
      BY EmptySeq
    <3>2. screen' = [screen EXCEPT ![c] = <<>>]
      BY <1>4 DEF TypeConnect, ClearBox
    <3> QED
      BY <3>1, <3>2 DEF ChatTypeOK
  <2>4. cur_room_id' \in [Users -> Rooms \cup {NoRoom}]
    BY <1>4 DEF TypeConnect, ChatTypeOK
  <2> QED
    BY <1>4, <2>1, <2>2, <2>3, <2>4 DEF TypeConnect
<1>5. CASE TypeChat(c)
  <2>1. Said(c).chat \in Chats
    BY <1>5 DEF TypeChat, Said, Chats, ChatTypeOK
  <2>2. cur_room_id[c] \in Rooms
    BY <1>5 DEF TypeChat, ChatTypeOK
  <2>3. Said(c) \in Request
    BY <2>1, <2>2 DEF Said, Request
  <2>4. typed' \in [Users -> Nat]
    BY <1>5 DEF TypeChat, ChatTypeOK
  <2>5. \E q \in Request : Send(c, q)
    BY <1>5, <2>3 DEF TypeChat
  <2> QED
    BY <1>5, <2>4, <2>5 DEF TypeChat, ChatTypeOK
<1> QED
  BY <1>1, <1>2, <1>3, <1>4, <1>5 DEF ClientStep, clientVars, ChatTypeOK

\* A client reads the first response, and its screen is extended or not.
LEMMA ReadType ==
  ASSUME ChatTypeOK, NEW c \in Users, handle_res(c)
  PROVE  /\ my_user_id' \in [Users -> Users]
         /\ screen' \in [Users -> Seq([room : Rooms, chat : Chats])]
         /\ down' \in [Users -> Seq(Response)]
<1>1. down[c] \in Seq(Response) /\ down[c] # <<>>
  BY DEF handle_res, ChatTypeOK
<1>2. Head(down[c]) \in Response /\ Tail(down[c]) \in Seq(Response)
  BY <1>1, HeadTailProperties
<1>3. down' \in [Users -> Seq(Response)]
  BY <1>2 DEF handle_res, ChatTypeOK
<1> DEFINE p == Head(down[c])
<1>4. CASE p.cmd = "register"
  <2>1. p.id \in Users
    BY <1>2, <1>4, ResponseFields
  <2> QED
    BY <1>3, <1>4, <2>1 DEF handle_res, ChatTypeOK
<1>5. CASE p.cmd = "chat"
  <2>1. [room |-> p.room, chat |-> p.chat] \in [room : Rooms, chat : Chats]
    BY <1>2, <1>5, ResponseFields
  <2>2. screen[c] \in Seq([room : Rooms, chat : Chats])
    BY DEF ChatTypeOK
  <2>3. Append(screen[c], [room |-> p.room, chat |-> p.chat]) \in Seq([room : Rooms, chat : Chats])
    BY <2>1, <2>2, AppendProperties
  <2> QED
    BY <1>3, <1>5, <2>3 DEF handle_res, ChatTypeOK
<1>6. CASE p.cmd = "lobby"
  BY <1>3, <1>6 DEF handle_res, ChatTypeOK
<1> QED
  BY <1>4, <1>5, <1>6 DEF handle_res

LEMMA ChatTypeStep == ChatTypeOK /\ [ChatNext]_chatVars => ChatTypeOK'
<1> SUFFICES ASSUME ChatTypeOK, [ChatNext]_chatVars
             PROVE  ChatTypeOK'
  OBVIOUS
<1>1. TypeOK'
  BY RoomsStep, TypeStep DEF ChatTypeOK
<1>2. ASSUME NEW c \in Users, Serve(c)
      PROVE  ChatTypeOK'
  <2>1. up' \in [Users -> Seq(Request)] /\ down' \in [Users -> Seq(Response)]
    BY <1>1, <1>2, ServeAnswers, AnsweredType
  <2>2. UNCHANGED clientVars
    BY <1>1, <1>2, ServeAnswers
  <2> QED
    BY <1>1, <2>1, <2>2 DEF ChatTypeOK, clientVars
<1>3. ASSUME NEW c \in Users, ClientStep(c), ~handle_res(c)
      PROVE  ChatTypeOK'
  <2>1. up' \in [Users -> Seq(Request)] /\ down' \in [Users -> Seq(Response)]
    BY <1>3, TypedType, SendType
  <2> QED
    BY <1>1, <1>3, <2>1, TypedType DEF ChatTypeOK
<1>4. ASSUME NEW c \in Users, handle_res(c)
      PROVE  ChatTypeOK'
  BY <1>1, <1>4, ReadType DEF ChatTypeOK, handle_res
<1>5. CASE UNCHANGED chatVars
  BY <1>5 DEF chatVars, vars, clientVars, ChatTypeOK, TypeOK
<1> QED
  BY <1>2, <1>3, <1>4, <1>5 DEF ChatNext, Serve, ClientStep

LEMMA ChatTypeInit == ChatInit => ChatTypeOK
<1> SUFFICES ASSUME ChatInit
             PROVE  ChatTypeOK
  OBVIOUS
<1>1. <<[cmd |-> "register"]>> \in Seq(Request)
  BY DEF Request
<1> QED
  BY <1>1, TypeInit, IdFacts DEF ChatInit, ChatTypeOK

\* Clients that type ahead of the answers, and the manager's answers, keep
\* their types, for any number of clients, rooms and requests under way.
THEOREM ChatTypes == ChatSpec => []ChatTypeOK
BY ChatTypeInit, ChatTypeStep, PTL DEF ChatSpec

\* Whatever the clients send, and whenever, the rooms are those of Chatrooms.
THEOREM RoomsOfChat == ChatSpec => Spec
<1>1. ChatInit => Init
  BY DEF ChatInit
<1> QED
  BY <1>1, ChatTypeInit, ChatTypeStep, RoomsStep, PTL DEF ChatSpec, Spec

\* So a room exists exactly while it has members, its owner among them.
THEOREM OwnedInChat == ChatSpec => []OwnedByMember
BY RoomsOfChat, Owned, PTL

-----------------------------------------------------------------------------
(* The chat box.                                                           *)

LEMMA OneRoomStep == ChatTypeOK /\ OneRoomOnScreen /\ [ChatNext]_chatVars => OneRoomOnScreen'
<1> SUFFICES ASSUME ChatTypeOK, OneRoomOnScreen, [ChatNext]_chatVars
             PROVE  OneRoomOnScreen'
  OBVIOUS
<1>1. CASE UNCHANGED <<screen, cur_room_id>>
  BY <1>1 DEF OneRoomOnScreen
<1>2. ASSUME NEW c \in Users, NEW r \in Rooms, TypeConnect(c, r)
      PROVE  OneRoomOnScreen'
  BY <1>2 DEF TypeConnect, ClearBox, ChatTypeOK, OneRoomOnScreen
<1>3. ASSUME NEW c \in Users, handle_res(c), screen' # screen
      PROVE  OneRoomOnScreen'
  <2> DEFINE e == [room |-> Head(down[c]).room, chat |-> Head(down[c]).chat]
  <2>1. /\ screen' = [screen EXCEPT ![c] = Append(@, e)]
        /\ e.room = cur_room_id[c]
        /\ cur_room_id' = cur_room_id
    BY <1>3 DEF handle_res, Shows
  <2> HIDE DEF e
  <2>2. \A d \in Users : screen[d] \in Seq([room : Rooms, chat : Chats])
    BY DEF ChatTypeOK
  <2>3. screen'[c] = Append(screen[c], e) /\ \A d \in Users \ {c} : screen'[d] = screen[d]
    BY <2>1 DEF ChatTypeOK
  <2>4. \A i \in DOMAIN screen'[c] : \/ i \in DOMAIN screen[c] /\ screen'[c][i] = screen[c][i]
                                    \/ screen'[c][i] = e
    BY <2>2, <2>3
  <2> QED
    BY <2>1, <2>3, <2>4 DEF OneRoomOnScreen
<1>4. ASSUME NEW c \in Users, Serve(c)
      PROVE  UNCHANGED <<screen, cur_room_id>>
  <2>1. TypeOK'
    BY RoomsStep, TypeStep DEF ChatTypeOK
  <2> QED
    BY <1>4, <2>1, ServeAnswers DEF clientVars
<1> QED
  BY <1>1, <1>2, <1>3, <1>4 DEF ChatNext, Serve, TypeCreate, TypeList, TypeChat, TypeDelete,
     TypeInvite, handle_res, clientVars, chatVars

\* The chat box never mixes rooms, whatever is still on its way when the user
\* changes rooms.
THEOREM OneRoom == ChatSpec => []OneRoomOnScreen
<1>1. ChatInit => OneRoomOnScreen
  BY DEF ChatInit, OneRoomOnScreen
<1> QED
  BY <1>1, ChatTypeInit, ChatTypeStep, OneRoomStep, PTL DEF ChatSpec

-----------------------------------------------------------------------------
(* In whose name a chat is said.                                           *)

SelfOrZero(m) == m.from \in {m.text[1], 0}

\* A client goes by its own id or by 0, and so do its chats on their way; no
\* register response is on its way to anybody else.
OwnNames ==
  \A c \in Users :
    /\ my_user_id[c] \in {c, 0}
    /\ \A i \in DOMAIN up[c] : up[c][i].cmd = "chat" => SelfOrZero(up[c][i].chat)
    /\ \A i \in DOMAIN down[c] : down[c][i].cmd = "register" => down[c][i].id = c

LEMMA SaidIs == SaidAsSelfOrZero <=> \A r \in Rooms : \A i \in DOMAIN log[r] : SelfOrZero(log[r][i])
BY DEF SaidAsSelfOrZero, SelfOrZero

LEMMA TailIs ==
  ASSUME NEW S, NEW s \in Seq(S), s # <<>>, NEW i \in DOMAIN Tail(s)
  PROVE  i + 1 \in DOMAIN s /\ Tail(s)[i] = s[i + 1]
BY HeadTailProperties, LenProperties

LEMMA AppendIs ==
  ASSUME NEW S, NEW s \in Seq(S), NEW x \in S, NEW i \in DOMAIN Append(s, x)
  PROVE  (i \in DOMAIN s /\ Append(s, x)[i] = s[i]) \/ Append(s, x)[i] = x
BY AppendProperties, LenProperties

LEMMA ConcatIs ==
  ASSUME NEW S, NEW s \in Seq(S), NEW t \in Seq(S), NEW i \in DOMAIN (s \o t)
  PROVE  \/ i \in DOMAIN s /\ (s \o t)[i] = s[i]
         \/ i - Len(s) \in DOMAIN t /\ (s \o t)[i] = t[i - Len(s)]
BY ConcatProperties, LenProperties

\* A response that tells no id but the reader's own.
Fair(responses) ==
  \A v \in Users : \A i \in DOMAIN responses[v] :
    responses[v][i].cmd = "register" => responses[v][i].id = v

LEMMA ToFair ==
  ASSUME NEW c \in Users, NEW p, p.cmd = "register" => p.id = c
  PROVE  Fair(To(c, p))
<1> SUFFICES ASSUME NEW v \in Users, NEW i \in DOMAIN To(c, p)[v],
                    To(c, p)[v][i].cmd = "register"
             PROVE  To(c, p)[v][i].id = v
  BY DEF Fair
<1>1. To(c, p)[v] = IF v = c THEN <<p>> ELSE <<>>
  BY DEF To, Nothing
<1>2. v = c /\ i = 1
  BY <1>1
<1>3. To(c, p)[v][i] = p
  BY <1>1, <1>2
<1> QED
  BY <1>2, <1>3

LEMMA ChattedFair == ASSUME NEW r PROVE Fair(Chatted(r))
BY DEF Fair, Chatted

LEMMA ServeFair ==
  ASSUME ChatTypeOK, TypeOK', NEW c \in Users, Serve(c)
  PROVE  \E responses \in [Users -> Seq(Response)] : Answered(c, responses) /\ Fair(responses)
<1>0. /\ [cmd |-> "lobby"] \in Response
      /\ [cmd |-> "register", id |-> c] \in Response
  BY DEF Response
<1>L. \A v \in Users :
        /\ Fair(To(v, [cmd |-> "lobby"]))
        /\ To(v, [cmd |-> "lobby"]) \in [Users -> Seq(Response)]
  <2> TAKE v \in Users
  <2>1. [cmd |-> "lobby"].cmd # "register"
    OBVIOUS
  <2> QED
    BY <1>0, <2>1, ToFair, ToType
<1>C. \A r \in Rooms : Fair(Chatted(r)) /\ Chatted(r) \in [Users -> Seq(Response)]
  BY ChattedFair, ChattedType
<1>1. CASE ServeRegister(c)
  <2>1. Fair(To(c, [cmd |-> "register", id |-> c]))
    BY ToFair
  <2> QED
    BY <1>0, <1>1, <2>1, ToType DEF ServeRegister
<1>2. CASE ServeCreate(c) \/ ServeList(c) \/ ServeDelete(c) \/ ServeInvite(c)
  <2>1. Answered(c, To(c, [cmd |-> "lobby"]))
    BY <1>2 DEF ServeCreate, ServeList, ServeDelete, ServeInvite
  <2> QED
    BY <1>L, <2>1
<1>3. CASE ServeConnect(c)
  <2> DEFINE r == Head(up[c]).at4
  <2>1. r \in Rooms
    BY <1>3, FirstRequest, RequestFields DEF ServeConnect
  <2>2. Answered(c, Chatted(r)) \/ Answered(c, To(c, [cmd |-> "lobby"]))
    BY <1>3 DEF ServeConnect
  <2> HIDE DEF r
  <2> QED
    BY <1>C, <1>L, <2>1, <2>2
<1>4. CASE ServeChat(c)
  <2> DEFINE r == Head(up[c]).at8
             m == Head(up[c]).chat
  <2>1. r \in Rooms /\ m.from \in Users
    BY <1>4, FirstRequest, RequestFields DEF ServeChat, Chats
  <2>2. Answered(c, Chatted(r)) \/ Answered(c, To(m.from, [cmd |-> "lobby"]))
    BY <1>4 DEF ServeChat
  <2> HIDE DEF r, m
  <2> QED
    BY <1>C, <1>L, <2>1, <2>2
<1> QED
  BY <1>1, <1>2, <1>3, <1>4 DEF Serve

LEMMA OwnNamesServe ==
  ASSUME ChatTypeOK, TypeOK', OwnNames, NEW c \in Users, Serve(c)
  PROVE  OwnNames'
<1>1. PICK responses \in [Users -> Seq(Response)] : Answered(c, responses) /\ Fair(responses)
  BY ServeFair
<1>2. up[c] \in Seq(Request) /\ up[c] # <<>>
  BY ServeAnswers DEF Asked, ChatTypeOK
<1> SUFFICES ASSUME NEW d \in Users
             PROVE  /\ my_user_id'[d] \in {d, 0}
                    /\ \A i \in DOMAIN up'[d] : up'[d][i].cmd = "chat" => SelfOrZero(up'[d][i].chat)
                    /\ \A i \in DOMAIN down'[d] : down'[d][i].cmd = "register" => down'[d][i].id = d
  BY DEF OwnNames, SelfOrZero
<1>3. my_user_id'[d] \in {d, 0}
  BY <1>1 DEF Answered, clientVars, OwnNames
<1>4. ASSUME NEW i \in DOMAIN up'[d], up'[d][i].cmd = "chat"
      PROVE  SelfOrZero(up'[d][i].chat)
  <2>1. CASE d = c
    <3>1. up'[d] = Tail(up[c])
      BY <1>1, <2>1 DEF Answered, ChatTypeOK
    <3>2. i + 1 \in DOMAIN up[c] /\ up'[d][i] = up[c][i + 1]
      BY <1>2, <1>4, <3>1, TailIs
    <3> QED
      BY <1>4, <3>2 DEF OwnNames
  <2>2. CASE d # c
    <3>1. up'[d] = up[d]
      BY <1>1, <2>2 DEF Answered, ChatTypeOK
    <3> QED
      BY <1>4, <3>1 DEF OwnNames
  <2> QED
    BY <2>1, <2>2
<1>5. ASSUME NEW i \in DOMAIN down'[d], down'[d][i].cmd = "register"
      PROVE  down'[d][i].id = d
  <2>1. down'[d] = down[d] \o responses[d]
    BY <1>1 DEF Answered
  <2>2. down[d] \in Seq(Response) /\ responses[d] \in Seq(Response)
    BY DEF ChatTypeOK
  <2>3. \/ i \in DOMAIN down[d] /\ down'[d][i] = down[d][i]
        \/ i - Len(down[d]) \in DOMAIN responses[d] /\ down'[d][i] = responses[d][i - Len(down[d])]
    BY <1>5, <2>1, <2>2, ConcatIs
  <2> QED
    BY <1>1, <1>5, <2>3 DEF OwnNames, Fair
<1> QED
  BY <1>3, <1>4, <1>5

\* What users type but chats, and what is said, leaves the counts alone.
LEMMA SentWhat ==
  ASSUME ChatTypeOK, NEW c \in Users, ClientStep(c), ~handle_res(c)
  PROVE  \E q \in Request :
           /\ Send(c, q)
           /\ \/ q.cmd # "chat" /\ typed' = typed
              \/ q = Said(c) /\ typed' = [typed EXCEPT ![c] = @ + 1]
<1>1. CASE TypeChat(c)
  <2>1. Said(c).chat \in Chats
    BY <1>1 DEF TypeChat, Said, Chats, ChatTypeOK
  <2>2. cur_room_id[c] \in Rooms
    BY <1>1 DEF TypeChat, ChatTypeOK
  <2>3. Said(c) \in Request
    BY <2>1, <2>2 DEF Said, Request
  <2> QED
    BY <1>1, <2>3 DEF TypeChat
<1>2. CASE TypeCreate(c) \/ TypeList(c)
  <2>1. [cmd |-> "create"] \in Request /\ [cmd |-> "list"] \in Request
    BY DEF Request
  <2> QED
    BY <1>2, <2>1 DEF TypeCreate, TypeList, clientVars
<1>3. ASSUME NEW r \in Rooms, TypeDelete(c, r)
      PROVE  typed' = typed /\ \E q \in Request : Send(c, q) /\ q.cmd # "chat"
  <2>1. [cmd |-> "delete", at4 |-> r] \in Request
    BY DEF Request
  <2> QED
    BY <1>3, <2>1 DEF TypeDelete, clientVars
<1>4. ASSUME NEW r \in Rooms, TypeConnect(c, r)
      PROVE  typed' = typed /\ \E q \in Request : Send(c, q) /\ q.cmd # "chat"
  <2>1. [cmd |-> "connect", at4 |-> r] \in Request
    BY DEF Request
  <2> QED
    BY <1>4, <2>1 DEF TypeConnect
<1>5. ASSUME NEW r \in Rooms, NEW v \in Users, TypeInvite(c, v, r)
      PROVE  typed' = typed /\ \E q \in Request : Send(c, q) /\ q.cmd # "chat"
  <2>1. [cmd |-> "invite", at4 |-> v, at8 |-> r] \in Request
    BY DEF Request
  <2> QED
    BY <1>5, <2>1 DEF TypeInvite, clientVars
<1> QED
  BY <1>1, <1>2, <1>3, <1>4, <1>5 DEF ClientStep

LEMMA OwnNamesType ==
  ASSUME ChatTypeOK, OwnNames, NEW c \in Users, ClientStep(c), ~handle_res(c)
  PROVE  OwnNames'
<1>1. my_user_id' = my_user_id /\ down' = down
  BY TypedType DEF Send
<1>2. PICK q \in Request : Send(c, q) /\ (q.cmd = "chat" => SelfOrZero(q.chat))
  <2>1. Said(c).chat.from = my_user_id[c] /\ Said(c).chat.text[1] = c
    BY DEF Said
  <2>2. SelfOrZero(Said(c).chat)
    BY <2>1 DEF SelfOrZero, OwnNames
  <2> QED
    BY <2>2, SentWhat
<1> SUFFICES ASSUME NEW d \in Users, NEW i \in DOMAIN up'[d], up'[d][i].cmd = "chat"
             PROVE  SelfOrZero(up'[d][i].chat)
  BY <1>1 DEF OwnNames, SelfOrZero
<1>3. CASE d = c
  <2>1. up'[d] = Append(up[c], q) /\ up[c] \in Seq(Request)
    BY <1>2, <1>3 DEF Send, ChatTypeOK
  <2>2. (i \in DOMAIN up[c] /\ up'[d][i] = up[c][i]) \/ up'[d][i] = q
    BY <2>1, AppendIs
  <2> QED
    BY <1>2, <2>2 DEF OwnNames
<1>4. CASE d # c
  <2>1. up'[d] = up[d]
    BY <1>2, <1>4 DEF Send, ChatTypeOK
  <2> QED
    BY <2>1 DEF OwnNames
<1> QED
  BY <1>3, <1>4

LEMMA OwnNamesRead ==
  ASSUME ChatTypeOK, OwnNames, NEW c \in Users, handle_res(c)
  PROVE  OwnNames'
<1>1. down[c] \in Seq(Response) /\ down[c] # <<>>
  BY DEF handle_res, ChatTypeOK
<1>2. 1 \in DOMAIN down[c] /\ Head(down[c]) = down[c][1]
  BY <1>1
<1>3. \A d \in Users : my_user_id'[d] \in {d, 0}
  <2>1. CASE /\ Head(down[c]).cmd = "register"
             /\ my_user_id' = [my_user_id EXCEPT ![c] = Head(down[c]).id]
    <3>1. Head(down[c]).id = c
      BY <1>2, <2>1 DEF OwnNames
    <3> QED
      BY <2>1, <3>1 DEF OwnNames, ChatTypeOK
  <2>2. CASE my_user_id' = my_user_id
    BY <2>2 DEF OwnNames
  <2> QED
    BY <2>1, <2>2 DEF handle_res
<1>4. ASSUME NEW d \in Users, NEW i \in DOMAIN down'[d], down'[d][i].cmd = "register"
      PROVE  down'[d][i].id = d
  <2>1. CASE d = c
    <3>1. down'[d] = Tail(down[c])
      BY <2>1 DEF handle_res, ChatTypeOK
    <3>2. i + 1 \in DOMAIN down[c] /\ down'[d][i] = down[c][i + 1]
      BY <1>1, <1>4, <3>1, TailIs
    <3> QED
      BY <1>4, <2>1, <3>2 DEF OwnNames
  <2>2. CASE d # c
    <3>1. down'[d] = down[d]
      BY <2>2 DEF handle_res, ChatTypeOK
    <3> QED
      BY <1>4, <3>1 DEF OwnNames
  <2> QED
    BY <2>1, <2>2
<1>5. up' = up
  BY DEF handle_res
<1> QED
  BY <1>3, <1>4, <1>5 DEF OwnNames, SelfOrZero

LEMMA SaidStep ==
  ASSUME ChatTypeOK, OwnNames, SaidAsSelfOrZero, [ChatNext]_chatVars
  PROVE  SaidAsSelfOrZero'
<1> SUFFICES ASSUME NEW q \in Rooms, NEW i \in DOMAIN log'[q]
             PROVE  SelfOrZero(log'[q][i])
  BY DEF SaidAsSelfOrZero, SelfOrZero
<1>0. log \in [Rooms -> Seq(Chats)]
  BY DEF ChatTypeOK, TypeOK
<1>1. CASE log'[q] = log[q]
  BY <1>1, SaidIs
<1>2. CASE log'[q] = <<>>
  BY <1>2
<1>3. ASSUME NEW c \in Users, ServeChat(c), log' # log
      PROVE  SelfOrZero(log'[q][i])
  <2> DEFINE r == Head(up[c]).at8
             m == Head(up[c]).chat
  <2>1. Asked(c, "chat") /\ Say(r, m)
    BY <1>3 DEF ServeChat, Ask
  <2>2. r \in Rooms /\ m \in Chats
    BY <2>1, FirstRequest, RequestFields
  <2>3. SelfOrZero(m)
    <3>1. up[c] \in Seq(Request) /\ up[c] # <<>> /\ Head(up[c]).cmd = "chat"
      BY <2>1 DEF Asked, ChatTypeOK
    <3>2. 1 \in DOMAIN up[c] /\ Head(up[c]) = up[c][1]
      BY <3>1
    <3> QED
      BY <3>1, <3>2 DEF OwnNames
  <2> HIDE DEF r, m
  <2>4. log' = [log EXCEPT ![r] = Append(@, m)]
    BY <2>1 DEF Say
  <2>5. CASE q = r
    <3>1. log'[q] = Append(log[q], m) /\ log[q] \in Seq(Chats)
      BY <1>0, <2>4, <2>5
    <3>2. (i \in DOMAIN log[q] /\ log'[q][i] = log[q][i]) \/ log'[q][i] = m
      BY <2>2, <3>1, AppendIs
    <3> QED
      BY <2>3, <3>2, SaidIs
  <2>6. CASE q # r
    BY <1>0, <1>1, <2>4, <2>6
  <2> QED
    BY <2>5, <2>6
<1>4. ASSUME NEW c \in Users, ServeCreate(c)
      PROVE  SelfOrZero(log'[q][i])
  <2>1. PICK r \in Rooms : log' = [log EXCEPT ![r] = <<>>]
    BY <1>4 DEF ServeCreate, Create
  <2> QED
    BY <1>0, <1>1, <1>2, <2>1
<1>5. ASSUME NEW c \in Users, ServeDelete(c), log' # log
      PROVE  SelfOrZero(log'[q][i])
  <2>1. log' = [log EXCEPT ![Head(up[c]).at4] = <<>>]
    BY <1>5 DEF ServeDelete, Ask, Delete
  <2> QED
    BY <1>0, <1>1, <1>2, <2>1
<1>6. CASE log' = log
  BY <1>1, <1>6
<1>7. ASSUME NEW c \in Users, ClientStep(c) \/ ServeRegister(c) \/ ServeList(c)
      PROVE  log' = log
  BY <1>7, ClientAsks DEF ServeRegister, ServeList, Ask
<1>8. ASSUME NEW c \in Users, ServeConnect(c) \/ ServeInvite(c)
      PROVE  log' = log
  BY <1>8 DEF ServeConnect, ServeInvite, Ask, Connect, Invite
<1> QED
  BY <1>3, <1>4, <1>5, <1>6, <1>7, <1>8 DEF ChatNext, ClientStep, chatVars, vars

\* However far the users type ahead of the answers, nothing is said in the name
\* of another user than the one who typed it, except in that of user 0.
THEOREM OwnName == ChatSpec => []SaidAsSelfOrZero
<1>1. ChatInit => OwnNames /\ SaidAsSelfOrZero
  <2> SUFFICES ASSUME ChatInit PROVE OwnNames /\ SaidAsSelfOrZero
    OBVIOUS
  <2>1. OwnNames
    <3>1. ASSUME NEW c \in Users
          PROVE  /\ my_user_id[c] = 0 /\ down[c] = <<>>
                 /\ \A i \in DOMAIN up[c] : up[c][i].cmd = "register"
      BY DEF ChatInit
    <3>2. DOMAIN <<>> = {}
      OBVIOUS
    <3> QED
      BY <3>1, <3>2 DEF OwnNames
  <2>2. SaidAsSelfOrZero
    BY DEF ChatInit, Init, SaidAsSelfOrZero
  <2> QED
    BY <2>1, <2>2
<1>2. ChatTypeOK /\ OwnNames /\ SaidAsSelfOrZero /\ [ChatNext]_chatVars
        => OwnNames' /\ SaidAsSelfOrZero'
  <2> SUFFICES ASSUME ChatTypeOK, OwnNames, SaidAsSelfOrZero, [ChatNext]_chatVars
               PROVE  OwnNames'
    BY SaidStep
  <2>1. TypeOK'
    BY RoomsStep, TypeStep DEF ChatTypeOK
  <2>2. CASE UNCHANGED chatVars
    BY <2>2 DEF chatVars, clientVars, OwnNames
  <2> QED
    BY <2>1, <2>2, OwnNamesServe, OwnNamesType, OwnNamesRead DEF ChatNext, Serve, ClientStep
<1> QED
  BY <1>1, <1>2, ChatTypeInit, ChatTypeStep, PTL DEF ChatSpec

-----------------------------------------------------------------------------
(* Sequences of responses without gaps.                                    *)

About(res, r) == res.cmd = "chat" /\ res.room = r

\* Of s, t keeps some, in order; left out is only what is not about room r, or
\* comes before everything kept that is.
Keeps(t, s, r) ==
  \E f \in [DOMAIN t -> DOMAIN s] :
    /\ \A i \in DOMAIN t : t[i] = s[f[i]]
    /\ \A i, j \in DOMAIN t : i < j => f[i] < f[j]
    /\ \A j \in DOMAIN s : \/ \E i \in DOMAIN t : f[i] = j
                           \/ ~About(s[j], r)
                           \/ \A i \in DOMAIN t : About(t[i], r) => j < f[i]

\* Leaving out makes no gap.
LEMMA GapLeft ==
  ASSUME NEW s \in Seq(Response), NEW t \in Seq(Response), NEW r, NEW l \in Seq(Chats),
         Keeps(t, s, r), NoGap(s, r, l)
  PROVE  NoGap(t, r, l)
<1>F. PICK f \in [DOMAIN t -> DOMAIN s] :
        /\ \A i \in DOMAIN t : t[i] = s[f[i]]
        /\ \A i, j \in DOMAIN t : i < j => f[i] < f[j]
        /\ \A j \in DOMAIN s : \/ \E i \in DOMAIN t : f[i] = j
                               \/ ~About(s[j], r)
                               \/ \A i \in DOMAIN t : About(t[i], r) => j < f[i]
  BY DEF Keeps
<1>0. /\ DOMAIN s \subseteq Nat /\ DOMAIN t \subseteq Nat /\ DOMAIN l \subseteq Nat
      /\ DOMAIN t = 1 .. Len(t) /\ Len(t) \in Nat /\ DOMAIN s = 1 .. Len(s) /\ Len(s) \in Nat
      /\ DOMAIN l = 1 .. Len(l) /\ Len(l) \in Nat
  BY LenProperties
<1> SUFFICES ASSUME NEW i \in DOMAIN t, NEW p \in DOMAIN l, Tells(t[i], r, l[p]), p # Len(l)
             PROVE  \E j \in DOMAIN t :
                      /\ j > i
                      /\ Tells(t[j], r, l[p + 1])
                      /\ \A k \in i + 1 .. j - 1, q \in DOMAIN l : Tells(t[k], r, l[q]) => q <= p
  BY DEF NoGap
<1>1. f[i] \in DOMAIN s /\ Tells(s[f[i]], r, l[p])
  BY <1>F
<1>2. PICK g \in DOMAIN s :
        /\ g > f[i]
        /\ Tells(s[g], r, l[p + 1])
        /\ \A k \in f[i] + 1 .. g - 1, q \in DOMAIN l : Tells(s[k], r, l[q]) => q <= p
  BY <1>1 DEF NoGap
<1>3. p + 1 \in DOMAIN l
  BY <1>0
<1>4. PICK j \in DOMAIN t : f[j] = g
  <2>1. About(s[g], r) /\ About(t[i], r) /\ ~(g < f[i])
    BY <1>0, <1>1, <1>2 DEF Tells, About
  <2> QED
    BY <1>F, <2>1
<1>5. j > i
  <2>1. f[j] > f[i]
    BY <1>2, <1>4
  <2> QED
    BY <1>0, <1>1, <1>F, <2>1
<1>6. ASSUME NEW k \in i + 1 .. j - 1, NEW q \in DOMAIN l, Tells(t[k], r, l[q])
      PROVE  q <= p
  <2>1. k \in DOMAIN t /\ i < k /\ k < j
    BY <1>0
  <2>2. f[k] \in DOMAIN s /\ f[i] < f[k] /\ f[k] < g
    BY <1>4, <1>F, <2>1
  <2>3. f[k] \in f[i] + 1 .. g - 1
    BY <1>0, <1>1, <2>2
  <2> QED
    BY <1>2, <1>6, <1>F, <2>1, <2>3
<1>7. Tells(t[j], r, l[p + 1])
  BY <1>2, <1>4, <1>F
<1> QED
  BY <1>5, <1>6, <1>7

\* Responses that follow each other make no gap.
LEMMA GapAfter ==
  ASSUME NEW s \in Seq(Response), NEW t \in Seq(Response), NEW r, NEW l \in Seq(Chats),
         NoGap(s, r, l),
         \A x \in DOMAIN t, p \in DOMAIN l : Tells(t[x], r, l[p]) =>
           p = Len(l) \/ (x + 1 \in DOMAIN t /\ Tells(t[x + 1], r, l[p + 1]))
  PROVE  NoGap(s \o t, r, l)
<1> DEFINE u == s \o t
<1>0. /\ DOMAIN s = 1 .. Len(s) /\ Len(s) \in Nat /\ DOMAIN t = 1 .. Len(t) /\ Len(t) \in Nat
      /\ DOMAIN l = 1 .. Len(l) /\ Len(l) \in Nat
      /\ DOMAIN u = 1 .. Len(s) + Len(t)
  BY ConcatProperties, LenProperties
<1>1. \A i \in DOMAIN s : u[i] = s[i]
  BY ConcatProperties, <1>0
<1>2. \A x \in DOMAIN t : u[Len(s) + x] = t[x]
  BY ConcatProperties, <1>0
<1> HIDE DEF u
<1> SUFFICES ASSUME NEW i \in DOMAIN u, NEW p \in DOMAIN l, Tells(u[i], r, l[p]), p # Len(l)
             PROVE  \E j \in DOMAIN u :
                      /\ j > i
                      /\ Tells(u[j], r, l[p + 1])
                      /\ \A k \in i + 1 .. j - 1, q \in DOMAIN l : Tells(u[k], r, l[q]) => q <= p
  BY DEF NoGap, u
<1>3. CASE i \in DOMAIN s
  <2>1. PICK j \in DOMAIN s :
          /\ j > i
          /\ Tells(s[j], r, l[p + 1])
          /\ \A k \in i + 1 .. j - 1, q \in DOMAIN l : Tells(s[k], r, l[q]) => q <= p
    BY <1>1, <1>3 DEF NoGap
  <2>2. j \in DOMAIN u /\ u[j] = s[j]
    BY <1>0, <1>1
  <2>3. \A k \in i + 1 .. j - 1 : k \in DOMAIN s /\ u[k] = s[k]
    BY <1>0, <1>1, <1>3
  <2>4. \A k \in i + 1 .. j - 1, q \in DOMAIN l : Tells(u[k], r, l[q]) => q <= p
    BY <2>1, <2>3
  <2> QED
    BY <2>1, <2>2, <2>4
<1>4. CASE i \notin DOMAIN s
  <2> DEFINE x == i - Len(s)
  <2>1. x \in DOMAIN t /\ i = Len(s) + x
    BY <1>0, <1>4
  <2>2. Tells(t[x], r, l[p])
    BY <1>2, <2>1
  <2>3. x + 1 \in DOMAIN t /\ Tells(t[x + 1], r, l[p + 1])
    BY <2>1, <2>2
  <2>4. i + 1 \in DOMAIN u /\ u[i + 1] = t[x + 1]
    <3>1. u[Len(s) + (x + 1)] = t[x + 1]
      BY <1>2, <2>3
    <3>2. x \in Nat /\ x + 1 \in 1 .. Len(t)
      BY <1>0, <2>1, <2>3
    <3>3. Len(s) + (x + 1) = i + 1
      BY <1>0, <2>1, <3>2
    <3>4. i + 1 \in DOMAIN u
      BY <1>0, <3>2, <3>3
    <3> QED
      BY <3>1, <3>3, <3>4
  <2>5. i + 1 .. (i + 1) - 1 = {}
    BY <1>0
  <2>6. i + 1 > i
    BY <1>0
  <2> QED
    BY <2>3, <2>4, <2>5, <2>6
<1> QED
  BY <1>3, <1>4

\* A new chat is the next one after the last.
LEMMA GapSaid ==
  ASSUME NEW s \in Seq(Response), NEW r, NEW l \in Seq(Chats), NEW m \in Chats,
         NEW n \in Response, Tells(n, r, m),
         NoGap(s, r, l),
         \A i \in DOMAIN s : ~Tells(s[i], r, m),
         \A p \in DOMAIN l : l[p] # m
  PROVE  NoGap(s \o <<n>>, r, Append(l, m))
<1> DEFINE u == s \o <<n>>
           g == Append(l, m)
<1>0. /\ DOMAIN s = 1 .. Len(s) /\ Len(s) \in Nat
      /\ DOMAIN l = 1 .. Len(l) /\ Len(l) \in Nat
      /\ DOMAIN u = 1 .. Len(s) + 1 /\ DOMAIN g = 1 .. Len(l) + 1 /\ Len(g) = Len(l) + 1
  <2>1. <<n>> \in Seq(Response) /\ Len(<<n>>) = 1
    OBVIOUS
  <2> QED
    BY <2>1, ConcatProperties, AppendProperties, LenProperties
<1>1. /\ \A i \in DOMAIN s : u[i] = s[i]
      /\ u[Len(s) + 1] = n
  <2>1. <<n>> \in Seq(Response) /\ Len(<<n>>) = 1 /\ <<n>>[1] = n
    OBVIOUS
  <2> QED
    BY <1>0, <2>1, ConcatProperties
<1>2. (\A p \in DOMAIN l : g[p] = l[p]) /\ g[Len(l) + 1] = m
  BY <1>0, AppendProperties
<1> HIDE DEF u, g
<1> SUFFICES ASSUME NEW i \in DOMAIN u, NEW p \in DOMAIN g, Tells(u[i], r, g[p]), p # Len(g)
             PROVE  \E j \in DOMAIN u :
                      /\ j > i
                      /\ Tells(u[j], r, g[p + 1])
                      /\ \A k \in i + 1 .. j - 1, q \in DOMAIN g : Tells(u[k], r, g[q]) => q <= p
  BY DEF NoGap, u, g
<1>3. p \in DOMAIN l /\ g[p] = l[p]
  BY <1>0, <1>2
<1>4. i \in DOMAIN s /\ u[i] = s[i] /\ Tells(s[i], r, l[p])
  <2>1. CASE i = Len(s) + 1
    <3>1. l[p] = m
      BY <1>1, <1>3, <2>1 DEF Tells
    <3> QED
      BY <1>3, <3>1
  <2>2. CASE i # Len(s) + 1
    <3>1. i \in DOMAIN s
      BY <1>0, <2>2
    <3>2. u[i] = s[i]
      BY <1>1, <3>1
    <3> QED
      BY <1>3, <3>1, <3>2
  <2> QED
    BY <2>1, <2>2
<1>5. ASSUME NEW k \in DOMAIN s, NEW q \in DOMAIN g, Tells(u[k], r, g[q])
      PROVE  q \in DOMAIN l /\ Tells(s[k], r, l[q])
  <2>1. u[k] = s[k]
    BY <1>1
  <2>2. q # Len(l) + 1
    BY <1>2, <1>5, <2>1
  <2>3. q \in DOMAIN l
    BY <1>0, <2>2
  <2> QED
    BY <1>2, <1>5, <2>1, <2>3
<1>6. CASE p = Len(l)
  <2>1. Len(s) + 1 \in DOMAIN u /\ Len(s) + 1 > i
    BY <1>0, <1>4
  <2>2. Tells(u[Len(s) + 1], r, g[p + 1])
    BY <1>1, <1>2, <1>6
  <2>3. ASSUME NEW k \in i + 1 .. (Len(s) + 1) - 1, NEW q \in DOMAIN g, Tells(u[k], r, g[q])
        PROVE  q <= p
    <3>1. k \in DOMAIN s
      BY <1>0, <1>4
    <3>2. q \in DOMAIN l
      BY <1>5, <2>3, <3>1
    <3>3. q \in 1 .. Len(l)
      BY <1>0, <3>2
    <3>4. p = Len(l) /\ Len(l) \in Nat
      BY <1>0, <1>6
    <3> HIDE DEF g
    <3> QED
      BY <3>3, <3>4
  <2> QED
    BY <2>1, <2>2, <2>3
<1>7. CASE p # Len(l)
  <2>1. PICK j \in DOMAIN s :
          /\ j > i
          /\ Tells(s[j], r, l[p + 1])
          /\ \A k \in i + 1 .. j - 1, q \in DOMAIN l : Tells(s[k], r, l[q]) => q <= p
    BY <1>3, <1>4, <1>7 DEF NoGap
  <2>2. j \in DOMAIN u /\ u[j] = s[j] /\ g[p + 1] = l[p + 1]
    BY <1>0, <1>1, <1>2, <1>3, <1>7
  <2>3. ASSUME NEW k \in i + 1 .. j - 1, NEW q \in DOMAIN g, Tells(u[k], r, g[q])
        PROVE  q <= p
    <3>1. k \in DOMAIN s
      BY <1>0, <1>4
    <3> QED
      BY <1>5, <2>1, <2>3, <3>1
  <2> QED
    BY <2>1, <2>2, <2>3
<1> QED
  BY <1>6, <1>7

-----------------------------------------------------------------------------
(* What is on its way to the users.                                        *)

\* An entry of the chat box, as the response it came in.
Shown(e) == [cmd |-> "chat", room |-> e.room, chat |-> e.chat]

AsTold(s) == [i \in DOMAIN s |-> Shown(s[i])]

OnScreen(c) == AsTold(screen[c])

LEMMA AsToldType ==
  ASSUME NEW s \in Seq([room : Rooms, chat : Chats])
  PROVE  AsTold(s) \in Seq(Response) /\ Len(AsTold(s)) = Len(s)
<1> DEFINE S == [room : Rooms, chat : Chats]
           n == Len(s)
           e(i) == Shown(s[i])
<1>1. DOMAIN s = 1 .. n /\ n \in Nat /\ \A i \in DOMAIN s : s[i] \in S
  <2>1. s \in Seq(S)
    OBVIOUS
  <2> HIDE DEF S
  <2> QED
    BY <2>1, LenProperties, ElementOfSeq
<1>2. \A x \in S : Shown(x) \in Response
  BY DEF Response, Shown
<1>3. AsTold(s) = [i \in 1 .. n |-> e(i)] /\ n \in Nat /\ \A i \in 1 .. n : e(i) \in Response
  BY <1>1, <1>2 DEF AsTold
<1> HIDE DEF n, e
<1>4. [i \in 1 .. n |-> e(i)] \in Seq(Response) /\ Len([i \in 1 .. n |-> e(i)]) = n
  BY <1>3
<1> QED
  BY <1>3, <1>4 DEF n

LEMMA ComingIs ==
  ASSUME ChatTypeOK, NEW c \in Users
  PROVE  /\ OnScreen(c) \in Seq(Response)
         /\ Len(OnScreen(c)) = Len(screen[c])
         /\ down[c] \in Seq(Response)
         /\ Coming(c) = OnScreen(c) \o down[c]
         /\ Coming(c) \in Seq(Response)
<1>1. screen[c] \in Seq([room : Rooms, chat : Chats]) /\ down[c] \in Seq(Response)
  BY DEF ChatTypeOK
<1>2. Coming(c) = OnScreen(c) \o down[c]
  BY DEF Coming, OnScreen, AsTold, Shown
<1> QED
  BY <1>1, <1>2, AsToldType, ConcatProperties DEF OnScreen

\* What the manager writes comes after everything else.
LEMMA AnsweredComing ==
  ASSUME ChatTypeOK, NEW c \in Users, NEW responses \in [Users -> Seq(Response)],
         Answered(c, responses)
  PROVE  \A v \in Users : Coming(v)' = Coming(v) \o responses[v]
<1> SUFFICES ASSUME NEW v \in Users PROVE Coming(v)' = Coming(v) \o responses[v]
  OBVIOUS
<1>1. /\ screen' = screen
      /\ down'[v] = down[v] \o responses[v]
  BY DEF Answered, clientVars
<1>2. OnScreen(v)' = OnScreen(v)
  BY <1>1 DEF OnScreen
<1>3. Coming(v)' = OnScreen(v) \o (down[v] \o responses[v])
  BY <1>1, <1>2 DEF Coming, OnScreen, AsTold, Shown
<1>4. /\ OnScreen(v) \in Seq(Response) /\ down[v] \in Seq(Response)
      /\ responses[v] \in Seq(Response) /\ Coming(v) = OnScreen(v) \o down[v]
  BY ComingIs
<1> DEFINE a == OnScreen(v)
           b == down[v]
           w == responses[v]
<1> HIDE DEF a, b, w
<1>5. (a \o b) \o w = a \o (b \o w)
  <2>1. a \in Seq(Response) /\ b \in Seq(Response) /\ w \in Seq(Response)
    BY <1>4 DEF a, b, w
  <2> QED
    BY <2>1, ConcatAssociative
<1> QED
  BY <1>3, <1>4, <1>5, Zenon DEF a, b, w

LEMMA KeepsAll ==
  ASSUME NEW s \in Seq(Response), NEW r
  PROVE  Keeps(s, s, r)
<1> DEFINE f == [i \in DOMAIN s |-> i]
<1>1. f \in [DOMAIN s -> DOMAIN s] /\ \A i \in DOMAIN s : f[i] = i
  OBVIOUS
<1> HIDE DEF f
<1> QED
  BY <1>1 DEF Keeps

LEMMA KeepsEnd ==
  ASSUME NEW s \in Seq(Response), NEW t \in Seq(Response), NEW r
  PROVE  Keeps(t, s \o t, r)
<1> DEFINE f == [i \in DOMAIN t |-> Len(s) + i]
           u == s \o t
<1>0. /\ DOMAIN t = 1 .. Len(t) /\ Len(t) \in Nat /\ Len(s) \in Nat
      /\ DOMAIN u = 1 .. Len(s) + Len(t)
  BY ConcatProperties, LenProperties
<1>1. \A i \in DOMAIN t : Len(s) + i \in DOMAIN u /\ u[Len(s) + i] = t[i]
  <2> SUFFICES ASSUME NEW i \in DOMAIN t PROVE Len(s) + i \in DOMAIN u /\ u[Len(s) + i] = t[i]
    OBVIOUS
  <2>1. Len(s) + i \in DOMAIN u
    BY <1>0
  <2> QED
    BY <1>0, <2>1, ConcatProperties
<1>2. f \in [DOMAIN t -> DOMAIN u] /\ \A i \in DOMAIN t : f[i] = Len(s) + i
  BY <1>1
<1> HIDE DEF f, u
<1>3. \A i \in DOMAIN t : t[i] = u[f[i]]
  BY <1>1, <1>2
<1>4. \A i, j \in DOMAIN t : i < j => f[i] < f[j]
  BY <1>0, <1>2
<1>5. ASSUME NEW j \in DOMAIN u
      PROVE  (\E i \in DOMAIN t : f[i] = j) \/ (\A i \in DOMAIN t : j < f[i])
  <2>1. CASE j <= Len(s)
    BY <1>0, <1>2, <2>1
  <2>2. CASE ~(j <= Len(s))
    <3>1. j - Len(s) \in DOMAIN t
      BY <1>0, <2>2
    <3>2. Len(s) + (j - Len(s)) = j
      BY <1>0
    <3> QED
      BY <1>2, <3>1, <3>2
  <2> QED
    BY <2>1, <2>2
<1>6. Keeps(t, u, r)
  BY <1>2, <1>3, <1>4, <1>5 DEF Keeps
<1> QED
  BY <1>6 DEF u

\* Without the first element of the second of two sequences.
LEMMA KeepsOthers ==
  ASSUME NEW s \in Seq(Response), NEW t \in Seq(Response), t # <<>>, NEW r,
         ~About(Head(t), r) \/ \A i \in DOMAIN s : ~About(s[i], r)
  PROVE  Keeps(s \o Tail(t), s \o t, r)
<1> DEFINE n == Len(s) + 1
           u == s \o t
           w == s \o Tail(t)
           f == [i \in DOMAIN w |-> IF i < n THEN i ELSE i + 1]
<1>0. /\ Tail(t) \in Seq(Response) /\ Len(Tail(t)) = Len(t) - 1 /\ Len(t) \in Nat \ {0}
      /\ Len(s) \in Nat /\ Head(t) = t[1]
      /\ \A i \in 1 .. Len(Tail(t)) : Tail(t)[i] = t[i + 1]
  BY HeadTailProperties, LenProperties, EmptySeq
<1>1. DOMAIN u = 1 .. Len(s) + Len(t) /\ DOMAIN w = 1 .. Len(s) + (Len(t) - 1)
  BY <1>0, ConcatProperties, LenProperties
<1>2. u[n] = Head(t)
  BY <1>0, ConcatProperties
<1>3. /\ \A i \in DOMAIN u : u[i] = IF i <= Len(s) THEN s[i] ELSE t[i - Len(s)]
      /\ \A i \in DOMAIN w : w[i] = IF i <= Len(s) THEN s[i] ELSE Tail(t)[i - Len(s)]
  BY <1>0, <1>1, ConcatProperties
<1>4. f \in [DOMAIN w -> DOMAIN u] /\ \A i \in DOMAIN w : f[i] = IF i < n THEN i ELSE i + 1
  BY <1>0, <1>1
<1> HIDE DEF f, u, w
<1>5. ASSUME NEW i \in DOMAIN w PROVE w[i] = u[f[i]]
  <2>1. CASE i < n
    <3>1. i <= Len(s) /\ i \in DOMAIN u
      BY <1>0, <1>1, <2>1
    <3> QED
      BY <1>3, <1>4, <2>1, <3>1
  <2>2. CASE ~(i < n)
    <3>1. ~(i <= Len(s)) /\ i + 1 \in DOMAIN u /\ ~(i + 1 <= Len(s))
      BY <1>0, <1>1, <2>2
    <3>2. i - Len(s) \in 1 .. Len(Tail(t)) /\ (i + 1) - Len(s) = (i - Len(s)) + 1
      BY <1>0, <1>1, <2>2
    <3>3. w[i] = Tail(t)[i - Len(s)] /\ u[i + 1] = t[(i + 1) - Len(s)]
      BY <1>3, <3>1
    <3>4. Tail(t)[i - Len(s)] = t[(i - Len(s)) + 1]
      BY <1>0, <3>2
    <3> QED
      BY <1>4, <2>2, <3>2, <3>3, <3>4
  <2> QED
    BY <2>1, <2>2
<1>6. \A i, j \in DOMAIN w : i < j => f[i] < f[j]
  BY <1>0, <1>1, <1>4
<1>7. ASSUME NEW j \in DOMAIN u, j # n
      PROVE  \E i \in DOMAIN w : f[i] = j
  <2>1. CASE j < n
    <3>1. j \in DOMAIN w
      BY <1>0, <1>1, <2>1
    <3> QED
      BY <1>4, <2>1, <3>1
  <2>2. CASE ~(j < n)
    <3>1. j - 1 \in DOMAIN w /\ ~(j - 1 < n) /\ (j - 1) + 1 = j
      BY <1>0, <1>1, <1>7, <2>2
    <3> QED
      BY <1>4, <3>1
  <2> QED
    BY <2>1, <2>2
<1>8. ASSUME NEW i \in DOMAIN w, ~(n < f[i])
      PROVE  i \in DOMAIN s /\ w[i] = s[i]
  <2>1. i <= Len(s)
    BY <1>0, <1>1, <1>4, <1>8
  <2> QED
    BY <1>0, <1>1, <1>3, <2>1
<1>9. Keeps(w, u, r)
  BY <1>2, <1>4, <1>5, <1>6, <1>7, <1>8 DEF Keeps
<1> QED
  BY <1>9 DEF u, w

\* The first of what is on the way joins what is there.
LEMMA HeadMoves ==
  ASSUME NEW S, NEW s \in Seq(S), NEW t \in Seq(S), t # <<>>
  PROVE  Append(s, Head(t)) \o Tail(t) = s \o t
<1>1. /\ Head(t) \in S /\ Head(t) = t[1] /\ Tail(t) \in Seq(S)
      /\ Len(t) \in Nat \ {0} /\ Len(s) \in Nat /\ Len(Tail(t)) = Len(t) - 1
      /\ \A i \in 1 .. Len(t) - 1 : Tail(t)[i] = t[i + 1]
  BY HeadTailProperties, LenProperties, EmptySeq
<1> DEFINE a == Append(s, Head(t))
           b == Tail(t)
<1>2. /\ a \in Seq(S) /\ Len(a) = Len(s) + 1 /\ a[Len(s) + 1] = t[1]
      /\ \A i \in 1 .. Len(s) : a[i] = s[i]
  BY <1>1, AppendProperties
<1> HIDE DEF a, b
<1>3. /\ a \o b \in Seq(S) /\ Len(a \o b) = Len(a) + Len(b)
      /\ \A i \in 1 .. Len(a) + Len(b) : (a \o b)[i] = IF i <= Len(a) THEN a[i] ELSE b[i - Len(a)]
  BY <1>1, <1>2, ConcatProperties DEF b
<1>4. /\ s \o t \in Seq(S) /\ Len(s \o t) = Len(s) + Len(t)
      /\ \A i \in 1 .. Len(s) + Len(t) : (s \o t)[i] = IF i <= Len(s) THEN s[i] ELSE t[i - Len(s)]
  BY ConcatProperties
<1>5. Len(b) = Len(t) - 1 /\ \A i \in 1 .. Len(t) - 1 : b[i] = t[i + 1]
  BY <1>1 DEF b
<1>6. ASSUME NEW i \in 1 .. Len(s) + Len(t)
      PROVE  (a \o b)[i] = (s \o t)[i]
  <2>0. i \in 1 .. Len(a) + Len(b)
    BY <1>1, <1>2, <1>5
  <2>1. CASE i <= Len(s)
    BY <1>1, <1>2, <1>3, <1>4, <2>0, <2>1
  <2>2. CASE i = Len(s) + 1
    <3>1. i - Len(s) = 1 /\ i <= Len(a) /\ ~(i <= Len(s))
      BY <1>1, <1>2, <2>2
    <3> QED
      BY <1>2, <1>3, <1>4, <2>0, <2>2, <3>1
  <2>3. CASE i > Len(s) + 1
    <3>1. /\ i - Len(a) \in 1 .. Len(t) - 1 /\ (i - Len(a)) + 1 = i - Len(s)
          /\ ~(i <= Len(a)) /\ ~(i <= Len(s))
      BY <1>1, <1>2, <2>3
    <3>2. (a \o b)[i] = b[i - Len(a)] /\ (s \o t)[i] = t[i - Len(s)]
      BY <1>3, <1>4, <2>0, <3>1
    <3> QED
      BY <1>5, <3>1, <3>2
  <2>4. i <= Len(s) \/ i = Len(s) + 1 \/ i > Len(s) + 1
    BY <1>1
  <2> QED
    BY <2>1, <2>2, <2>3, <2>4
<1>7. a \o b = s \o t
  <2>1. Len(a \o b) = Len(s \o t) /\ Len(a \o b) = Len(s) + Len(t)
    BY <1>1, <1>2, <1>3, <1>4, <1>5
  <2> QED
    BY <1>3, <1>4, <1>6, <2>1, SeqEqual
<1> QED
  BY <1>7 DEF a, b

LEMMA AppendAll ==
  ASSUME NEW S, NEW s \in Seq(S), NEW x \in S
  PROVE  /\ Append(s, x) = [i \in 1 .. Len(s) + 1 |-> Append(s, x)[i]]
         /\ \A i \in 1 .. Len(s) : Append(s, x)[i] = s[i]
         /\ Append(s, x)[Len(s) + 1] = x
<1>1. Append(s, x) \in Seq(S) /\ Len(Append(s, x)) = Len(s) + 1
  BY AppendProperties
<1> DEFINE a == Append(s, x)
<1> HIDE DEF a
<1>2. a \in [1 .. Len(s) + 1 -> S]
  <2>1. a \in Seq(S) /\ Len(a) = Len(s) + 1
    BY <1>1 DEF a
  <2>2. a \in [1 .. Len(a) -> S]
    BY <2>1, LenProperties
  <2> QED
    BY <2>1, <2>2
<1>3. a = [i \in 1 .. Len(s) + 1 |-> a[i]]
  BY <1>2
<1>4. (\A i \in 1 .. Len(s) : a[i] = s[i]) /\ a[Len(s) + 1] = x
  BY AppendProperties, LenProperties DEF a
<1> QED
  BY <1>3, <1>4 DEF a

\* A client that reads a response still sees what was coming, but for the one
\* response it passes over.
LEMMA ReadKeeps ==
  ASSUME ChatTypeOK, OneRoomOnScreen, NEW c \in Users, handle_res(c)
  PROVE  \A d \in Users, r \in Rooms : Keeps(Coming(d)', Coming(d), r)
<1> SUFFICES ASSUME NEW d \in Users, NEW r \in Rooms PROVE Keeps(Coming(d)', Coming(d), r)
  OBVIOUS
<1>0. /\ screen[c] \in Seq([room : Rooms, chat : Chats])
      /\ down[c] \in Seq(Response) /\ down[c] # <<>> /\ Coming(d) \in Seq(Response)
  BY ComingIs DEF handle_res, ChatTypeOK
<1>1. CASE d # c
  <2>1. screen'[d] = screen[d] /\ down'[d] = down[d]
    BY <1>1 DEF handle_res, ChatTypeOK
  <2>2. Coming(d)' = Coming(d)
    BY <2>1 DEF Coming
  <2> QED
    BY <1>0, <2>2, KeepsAll
<1> DEFINE p == Head(down[c])
<1>2. p \in Response /\ down'[c] = Tail(down[c])
  BY <1>0, HeadTailProperties DEF handle_res, ChatTypeOK
<1>3. CASE d = c /\ p.cmd = "chat" /\ p.room = cur_room_id[c]
  <2> DEFINE e == [room |-> p.room, chat |-> p.chat]
  <2>1. screen'[c] = Append(screen[c], e)
    BY <1>3 DEF handle_res, Shows, ChatTypeOK
  <2>2. e \in [room : Rooms, chat : Chats]
    BY <1>2, <1>3, ResponseFields
  <2>3. Shown(e) = p
    BY <1>2, <1>3 DEF Shown, Response
  <2> HIDE DEF e, p
  <2>4. OnScreen(c)' = Append(OnScreen(c), p)
    <3> DEFINE n == Len(screen[c])
    <3>1. /\ n \in Nat /\ DOMAIN screen[c] = 1 .. n /\ DOMAIN screen'[c] = 1 .. n + 1
          /\ \A i \in 1 .. n : screen'[c][i] = screen[c][i]
          /\ screen'[c][n + 1] = e
      BY <1>0, <2>1, <2>2, AppendProperties, LenProperties
    <3>2. OnScreen(c)' = [i \in 1 .. n + 1 |-> Shown(screen'[c][i])]
      BY <3>1 DEF OnScreen, AsTold, Shown
    <3>3. /\ OnScreen(c) \in Seq(Response) /\ Len(OnScreen(c)) = n
          /\ \A i \in 1 .. n : OnScreen(c)[i] = Shown(screen[c][i])
      BY <3>1, ComingIs DEF OnScreen, AsTold
    <3>4. /\ Append(OnScreen(c), p) = [i \in 1 .. n + 1 |-> Append(OnScreen(c), p)[i]]
          /\ \A i \in 1 .. n : Append(OnScreen(c), p)[i] = OnScreen(c)[i]
          /\ Append(OnScreen(c), p)[n + 1] = p
      BY <1>2, <3>3, AppendAll
    <3> HIDE DEF n
    <3>5. \A i \in 1 .. n + 1 : Append(OnScreen(c), p)[i] = Shown(screen'[c][i])
      <4> TAKE i \in 1 .. n + 1
      <4>1. i \in 1 .. n \/ i = n + 1
        BY <3>1
      <4> QED
        BY <2>3, <3>1, <3>3, <3>4, <4>1
    <3>6. [i \in 1 .. n + 1 |-> Append(OnScreen(c), p)[i]] = [i \in 1 .. n + 1 |-> Shown(screen'[c][i])]
      BY <3>5
    <3>7. Append(OnScreen(c), p) = [i \in 1 .. n + 1 |-> Shown(screen'[c][i])]
      BY <3>4, <3>6
    <3> QED
      BY <3>2, <3>7
  <2>5. Coming(c)' = OnScreen(c)' \o Tail(down[c])
    BY <1>2 DEF Coming, OnScreen, AsTold, Shown
  <2>6. Append(OnScreen(c), p) \o Tail(down[c]) = OnScreen(c) \o down[c]
    BY <1>0, ComingIs, HeadMoves DEF p
  <2>7. Coming(c)' = Coming(c)
    BY <2>4, <2>5, <2>6, ComingIs
  <2> QED
    BY <1>0, <1>3, <2>7, KeepsAll
<1>4. CASE d = c /\ ~(p.cmd = "chat" /\ p.room = cur_room_id[c])
  <2>1. screen' = screen
    BY <1>4 DEF handle_res, Shows
  <2>2. Coming(c)' = OnScreen(c) \o Tail(down[c])
    BY <1>2, <2>1 DEF Coming, OnScreen, AsTold, Shown
  <2>3. OnScreen(c) \in Seq(Response) /\ Coming(c) = OnScreen(c) \o down[c]
    BY ComingIs
  <2>4. ~About(p, r) \/ \A i \in DOMAIN OnScreen(c) : ~About(OnScreen(c)[i], r)
    <3> SUFFICES ASSUME p.cmd = "chat", p.room = r, NEW i \in DOMAIN OnScreen(c)
                 PROVE  OnScreen(c)[i].room # r
      BY DEF About
    <3>1. OnScreen(c)[i].room = cur_room_id[c]
      BY DEF OnScreen, AsTold, Shown, OneRoomOnScreen
    <3> QED
      BY <1>4, <3>1
  <2>5. Keeps(OnScreen(c) \o Tail(down[c]), OnScreen(c) \o down[c], r)
    BY <1>0, <2>3, <2>4, KeepsOthers
  <2> QED
    BY <1>4, <2>2, <2>3, <2>5
<1> QED
  BY <1>1, <1>3, <1>4

\* What users type leaves what is coming as it is, or clears the chat box.
LEMMA TypedKeeps ==
  ASSUME ChatTypeOK, NEW c \in Users, ClientStep(c), ~handle_res(c)
  PROVE  \A d \in Users, r \in Rooms : Keeps(Coming(d)', Coming(d), r)
<1> SUFFICES ASSUME NEW d \in Users, NEW r \in Rooms PROVE Keeps(Coming(d)', Coming(d), r)
  OBVIOUS
<1>0. down' = down
  BY TypedType DEF Send
<1>1. CASE screen'[d] = screen[d]
  <2>1. Coming(d)' = Coming(d)
    BY <1>0, <1>1 DEF Coming
  <2> QED
    BY <2>1, ComingIs, KeepsAll
<1>2. CASE screen'[d] = <<>>
  <2>1. OnScreen(d)' = <<>>
    BY <1>2 DEF OnScreen, AsTold
  <2>2. Coming(d)' = OnScreen(d)' \o down[d]
    BY <1>0 DEF Coming, OnScreen, AsTold, Shown
  <2>3. <<>> \o down[d] = down[d]
    BY ConcatEmptySeq, ComingIs
  <2> QED
    BY <2>1, <2>2, <2>3, ComingIs, KeepsEnd
<1>3. screen'[d] = screen[d] \/ screen'[d] = <<>>
  BY DEF ClientStep, TypeCreate, TypeList, TypeChat, TypeDelete, TypeConnect, TypeInvite,
         clientVars, ClearBox, ChatTypeOK
<1> QED
  BY <1>1, <1>2, <1>3

\* Whatever is kept was there.
LEMMA KeptWasThere ==
  ASSUME NEW s \in Seq(Response), NEW t \in Seq(Response), NEW r, Keeps(t, s, r)
  PROVE  \A i \in DOMAIN t : \E j \in DOMAIN s : t[i] = s[j]
BY DEF Keeps

-----------------------------------------------------------------------------
(* Nothing is missed.                                                      *)

\* Chat m has been said, and is somewhere still.
IsOut(m) ==
  \/ \E r \in Rooms : \E p \in DOMAIN log[r] : log[r][p] = m
  \/ \E c \in Users : \E i \in DOMAIN Coming(c) :
       Coming(c)[i].cmd = "chat" /\ Coming(c)[i].chat = m

\* Of what a user typed, m is older than n.
Before(m, n) == m.text[1] = n.text[1] => m.text[2] < n.text[2]

\* No gap in what is coming from any room, the current one or not.
NoGaps == \A c \in Users, r \in Rooms : NoGap(Coming(c), r, log[r])

\* Who is told of a room is in it.
ToldAreMembers ==
  \A c \in Users, r \in Rooms : \A i \in DOMAIN Coming(c), p \in DOMAIN log[r] :
    Tells(Coming(c)[i], r, log[r][p]) => c \in members[r]

\* A log has a chat once.
OnceInLog == \A r \in Rooms : \A p, q \in DOMAIN log[r] : log[r][p] = log[r][q] => p = q

\* Chats on their way to the manager come from their author, in the order they
\* were typed in, and after everything of the same author that is out.
InTurn ==
  /\ \A c \in Users : \A i \in DOMAIN up[c] : up[c][i].cmd = "chat" =>
       /\ up[c][i].chat.text[1] = c
       /\ up[c][i].chat.text[2] <= typed[c]
       /\ \A j \in DOMAIN up[c] : i < j /\ up[c][j].cmd = "chat" =>
            Before(up[c][i].chat, up[c][j].chat)
       /\ \A m \in Chats : IsOut(m) => Before(m, up[c][i].chat)
  /\ \A m \in Chats : IsOut(m) => m.text[2] <= typed[m.text[1]]

Attentive == NoGaps /\ ToldAreMembers /\ OnceInLog

\* A request is answered without chats, or with the history of a room, or by
\* passing on a chat.
Quiet(responses) ==
  /\ \A v \in Users : \A i \in DOMAIN responses[v] : responses[v][i].cmd # "chat"
  /\ \A r \in Rooms : log'[r] = <<>> \/ (log'[r] = log[r] /\ members[r] \subseteq members'[r])

Replay(c, responses) == \E r \in Rooms : Connect(c, r) /\ responses = Chatted(r)

PassOn(c, responses) ==
  /\ Asked(c, "chat")
  /\ Say(Head(up[c]).at8, Head(up[c]).chat)
  /\ responses = Chatted(Head(up[c]).at8)

LEMMA QuietTo ==
  ASSUME NEW v \in Users, NEW p, p.cmd # "chat",
         \A r \in Rooms : log'[r] = <<>> \/ (log'[r] = log[r] /\ members[r] \subseteq members'[r])
  PROVE  Quiet(To(v, p))
<1> SUFFICES ASSUME NEW u \in Users, NEW i \in DOMAIN To(v, p)[u]
             PROVE  To(v, p)[u][i].cmd # "chat"
  BY DEF Quiet
<1>1. To(v, p)[u] = IF u = v THEN <<p>> ELSE <<>>
  BY DEF To, Nothing
<1>2. u = v /\ i = 1
  BY <1>1
<1>3. To(v, p)[u][i] = p
  BY <1>1, <1>2
<1> QED
  BY <1>3

LEMMA ServeOutcome ==
  ASSUME ChatTypeOK, TypeOK', NEW c \in Users, Serve(c)
  PROVE  \E responses \in [Users -> Seq(Response)] :
           /\ Answered(c, responses)
           /\ Quiet(responses) \/ Replay(c, responses) \/ PassOn(c, responses)
<1>0. /\ [cmd |-> "lobby"] \in Response
      /\ [cmd |-> "register", id |-> c] \in Response
  BY DEF Response
<1>C. \A r \in Rooms : Chatted(r) \in [Users -> Seq(Response)]
  BY ChattedType
<1>L. ASSUME \A r \in Rooms : log'[r] = <<>> \/ (log'[r] = log[r] /\ members[r] \subseteq members'[r])
      PROVE  \A v \in Users : /\ Quiet(To(v, [cmd |-> "lobby"]))
                              /\ To(v, [cmd |-> "lobby"]) \in [Users -> Seq(Response)]
  <2> TAKE v \in Users
  <2>1. [cmd |-> "lobby"].cmd # "chat"
    OBVIOUS
  <2> QED
    BY <1>0, <1>L, <2>1, QuietTo, ToType
<1>A. Ask => \A r \in Rooms : log'[r] = log[r] /\ members[r] \subseteq members'[r]
  BY DEF Ask
<1>1. CASE ServeRegister(c)
  <2>1. Ask /\ Answered(c, To(c, [cmd |-> "register", id |-> c]))
    BY <1>1 DEF ServeRegister
  <2>2. [cmd |-> "register", id |-> c].cmd # "chat"
    OBVIOUS
  <2> QED
    BY <1>0, <1>A, <2>1, <2>2, QuietTo, ToType
<1>2. CASE ServeCreate(c) \/ ServeList(c) \/ ServeDelete(c) \/ ServeInvite(c)
  <2>1. Answered(c, To(c, [cmd |-> "lobby"]))
    BY <1>2 DEF ServeCreate, ServeList, ServeDelete, ServeInvite
  <2>2. \A r \in Rooms : log'[r] = <<>> \/ (log'[r] = log[r] /\ members[r] \subseteq members'[r])
    <3>0. /\ log \in [Rooms -> Seq(Chats)] /\ members \in [Rooms -> SUBSET Users]
      BY DEF ChatTypeOK, TypeOK
    <3>1. ASSUME NEW q, Create(c, q) \/ Delete(c, q)
          PROVE  \A r \in Rooms : log'[r] = <<>> \/ (log'[r] = log[r] /\ members'[r] = members[r])
      BY <3>0, <3>1 DEF Create, Delete
    <3>2. ASSUME NEW q, NEW v, Invite(c, q, v)
          PROVE  \A r \in Rooms : log'[r] = log[r] /\ members[r] \subseteq members'[r]
      BY <3>0, <3>2 DEF Invite
    <3> QED
      BY <1>2, <1>A, <3>1, <3>2 DEF ServeCreate, ServeList, ServeDelete, ServeInvite
  <2> QED
    BY <1>L, <2>1, <2>2
<1>3. CASE ServeConnect(c)
  <2> DEFINE r == Head(up[c]).at4
  <2>1. r \in Rooms
    BY <1>3, FirstRequest, RequestFields DEF ServeConnect
  <2>2. \/ Connect(c, r) /\ Answered(c, Chatted(r))
        \/ Ask /\ Answered(c, To(c, [cmd |-> "lobby"]))
    BY <1>3 DEF ServeConnect
  <2> HIDE DEF r
  <2> QED
    BY <1>A, <1>C, <1>L, <2>1, <2>2 DEF Replay
<1>4. CASE ServeChat(c)
  <2> DEFINE r == Head(up[c]).at8
             m == Head(up[c]).chat
  <2>1. r \in Rooms /\ m.from \in Users
    BY <1>4, FirstRequest, RequestFields DEF ServeChat, Chats
  <2>2. Asked(c, "chat")
    BY <1>4 DEF ServeChat
  <2>3. \/ Say(r, m) /\ Answered(c, Chatted(r))
        \/ Ask /\ Answered(c, To(m.from, [cmd |-> "lobby"]))
    BY <1>4 DEF ServeChat
  <2>4. Say(r, m) => PassOn(c, Chatted(r))
    BY <2>2 DEF PassOn
  <2> HIDE DEF r, m
  <2> QED
    BY <1>A, <1>C, <1>L, <2>1, <2>3, <2>4
<1> QED
  BY <1>1, <1>2, <1>3, <1>4 DEF Serve

\* What was coming, and then the answer.
LEMMA ThenTheAnswer ==
  ASSUME ChatTypeOK, NEW c \in Users, NEW responses \in [Users -> Seq(Response)],
         Answered(c, responses), NEW v \in Users, NEW i \in DOMAIN Coming(v)'
  PROVE  \/ i \in DOMAIN Coming(v) /\ Coming(v)'[i] = Coming(v)[i]
         \/ \E x \in DOMAIN responses[v] : Coming(v)'[i] = responses[v][x]
<1> DEFINE s == Coming(v)
           t == responses[v]
           u == Coming(v)'
<1>1. u = s \o t
  BY AnsweredComing
<1>2. s \in Seq(Response) /\ t \in Seq(Response)
  BY ComingIs
<1>3. i \in DOMAIN u
  OBVIOUS
<1> HIDE DEF s, t, u
<1>4. \/ i \in DOMAIN s /\ u[i] = s[i]
      \/ i - Len(s) \in DOMAIN t /\ u[i] = t[i - Len(s)]
  BY <1>1, <1>2, <1>3, ConcatIs
<1>5. (i \in DOMAIN s /\ u[i] = s[i]) \/ \E x \in DOMAIN t : u[i] = t[x]
  BY <1>4
<1> QED
  BY <1>5 DEF s, t, u

LEMMA LogTypes ==
  ASSUME ChatTypeOK
  PROVE  /\ log \in [Rooms -> Seq(Chats)]
         /\ \A r \in Rooms : log[r] \in Seq(Chats)
         /\ \A r \in Rooms : DOMAIN log[r] = 1 .. Len(log[r]) /\ Len(log[r]) \in Nat
BY LenProperties DEF ChatTypeOK, TypeOK

\* An answer without chats changes nothing about them, but for rooms that are
\* created or deleted.
LEMMA QuietStep ==
  ASSUME ChatTypeOK, Attentive, NEW c \in Users, NEW responses \in [Users -> Seq(Response)],
         Answered(c, responses), Quiet(responses)
  PROVE  Attentive' /\ \A m \in Chats : IsOut(m)' => IsOut(m)
<1>1. ASSUME NEW v \in Users, NEW i \in DOMAIN Coming(v)', Coming(v)'[i].cmd = "chat"
      PROVE  i \in DOMAIN Coming(v) /\ Coming(v)'[i] = Coming(v)[i]
  BY <1>1, ThenTheAnswer DEF Quiet
<1>2. ASSUME NEW r \in Rooms, log'[r] # <<>>
      PROVE  log'[r] = log[r] /\ members[r] \subseteq members'[r]
  BY <1>2 DEF Quiet
<1>3. \A r \in Rooms : log'[r] = <<>> => DOMAIN log'[r] = {}
  OBVIOUS
<1>4. NoGaps'
  <2> SUFFICES ASSUME NEW v \in Users, NEW r \in Rooms
               PROVE  NoGap(Coming(v)', r, log'[r])
    BY DEF NoGaps
  <2>1. CASE log'[r] = <<>>
    BY <1>3, <2>1 DEF NoGap
  <2>2. CASE log'[r] # <<>>
    <3>1. NoGap(Coming(v), r, log[r])
      BY DEF Attentive, NoGaps
    <3>2. \A x \in DOMAIN responses[v], p \in DOMAIN log[r] : ~Tells(responses[v][x], r, log[r][p])
      BY DEF Quiet, Tells
    <3>3. NoGap(Coming(v) \o responses[v], r, log[r])
      BY <3>1, <3>2, ComingIs, LogTypes, GapAfter
    <3> QED
      BY <1>2, <2>2, <3>3, AnsweredComing
  <2> QED
    BY <2>1, <2>2
<1>5. ToldAreMembers'
  <2> SUFFICES ASSUME NEW v \in Users, NEW r \in Rooms, NEW i \in DOMAIN Coming(v)',
                      NEW p \in DOMAIN log'[r], Tells(Coming(v)'[i], r, log'[r][p])
               PROVE  v \in members'[r]
    BY DEF ToldAreMembers, Tells
  <2>1. log'[r] = log[r] /\ members[r] \subseteq members'[r]
    BY <1>2, <1>3
  <2>2. i \in DOMAIN Coming(v) /\ Coming(v)'[i] = Coming(v)[i]
    BY <1>1 DEF Tells
  <2> QED
    BY <2>1, <2>2 DEF Attentive, ToldAreMembers
<1>6. OnceInLog'
  BY <1>2, <1>3 DEF Attentive, OnceInLog
<1>7. \A m \in Chats : IsOut(m)' => IsOut(m)
  BY <1>1, <1>2, <1>3 DEF IsOut
<1> QED
  BY <1>4, <1>5, <1>6, <1>7 DEF Attentive

-----------------------------------------------------------------------------
(* A chat that is passed on.                                               *)

\* What a member is told of a chat.
Told(r, m) == [cmd |-> "chat", room |-> r, chat |-> m]

LEMMA PassedOn ==
  ASSUME NEW r, NEW m, Say(r, m), NEW v \in Users
  PROVE  Chatted(r)[v] = IF v \in members[r] THEN <<Told(r, m)>> ELSE <<>>
<1>1. shown'[v] = IF v \in members[r] THEN <<m>> ELSE <<>>
  BY DEF Say, Audience
<1>2. CASE v \in members[r]
  <2>1. shown'[v] = <<m>> /\ DOMAIN shown'[v] = {1} /\ shown'[v][1] = m
    BY <1>1, <1>2
  <2>2. Chatted(r)[v] = [i \in {1} |-> Told(r, shown'[v][i])]
    BY <2>1 DEF Chatted, Told
  <2>3. [i \in {1} |-> Told(r, shown'[v][i])] = [i \in {1} |-> Told(r, m)]
    BY <2>1
  <2>4. <<Told(r, m)>> = [i \in {1} |-> Told(r, m)]
    OBVIOUS
  <2> QED
    BY <1>2, <2>2, <2>3, <2>4
<1>3. CASE v \notin members[r]
  BY <1>1, <1>3 DEF Chatted
<1> QED
  BY <1>2, <1>3

\* A chat that is not out yet is told to all members, after everything else.
LEMMA SayStep ==
  ASSUME ChatTypeOK, Attentive, NEW c \in Users, NEW responses \in [Users -> Seq(Response)],
         Answered(c, responses), NEW r \in Rooms, NEW m \in Chats, Say(r, m),
         responses = Chatted(r), ~IsOut(m)
  PROVE  Attentive' /\ \A n \in Chats : IsOut(n)' => IsOut(n) \/ n = m
<1>0. /\ log'[r] = Append(log[r], m) /\ members' = members
      /\ \A q \in Rooms \ {r} : log'[q] = log[q]
      /\ log[r] \in Seq(Chats)
  BY LogTypes DEF Say
<1>1. \A v \in Users : responses[v] = IF v \in members[r] THEN <<Told(r, m)>> ELSE <<>>
  BY PassedOn
<1>2. ASSUME NEW v \in Users, NEW i \in DOMAIN Coming(v)'
      PROVE  \/ i \in DOMAIN Coming(v) /\ Coming(v)'[i] = Coming(v)[i]
             \/ v \in members[r] /\ Coming(v)'[i] = Told(r, m)
  <2>1. ASSUME NEW x \in DOMAIN responses[v]
        PROVE  v \in members[r] /\ responses[v][x] = Told(r, m)
    BY <1>1
  <2> QED
    BY <2>1, ThenTheAnswer
<1>3. ASSUME NEW p \in DOMAIN log'[r]
      PROVE  (p \in DOMAIN log[r] /\ log'[r][p] = log[r][p]) \/ (p = Len(log[r]) + 1 /\ log'[r][p] = m)
  BY <1>0, AppendProperties, LenProperties
<1>4. \A p \in DOMAIN log[r] : log[r][p] # m
  BY DEF IsOut
<1>5. \A v \in Users : \A i \in DOMAIN Coming(v) : ~Tells(Coming(v)[i], r, m)
  BY DEF IsOut, Tells
<1>6. NoGaps'
  <2> SUFFICES ASSUME NEW v \in Users, NEW q \in Rooms
               PROVE  NoGap(Coming(v)', q, log'[q])
    BY DEF NoGaps
  <2>0. /\ NoGap(Coming(v), q, log[q]) /\ Coming(v)' = Coming(v) \o responses[v]
        /\ Coming(v) \in Seq(Response) /\ log[q] \in Seq(Chats)
    BY AnsweredComing, ComingIs, LogTypes DEF Attentive, NoGaps
  <2>1. CASE q # r
    <3>1. \A x \in DOMAIN responses[v], p \in DOMAIN log[q] : ~Tells(responses[v][x], q, log[q][p])
      BY <1>1, <2>1 DEF Tells, Told
    <3>2. NoGap(Coming(v) \o responses[v], q, log[q])
      BY <2>0, <3>1, GapAfter
    <3> QED
      BY <1>0, <2>0, <2>1, <3>2
  <2>2. CASE q = r /\ v \in members[r]
    <3>1. Told(r, m) \in Response /\ Tells(Told(r, m), r, m)
      BY DEF Told, Tells, Response
    <3>2. NoGap(Coming(v) \o <<Told(r, m)>>, r, Append(log[r], m))
      BY <1>4, <1>5, <2>0, <2>2, <3>1, GapSaid
    <3> QED
      BY <1>0, <1>1, <2>0, <2>2, <3>2
  <2>3. CASE q = r /\ v \notin members[r]
    <3> SUFFICES ASSUME NEW i \in DOMAIN Coming(v)', NEW p \in DOMAIN log'[r],
                        Tells(Coming(v)'[i], r, log'[r][p])
                 PROVE  FALSE
      BY <2>3 DEF NoGap
    <3>1. i \in DOMAIN Coming(v) /\ Coming(v)'[i] = Coming(v)[i]
      BY <1>2, <2>3
    <3>2. p \in DOMAIN log[r] /\ log'[r][p] = log[r][p]
      BY <1>3, <1>5, <3>1
    <3> QED
      BY <2>3, <3>1, <3>2 DEF Attentive, ToldAreMembers
  <2> QED
    BY <2>1, <2>2, <2>3
<1>7. ToldAreMembers'
  <2> SUFFICES ASSUME NEW v \in Users, NEW q \in Rooms, NEW i \in DOMAIN Coming(v)',
                      NEW p \in DOMAIN log'[q], Tells(Coming(v)'[i], q, log'[q][p])
               PROVE  v \in members[q]
    BY <1>0 DEF ToldAreMembers, Tells
  <2>1. CASE Coming(v)'[i] = Told(r, m) /\ v \in members[r]
    BY <2>1 DEF Tells, Told
  <2>2. CASE i \in DOMAIN Coming(v) /\ Coming(v)'[i] = Coming(v)[i]
    <3>1. p \in DOMAIN log[q] /\ log'[q][p] = log[q][p]
      BY <1>0, <1>3, <1>5, <2>2
    <3> QED
      BY <2>2, <3>1 DEF Attentive, ToldAreMembers
  <2> QED
    BY <1>2, <2>1, <2>2
<1>8. OnceInLog'
  <2> SUFFICES ASSUME NEW q \in Rooms, NEW p \in DOMAIN log'[q], NEW g \in DOMAIN log'[q],
                      log'[q][p] = log'[q][g]
               PROVE  p = g
    BY DEF OnceInLog
  <2>1. CASE q = r
    BY <1>3, <1>4, <2>1 DEF Attentive, OnceInLog
  <2>2. CASE q # r
    BY <1>0, <2>2 DEF Attentive, OnceInLog
  <2> QED
    BY <2>1, <2>2
<1>9. ASSUME NEW n \in Chats, IsOut(n)'
      PROVE  IsOut(n) \/ n = m
  <2>1. ASSUME NEW q \in Rooms, NEW p \in DOMAIN log'[q], log'[q][p] = n
        PROVE  n = m \/ \E g \in DOMAIN log[q] : log[q][g] = n
    BY <1>0, <1>3, <2>1
  <2>2. ASSUME NEW v \in Users, NEW i \in DOMAIN Coming(v)', Coming(v)'[i].cmd = "chat",
               Coming(v)'[i].chat = n
        PROVE  n = m \/ \E j \in DOMAIN Coming(v) : Coming(v)[j].cmd = "chat" /\ Coming(v)[j].chat = n
    BY <1>2, <2>2 DEF Told
  <2> QED
    BY <1>9, <2>1, <2>2 DEF IsOut
<1> QED
  BY <1>6, <1>7, <1>8, <1>9 DEF Attentive

-----------------------------------------------------------------------------
(* A history that is replayed.                                             *)

\* The end of a log, element by element.
LEMMA LastOfIs ==
  ASSUME NEW s \in Seq(Chats), NEW n \in Nat, n > 0
  PROVE  \E d \in Nat :
           /\ Len(s) = Len(LastOf(s, n)) + d
           /\ LastOf(s, n) \in Seq(Chats)
           /\ \A x \in DOMAIN LastOf(s, n) : d + x \in DOMAIN s /\ LastOf(s, n)[x] = s[d + x]
<1>0. Len(s) \in Nat /\ DOMAIN s = 1 .. Len(s)
  BY LenProperties
<1>1. CASE Len(s) <= n
  <2>1. LastOf(s, n) = s
    BY <1>1 DEF LastOf
  <2>2. Len(s) = Len(s) + 0 /\ \A x \in DOMAIN s : 0 + x = x
    BY <1>0
  <2>3. /\ Len(s) = Len(LastOf(s, n)) + 0
        /\ LastOf(s, n) \in Seq(Chats)
        /\ \A x \in DOMAIN LastOf(s, n) : 0 + x \in DOMAIN s /\ LastOf(s, n)[x] = s[0 + x]
    BY <2>1, <2>2
  <2> QED
    BY <2>3
<1>2. CASE ~(Len(s) <= n)
  <2> DEFINE d == Len(s) - n
             t == SubSeq(s, d + 1, Len(s))
  <2>1. LastOf(s, n) = t /\ d \in Nat /\ d + 1 \in Int /\ Len(s) \in Int /\ d + 1 <= Len(s)
    BY <1>0, <1>2 DEF LastOf
  <2>2. \A i \in d + 1 .. Len(s) : s[i] \in Chats
    BY <1>0, <2>1, ElementOfSeq
  <2>3. t \in Seq(Chats) /\ Len(t) = n /\ \A x \in 1 .. n : t[x] = s[d + 1 + x - 1]
    BY <1>0, <1>2, <2>1, <2>2, SubSeqProperties
  <2>4. DOMAIN t = 1 .. n
    BY <2>3, LenProperties
  <2>5. \A x \in 1 .. n : d + x \in DOMAIN s /\ d + 1 + x - 1 = d + x
    BY <1>0, <1>2
  <2>6. Len(s) = n + d
    BY <1>0
  <2> HIDE DEF d, t
  <2> QED
    BY <2>1, <2>3, <2>4, <2>5, <2>6
<1> QED
  BY <1>1, <1>2

LEMMA ReplayStep ==
  ASSUME ChatTypeOK, Attentive, NEW c \in Users, NEW responses \in [Users -> Seq(Response)],
         Answered(c, responses), NEW r \in Rooms, Connect(c, r), responses = Chatted(r)
  PROVE  Attentive' /\ \A n \in Chats : IsOut(n)' => IsOut(n)
<1>0. log' = log /\ members' = members /\ c \in members[r] /\ log[r] \in Seq(Chats)
  BY LogTypes DEF Connect
<1>1. PICK d \in Nat :
        /\ Len(log[r]) = Len(Recalled(r)) + d
        /\ Recalled(r) \in Seq(Chats)
        /\ \A x \in DOMAIN Recalled(r) : d + x \in DOMAIN log[r] /\ Recalled(r)[x] = log[r][d + x]
  BY <1>0, LatestFacts, LastOfIs DEF Recalled
<1>2. \A v \in Users : shown'[v] = IF v = c THEN Recalled(r) ELSE <<>>
  BY DEF Connect, Nothing
<1>3. /\ \A v \in Users \ {c} : DOMAIN responses[v] = {}
      /\ DOMAIN responses[c] = DOMAIN Recalled(r)
      /\ \A x \in DOMAIN Recalled(r) : responses[c][x] = Told(r, log[r][d + x])
  BY <1>1, <1>2 DEF Chatted, Told
<1>4. DOMAIN Recalled(r) = 1 .. Len(Recalled(r)) /\ Len(Recalled(r)) \in Nat
  BY <1>1, LenProperties
<1>5. ASSUME NEW v \in Users, NEW i \in DOMAIN Coming(v)'
      PROVE  \/ i \in DOMAIN Coming(v) /\ Coming(v)'[i] = Coming(v)[i]
             \/ v = c /\ \E p \in DOMAIN log[r] : Coming(v)'[i] = Told(r, log[r][p])
  BY <1>1, <1>3, ThenTheAnswer
<1>6. NoGaps'
  <2> SUFFICES ASSUME NEW v \in Users, NEW q \in Rooms
               PROVE  NoGap(Coming(v)', q, log[q])
    BY <1>0 DEF NoGaps
  <2>0. /\ NoGap(Coming(v), q, log[q]) /\ Coming(v)' = Coming(v) \o responses[v]
        /\ Coming(v) \in Seq(Response) /\ log[q] \in Seq(Chats)
    BY AnsweredComing, ComingIs, LogTypes DEF Attentive, NoGaps
  <2>1. ASSUME NEW x \in DOMAIN responses[v], NEW p \in DOMAIN log[q],
               Tells(responses[v][x], q, log[q][p])
        PROVE  p = Len(log[q]) \/ (x + 1 \in DOMAIN responses[v] /\ Tells(responses[v][x + 1], q, log[q][p + 1]))
    <3>1. v = c /\ x \in DOMAIN Recalled(r) /\ responses[v][x] = Told(r, log[r][d + x])
      BY <1>3
    <3>2. q = r /\ log[r][p] = log[r][d + x]
      BY <2>1, <3>1 DEF Tells, Told
    <3>3. p = d + x
      BY <1>1, <3>1, <3>2 DEF Attentive, OnceInLog
    <3>4. CASE x = Len(Recalled(r))
      BY <1>1, <1>4, <3>2, <3>3, <3>4
    <3>5. CASE x # Len(Recalled(r))
      <4>1. x + 1 \in DOMAIN Recalled(r) /\ d + (x + 1) = p + 1
        BY <1>4, <3>1, <3>3, <3>5
      <4>2. responses[v][x + 1] = Told(r, log[r][p + 1]) /\ x + 1 \in DOMAIN responses[v]
        BY <1>3, <3>1, <4>1
      <4> QED
        BY <3>2, <4>2 DEF Tells, Told
    <3> QED
      BY <3>4, <3>5
  <2>2. responses[v] \in Seq(Response)
    OBVIOUS
  <2>3. NoGap(Coming(v) \o responses[v], q, log[q])
    BY <2>0, <2>1, <2>2, GapAfter
  <2> QED
    BY <2>0, <2>3
<1>7. ToldAreMembers'
  <2> SUFFICES ASSUME NEW v \in Users, NEW q \in Rooms, NEW i \in DOMAIN Coming(v)',
                      NEW p \in DOMAIN log[q], Tells(Coming(v)'[i], q, log[q][p])
               PROVE  v \in members[q]
    BY <1>0 DEF ToldAreMembers, Tells
  <2>1. CASE i \in DOMAIN Coming(v) /\ Coming(v)'[i] = Coming(v)[i]
    BY <2>1 DEF Attentive, ToldAreMembers
  <2>2. CASE v = c /\ \E g \in DOMAIN log[r] : Coming(v)'[i] = Told(r, log[r][g])
    BY <1>0, <2>2 DEF Tells, Told
  <2> QED
    BY <1>5, <2>1, <2>2
<1>8. OnceInLog'
  BY <1>0 DEF Attentive, OnceInLog
<1>9. \A n \in Chats : IsOut(n)' => IsOut(n)
  BY <1>0, <1>5 DEF IsOut, Told
<1> QED
  BY <1>6, <1>7, <1>8, <1>9 DEF Attentive

-----------------------------------------------------------------------------
(* What the clients do, and all steps together.                            *)

\* A client may lose what is coming, but makes no gap in it.
LEMMA ClientKeepsAttentive ==
  ASSUME ChatTypeOK, ChatTypeOK', OneRoomOnScreen, Attentive, NEW c \in Users, ClientStep(c)
  PROVE  Attentive' /\ \A m \in Chats : IsOut(m)' => IsOut(m)
<1>1. log' = log /\ members' = members
  BY ClientAsks DEF Ask
<1>2. \A d \in Users, r \in Rooms : Keeps(Coming(d)', Coming(d), r)
  BY ReadKeeps, TypedKeeps
<1>3. \A d \in Users : Coming(d) \in Seq(Response) /\ Coming(d)' \in Seq(Response)
  <2>1. \A d \in Users : /\ AsTold(screen'[d]) \in Seq(Response)
                        /\ down'[d] \in Seq(Response)
                        /\ Coming(d)' = AsTold(screen'[d]) \o down'[d]
    <3> TAKE d \in Users
    <3>1. screen'[d] \in Seq([room : Rooms, chat : Chats]) /\ down'[d] \in Seq(Response)
      BY DEF ChatTypeOK
    <3>2. Coming(d)' = AsTold(screen'[d]) \o down'[d]
      BY DEF Coming, AsTold, Shown
    <3> QED
      BY <3>1, <3>2, AsToldType
  <2>2. \A s, t \in Seq(Response) : s \o t \in Seq(Response)
    BY ConcatProperties
  <2>3. ASSUME NEW d \in Users PROVE Coming(d)' \in Seq(Response)
    <3> DEFINE s == AsTold(screen'[d])
               t == down'[d]
    <3>1. s \in Seq(Response) /\ t \in Seq(Response) /\ Coming(d)' = s \o t
      BY <2>1
    <3> HIDE DEF s, t
    <3> QED
      BY <2>2, <3>1
  <2> QED
    BY <2>3, ComingIs
<1>4. ASSUME NEW d \in Users, NEW i \in DOMAIN Coming(d)'
      PROVE  \E j \in DOMAIN Coming(d) : Coming(d)'[i] = Coming(d)[j]
  <2>1. PICK r \in Rooms : TRUE
    BY IdFacts
  <2> QED
    BY <1>2, <1>3, <2>1, KeptWasThere
<1>5. NoGaps'
  <2> SUFFICES ASSUME NEW d \in Users, NEW r \in Rooms PROVE NoGap(Coming(d)', r, log[r])
    BY <1>1 DEF NoGaps
  <2>1. NoGap(Coming(d), r, log[r]) /\ log[r] \in Seq(Chats)
    BY LogTypes DEF Attentive, NoGaps
  <2>2. Keeps(Coming(d)', Coming(d), r)
    BY <1>2
  <2> QED
    BY <1>3, <2>1, <2>2, GapLeft
<1>6. ToldAreMembers'
  BY <1>1, <1>4 DEF Attentive, ToldAreMembers
<1>7. OnceInLog'
  BY <1>1 DEF Attentive, OnceInLog
<1>8. \A m \in Chats : IsOut(m)' => IsOut(m)
  BY <1>1, <1>4 DEF IsOut
<1> QED
  BY <1>5, <1>6, <1>7, <1>8 DEF Attentive

-----------------------------------------------------------------------------
(* What has been typed.                                                    *)

\* Texts have an author and a number.
LEMMA TextFacts == ASSUME NEW m \in Chats PROVE m.text[1] \in Users /\ m.text[2] \in Nat
BY ChatAssumption DEF Chats

LEMMA InTurnType ==
  ASSUME ChatTypeOK, InTurn, NEW c \in Users, ClientStep(c), ~handle_res(c),
         \A m \in Chats : IsOut(m)' => IsOut(m)
  PROVE  InTurn'
<1>1. PICK q \in Request :
        /\ Send(c, q)
        /\ \/ q.cmd # "chat" /\ typed' = typed
           \/ q = Said(c) /\ typed' = [typed EXCEPT ![c] = @ + 1]
  BY SentWhat
<1>2. \A d \in Users : typed[d] \in Nat /\ typed'[d] \in Nat /\ typed[d] <= typed'[d]
  BY <1>1 DEF ChatTypeOK
<1>3. ASSUME NEW d \in Users, NEW i \in DOMAIN up'[d]
      PROVE  \/ i \in DOMAIN up[d] /\ up'[d][i] = up[d][i]
             \/ d = c /\ up'[d][i] = q /\ \A j \in DOMAIN up'[d] : ~(i < j)
  <2>1. CASE d = c
    <3>1. up'[d] = Append(up[d], q) /\ up[d] \in Seq(Request)
      BY <1>1, <2>1 DEF Send, ChatTypeOK
    <3>2. /\ DOMAIN up[d] = 1 .. Len(up[d]) /\ Len(up[d]) \in Nat
          /\ DOMAIN up'[d] = 1 .. Len(up[d]) + 1
          /\ \A j \in DOMAIN up[d] : up'[d][j] = up[d][j]
          /\ up'[d][Len(up[d]) + 1] = q
      BY <3>1, AppendProperties, LenProperties
    <3>3. CASE i = Len(up[d]) + 1
      BY <2>1, <3>2, <3>3
    <3>4. CASE i # Len(up[d]) + 1
      BY <3>2, <3>4
    <3> QED
      BY <3>3, <3>4
  <2>2. CASE d # c
    <3>1. up'[d] = up[d]
      BY <1>1, <2>2 DEF Send, ChatTypeOK
    <3> QED
      BY <3>1
  <2> QED
    BY <2>1, <2>2
<1>4. ASSUME q.cmd = "chat"
      PROVE  /\ q.chat.text[1] = c /\ q.chat.text[2] = typed[c] + 1
             /\ typed'[c] = typed[c] + 1
  BY <1>1, <1>4 DEF Said, ChatTypeOK
<1>5. ASSUME NEW d \in Users, NEW i \in DOMAIN up[d], up[d][i].cmd = "chat"
      PROVE  up[d][i].chat \in Chats
  <2>1. up[d][i] \in Request
    BY DEF ChatTypeOK
  <2> QED
    BY <1>5, <2>1, RequestFields
<1>6. ASSUME NEW m \in Chats, IsOut(m)'
      PROVE  m.text[2] <= typed[m.text[1]] /\ m.text[2] <= typed'[m.text[1]]
  BY <1>2, <1>6, TextFacts DEF InTurn
<1>7. ASSUME NEW d \in Users, NEW i \in DOMAIN up'[d], up'[d][i].cmd = "chat"
      PROVE  /\ up'[d][i].chat.text[1] = d
             /\ up'[d][i].chat.text[2] <= typed'[d]
             /\ \A j \in DOMAIN up'[d] : i < j /\ up'[d][j].cmd = "chat" =>
                  Before(up'[d][i].chat, up'[d][j].chat)
             /\ \A m \in Chats : IsOut(m)' => Before(m, up'[d][i].chat)
  <2>1. CASE i \in DOMAIN up[d] /\ up'[d][i] = up[d][i]
    <3>1. /\ up[d][i].chat.text[1] = d
          /\ up[d][i].chat.text[2] <= typed[d]
          /\ up[d][i].chat \in Chats
      BY <1>5, <1>7, <2>1 DEF InTurn
    <3>2. up[d][i].chat.text[2] <= typed'[d]
      BY <1>2, <3>1, TextFacts
    <3>3. ASSUME NEW j \in DOMAIN up'[d], i < j, up'[d][j].cmd = "chat"
          PROVE  Before(up[d][i].chat, up'[d][j].chat)
      <4>1. CASE j \in DOMAIN up[d] /\ up'[d][j] = up[d][j]
        BY <1>7, <2>1, <3>3, <4>1 DEF InTurn
      <4>2. CASE d = c /\ up'[d][j] = q
        <5>1. q.chat.text[2] = typed[d] + 1
          BY <1>4, <3>3, <4>2
        <5> QED
          BY <1>2, <3>1, <4>2, <5>1, TextFacts DEF Before
      <4> QED
        BY <1>3, <4>1, <4>2
    <3>4. \A m \in Chats : IsOut(m)' => Before(m, up[d][i].chat)
      BY <1>7, <2>1 DEF InTurn
    <3> QED
      BY <2>1, <3>1, <3>2, <3>3, <3>4
  <2>2. CASE d = c /\ up'[d][i] = q /\ \A j \in DOMAIN up'[d] : ~(i < j)
    <3>1. q.chat.text[1] = d /\ q.chat.text[2] = typed[d] + 1 /\ typed'[d] = typed[d] + 1
      BY <1>4, <1>7, <2>2
    <3>2. ASSUME NEW m \in Chats, IsOut(m)'
          PROVE  Before(m, q.chat)
      BY <1>2, <1>6, <3>1, <3>2, TextFacts DEF Before
    <3> QED
      BY <1>2, <2>2, <3>1, <3>2
  <2> QED
    BY <1>3, <2>1, <2>2
<1> QED
  BY <1>6, <1>7 DEF InTurn, Before

\* The manager takes a client's first request, and says at most what is in it.
LEMMA InTurnServe ==
  ASSUME ChatTypeOK, InTurn, NEW c \in Users, NEW cmd, Asked(c, cmd),
         up' = [up EXCEPT ![c] = Tail(@)], typed' = typed,
         \A m \in Chats : IsOut(m)' => IsOut(m) \/ (cmd = "chat" /\ m = Head(up[c]).chat)
  PROVE  InTurn'
<1>1. up[c] \in Seq(Request) /\ up[c] # <<>> /\ 1 \in DOMAIN up[c] /\ Head(up[c]) = up[c][1]
      /\ up[c][1].cmd = cmd
  BY DEF Asked, ChatTypeOK
<1>2. ASSUME NEW d \in Users, NEW i \in DOMAIN up'[d]
      PROVE  \/ d # c /\ i \in DOMAIN up[d] /\ up'[d][i] = up[d][i]
             \/ d = c /\ i + 1 \in DOMAIN up[d] /\ up'[d][i] = up[d][i + 1] /\ 1 < i + 1
  <2>1. CASE d = c
    <3>1. up'[d] = Tail(up[c])
      BY <2>1 DEF ChatTypeOK
    <3>2. i + 1 \in DOMAIN up[c] /\ up'[d][i] = up[c][i + 1]
      BY <1>1, <3>1, TailIs
    <3>3. i \in Nat \ {0}
      <4>1. Tail(up[c]) \in Seq(Request)
        BY <1>1, HeadTailProperties
      <4> QED
        BY <3>1, <4>1, LenProperties
    <3> QED
      BY <2>1, <3>2, <3>3
  <2>2. CASE d # c
    BY <2>2 DEF ChatTypeOK
  <2> QED
    BY <2>1, <2>2
<1>3. cmd = "chat" => up[c][1].chat \in Chats /\ up[c][1].chat.text[1] = c /\ up[c][1].chat.text[2] <= typed[c]
  <2>1. up[c][1] \in Request
    BY <1>1 DEF ChatTypeOK
  <2> QED
    BY <1>1, <2>1, RequestFields DEF InTurn
<1>4. ASSUME NEW m \in Chats, IsOut(m)'
      PROVE  m.text[2] <= typed[m.text[1]]
  BY <1>1, <1>3, <1>4 DEF InTurn
<1>5. ASSUME NEW d \in Users, NEW i \in DOMAIN up'[d], up'[d][i].cmd = "chat"
      PROVE  /\ up'[d][i].chat.text[1] = d
             /\ up'[d][i].chat.text[2] <= typed[d]
             /\ \A j \in DOMAIN up'[d] : i < j /\ up'[d][j].cmd = "chat" =>
                  Before(up'[d][i].chat, up'[d][j].chat)
             /\ \A m \in Chats : IsOut(m)' => Before(m, up'[d][i].chat)
  <2>1. PICK k \in DOMAIN up[d] :
          /\ up'[d][i] = up[d][k]
          /\ d = c => k = i + 1 /\ 1 < k
          /\ d # c => k = i
    BY <1>2
  <2>2. /\ up'[d][i].chat.text[1] = d
        /\ up'[d][i].chat.text[2] <= typed[d]
    BY <1>5, <2>1 DEF InTurn
  <2>3. ASSUME NEW j \in DOMAIN up'[d], i < j, up'[d][j].cmd = "chat"
        PROVE  Before(up'[d][i].chat, up'[d][j].chat)
    <3>1. PICK g \in DOMAIN up[d] : up'[d][j] = up[d][g] /\ (d = c => g = j + 1) /\ (d # c => g = j)
      BY <1>2
    <3>2. k < g
      <4>1. DOMAIN up[d] \subseteq Nat
        BY LenProperties DEF ChatTypeOK
      <4>2. DOMAIN up'[d] \subseteq Int
        <5>1. CASE d # c
          BY <4>1, <5>1, <1>2
        <5>2. CASE d = c
          <6>1. up'[d] = Tail(up[c]) /\ Tail(up[c]) \in Seq(Request)
            BY <1>1, <5>2, HeadTailProperties DEF ChatTypeOK
          <6> QED
            BY <6>1, LenProperties
        <5> QED
          BY <5>1, <5>2
      <4> QED
        BY <2>1, <2>3, <3>1, <4>1, <4>2
    <3> QED
      BY <1>5, <2>1, <2>3, <3>1, <3>2 DEF InTurn
  <2>4. ASSUME NEW m \in Chats, IsOut(m)'
        PROVE  Before(m, up'[d][i].chat)
    <3>1. CASE IsOut(m)
      BY <1>5, <2>1, <3>1 DEF InTurn
    <3>2. CASE cmd = "chat" /\ m = up[c][1].chat
      <4>1. CASE d = c
        BY <1>1, <1>5, <2>1, <3>2, <4>1 DEF InTurn
      <4>2. CASE d # c
        BY <1>3, <2>2, <3>2, <4>2 DEF Before
      <4> QED
        BY <4>1, <4>2
    <3> QED
      BY <1>1, <2>4, <3>1, <3>2
  <2> QED
    BY <2>2, <2>3, <2>4
<1> QED
  BY <1>4, <1>5 DEF InTurn, Before

\* Nothing is said twice.
LEMMA NotOutYet ==
  ASSUME ChatTypeOK, InTurn, NEW c \in Users, Asked(c, "chat")
  PROVE  Head(up[c]).chat \in Chats /\ ~IsOut(Head(up[c]).chat)
<1> DEFINE m == Head(up[c]).chat
<1>1. up[c] \in Seq(Request) /\ up[c] # <<>> /\ up[c][1].cmd = "chat"
      /\ 1 \in DOMAIN up[c] /\ Head(up[c]) = up[c][1]
  BY DEF Asked, ChatTypeOK
<1>2. m \in Chats
  BY FirstRequest, RequestFields
<1>3. IsOut(m) => Before(m, m)
  BY <1>1, <1>2 DEF InTurn
<1> HIDE DEF m
<1>4. ~Before(m, m)
  BY <1>2, TextFacts DEF Before
<1> QED
  BY <1>2, <1>3, <1>4 DEF m

LEMMA AttentiveStep ==
  ASSUME ChatTypeOK, ChatTypeOK', OneRoomOnScreen, Attentive, InTurn, [ChatNext]_chatVars
  PROVE  Attentive' /\ InTurn'
<1>1. ASSUME NEW c \in Users, ClientStep(c)
      PROVE  Attentive' /\ InTurn'
  <2>1. Attentive' /\ \A m \in Chats : IsOut(m)' => IsOut(m)
    BY <1>1, ClientKeepsAttentive
  <2>2. CASE handle_res(c)
    <3>1. up' = up /\ typed' = typed
      BY <2>2 DEF handle_res
    <3> QED
      BY <2>1, <3>1 DEF InTurn, Before
  <2>3. CASE ~handle_res(c)
    BY <1>1, <2>1, <2>3, InTurnType
  <2> QED
    BY <2>1, <2>2, <2>3
<1>2. ASSUME NEW c \in Users, Serve(c)
      PROVE  Attentive' /\ InTurn'
  <2>0. TypeOK'
    BY DEF ChatTypeOK
  <2>1. PICK responses \in [Users -> Seq(Response)] :
          /\ Answered(c, responses)
          /\ Quiet(responses) \/ Replay(c, responses) \/ PassOn(c, responses)
    BY <1>2, <2>0, ServeOutcome
  <2>2. PICK cmd : Asked(c, cmd)
    BY <1>2, <2>0, ServeAnswers
  <2>3. up' = [up EXCEPT ![c] = Tail(@)] /\ typed' = typed
    BY <2>1 DEF Answered, clientVars
  <2>4. CASE Quiet(responses) \/ Replay(c, responses)
    <3>1. Attentive' /\ \A m \in Chats : IsOut(m)' => IsOut(m)
      BY <2>1, <2>4, QuietStep, ReplayStep DEF Replay
    <3> QED
      BY <2>2, <2>3, <3>1, InTurnServe
  <2>5. CASE PassOn(c, responses)
    <3> DEFINE r == Head(up[c]).at8
               m == Head(up[c]).chat
    <3>1. Asked(c, "chat") /\ Say(r, m) /\ responses = Chatted(r)
      BY <2>5 DEF PassOn
    <3>2. r \in Rooms /\ m \in Chats /\ ~IsOut(m)
      BY <3>1, NotOutYet, FirstRequest, RequestFields
    <3>3. Attentive' /\ \A n \in Chats : IsOut(n)' => IsOut(n) \/ n = m
      <4> HIDE DEF r, m
      <4> QED
        BY <2>1, <3>1, <3>2, SayStep
    <3> QED
      BY <2>3, <3>1, <3>3, InTurnServe
  <2> QED
    BY <2>1, <2>4, <2>5
<1>3. CASE UNCHANGED chatVars
  <2>1. /\ UNCHANGED <<log, members, screen, down, up, typed>>
        /\ \A c \in Users : Coming(c)' = Coming(c)
    BY <1>3 DEF chatVars, vars, clientVars, Coming
  <2>2. \A m \in Chats : IsOut(m)' => IsOut(m)
    BY <2>1 DEF IsOut
  <2>3. NoGaps' /\ ToldAreMembers' /\ OnceInLog'
    BY <2>1 DEF Attentive, NoGaps, ToldAreMembers, OnceInLog
  <2>4. InTurn'
    BY <2>1, <2>2 DEF InTurn, Before
  <2> QED
    BY <2>3, <2>4 DEF Attentive
<1> QED
  BY <1>1, <1>2, <1>3 DEF ChatNext, ClientStep, Serve

LEMMA AttentiveInit == ChatInit => Attentive /\ InTurn
<1> SUFFICES ASSUME ChatInit PROVE Attentive /\ InTurn
  OBVIOUS
<1>0. DOMAIN <<>> = {}
  OBVIOUS
<1>1. /\ \A r \in Rooms : DOMAIN log[r] = {}
      /\ \A c \in Users : screen[c] = <<>> /\ down[c] = <<>>
      /\ \A c \in Users : up[c] = <<[cmd |-> "register"]>>
  BY <1>0 DEF ChatInit, Init
<1>2. \A c \in Users : DOMAIN Coming(c) = {}
  <2> SUFFICES ASSUME NEW c \in Users PROVE DOMAIN Coming(c) = {}
    OBVIOUS
  <2>1. Len(OnScreen(c)) = 0 /\ Len(down[c]) = 0
    BY <1>1, ChatTypeInit, ComingIs
  <2>2. Coming(c) \in Seq(Response) /\ Len(Coming(c)) = 0
    BY <2>1, ChatTypeInit, ComingIs, ConcatProperties
  <2> QED
    BY <2>2, LenProperties
<1>3. Attentive
  BY <1>1, <1>2 DEF Attentive, NoGaps, NoGap, ToldAreMembers, OnceInLog
<1>4. \A m : ~IsOut(m)
  BY <1>1, <1>2 DEF IsOut
<1>5. \A c \in Users : \A i \in DOMAIN up[c] : up[c][i].cmd # "chat"
  BY <1>1
<1> QED
  BY <1>3, <1>4, <1>5 DEF InTurn

\* Who sees anything of a room misses nothing that is said in it afterwards,
\* however far users type ahead, whatever rooms they change to and from, for any
\* number of users, rooms and chats under way (req.c:238-241, res.c:97).
THEOREM MissesNothing == ChatSpec => []NothingMissed
<1>1. ChatTypeOK /\ NoGaps => NothingMissed
  BY DEF ChatTypeOK, NoGaps, NothingMissed
<1>2. Attentive => NoGaps
  BY DEF Attentive
<1>3. OneRoomOnScreen /\ ChatTypeOK /\ ChatTypeOK' /\ Attentive /\ InTurn /\ [ChatNext]_chatVars
        => (Attentive /\ InTurn)'
  BY AttentiveStep
<1> QED
  BY <1>1, <1>2, <1>3, AttentiveInit, ChatTypes, OneRoom, PTL DEF ChatSpec

LEMMA OnScreenIsComing ==
  ASSUME ChatTypeOK, NEW c \in Users, NEW i \in DOMAIN screen[c]
  PROVE  /\ i \in DOMAIN Coming(c)
         /\ Tells(Coming(c)[i], screen[c][i].room, screen[c][i].chat)
<1>1. /\ OnScreen(c) \in Seq(Response) /\ down[c] \in Seq(Response)
      /\ Coming(c) = OnScreen(c) \o down[c]
  BY ComingIs
<1>2. DOMAIN OnScreen(c) = DOMAIN screen[c] /\ OnScreen(c)[i] = Shown(screen[c][i])
  BY DEF OnScreen, AsTold
<1>3. i \in 1 .. Len(OnScreen(c))
  BY <1>1, <1>2, LenProperties
<1>4. Coming(c)[i] = OnScreen(c)[i] /\ i \in DOMAIN Coming(c)
  BY <1>1, <1>3, ConcatProperties, LenProperties
<1> QED
  BY <1>2, <1>4 DEF Shown, Tells

\* Nobody sees anything that is said in a room it is not in, although clients
\* stay in rooms they were refused, for any number of users, rooms and requests
\* and responses under way (main.c:265, 354-357, 418).
THEOREM StrangersExcluded == ChatSpec => []StrangersSeeNothing
<1>1. ChatTypeOK /\ Attentive => StrangersSeeNothing
  <2> SUFFICES ASSUME ChatTypeOK, Attentive, NEW c \in Users, NEW r \in Rooms,
                      NEW i \in DOMAIN screen[c], NEW p \in DOMAIN log[r],
                      screen[c][i] = [room |-> r, chat |-> log[r][p]]
               PROVE  c \in members[r]
    BY DEF StrangersSeeNothing
  <2>1. screen[c][i].room = r /\ screen[c][i].chat = log[r][p]
    OBVIOUS
  <2>2. i \in DOMAIN Coming(c) /\ Tells(Coming(c)[i], r, log[r][p])
    BY <2>1, OnScreenIsComing
  <2> QED
    BY <2>2 DEF Attentive, ToldAreMembers
<1>2. OneRoomOnScreen /\ ChatTypeOK /\ ChatTypeOK' /\ Attentive /\ InTurn /\ [ChatNext]_chatVars
        => (Attentive /\ InTurn)'
  BY AttentiveStep
<1> QED
  BY <1>1, <1>2, AttentiveInit, ChatTypes, OneRoom, PTL DEF ChatSpec
=============================================================================
