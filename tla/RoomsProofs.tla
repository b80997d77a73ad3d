---------------------------- MODULE RoomsProofs ----------------------------
(* Proofs about the rooms of Rooms.                                        *)
EXTENDS Rooms, TLAPS, FiniteSetTheorems, SequenceTheorems

LEMMA RoomFacts ==
  /\ USER_MAX \in Nat /\ USER_MAX > 0
  /\ ROOM_MAX \in Nat /\ ROOM_MAX > 0
  /\ ROOM_USER_MAX \in Nat /\ ROOM_USER_MAX > 0
  /\ ROOM_HISTORY_LEN \in Nat /\ ROOM_HISTORY_LEN > 0
  /\ MaxMembers \in Nat
  /\ MaxMembers <= ROOM_USER_MAX + 1
  /\ MaxOpen \in Nat /\ MaxLog \in Nat
  /\ 0 \in Users /\ 0 \in RoomIds
  /\ Users \subseteq Nat /\ RoomIds \subseteq Nat
BY RoomsAssumption, RoomsBoundAssumption DEF Users, RoomIds

-----------------------------------------------------------------------------
(* Type correctness.                                                       *)

LEMMA BlankType == Blank \in Room /\ Len(Blank.history) = 0
BY RoomFacts DEF Blank, Room, ROOM_STATUS_OFF

LEMMA CreatedIs ==
  ASSUME NEW u \in Users, NEW r \in RoomIds
  PROVE  /\ Created(u, r) \in Room
         /\ Created(u, r).id = r
         /\ Created(u, r).status = ROOM_STATUS_ON
         /\ Created(u, r).super_user_id = u
         /\ Created(u, r).user_cnt = 1
         /\ Created(u, r).users[0] = u
         /\ Created(u, r).history = <<>>
<1> DEFINE cells == [Blank.users EXCEPT ![0] = u]
<1>1. cells \in [0 .. ROOM_USER_MAX - 1 -> Users] /\ cells[0] = u
  BY RoomFacts DEF Blank
<1> HIDE DEF cells
<1>2. Created(u, r) = [id |-> r, status |-> ROOM_STATUS_ON, super_user_id |-> u,
                       users |-> cells, user_cnt |-> 1, history |-> <<>>]
  BY DEF Created, cells
<1>3. 1 \in 0 .. ROOM_USER_MAX + 2 /\ <<>> \in Seq(Chats)
  BY RoomFacts
<1> QED
  BY <1>1, <1>2, <1>3 DEF Room

LEMMA AnswerType ==
  ASSUME NEW u \in Users, NEW s \in Seq(Response)
  PROVE  [Nothing EXCEPT ![u] = s] \in [Users -> Seq(Response)]
<1>1. Nothing \in [Users -> Seq(Response)]
  BY DEF Nothing
<1> QED
  BY <1>1

LEMMA CodeType ==
  ASSUME NEW u \in Users, NEW c \in {"create", "delete", "connect", "chat", "invite", "list"},
         NEW s \in {200, 300, 500}
  PROVE  Answer(u, Code(c, s)) \in [Users -> Seq(Response)]
<1>1. Code(c, s) \in Response
  BY DEF Code, Response
<1>2. <<Code(c, s)>> \in Seq(Response)
  BY <1>1
<1> QED
  BY <1>2, AnswerType DEF Answer

\* The answers the handlers make, one by one.
LEMMA Answers ==
  ASSUME NEW u \in Users
  PROVE  /\ Answer(u, Code("create", 200)) \in [Users -> Seq(Response)]
         /\ Answer(u, Code("delete", 200)) \in [Users -> Seq(Response)]
         /\ Answer(u, Code("delete", 500)) \in [Users -> Seq(Response)]
         /\ Answer(u, Code("connect", 500)) \in [Users -> Seq(Response)]
         /\ Answer(u, Code("invite", 200)) \in [Users -> Seq(Response)]
         /\ Answer(u, Code("invite", 300)) \in [Users -> Seq(Response)]
         /\ Answer(u, Code("chat", 500)) \in [Users -> Seq(Response)]
<1>1. Answer(u, Code("create", 200)) \in [Users -> Seq(Response)]
  BY CodeType
<1>2. Answer(u, Code("delete", 200)) \in [Users -> Seq(Response)]
  BY CodeType
<1>3. Answer(u, Code("delete", 500)) \in [Users -> Seq(Response)]
  BY CodeType
<1>4. Answer(u, Code("connect", 500)) \in [Users -> Seq(Response)]
  BY CodeType
<1>5. Answer(u, Code("invite", 200)) \in [Users -> Seq(Response)]
  BY CodeType
<1>6. Answer(u, Code("invite", 300)) \in [Users -> Seq(Response)]
  BY CodeType
<1>7. Answer(u, Code("chat", 500)) \in [Users -> Seq(Response)]
  BY CodeType
<1> QED
  BY <1>1, <1>2, <1>3, <1>4, <1>5, <1>6, <1>7

LEMMA ChatType ==
  ASSUME NEW m \in Chats
  PROVE  Chat(m) \in Response
BY DEF Chat, Response

LEMMA ToEveryCellType ==
  ASSUME NEW room \in Room, NEW m \in Chats
  PROVE  ToEveryCell(room, m) \in [Users -> Seq(Response)]
<1>1. ASSUME NEW u \in Users
      PROVE  [k \in 1 .. Cardinality({i \in 0 .. room.user_cnt - 1 : Cell(room, i) = u})
                |-> Chat(m)] \in Seq(Response)
  <2> DEFINE S == {i \in 0 .. room.user_cnt - 1 : Cell(room, i) = u}
  <2>1. room.user_cnt \in Nat
    BY RoomFacts DEF Room
  <2>2. IsFiniteSet(0 .. room.user_cnt - 1)
    BY <2>1, FS_Interval
  <2>3. Cardinality(S) \in Nat
    BY <2>2, FS_Subset, FS_CardinalityType
  <2> QED
    BY <2>3, ChatType, IsASeq
<1> QED
  BY <1>1 DEF ToEveryCell

LEMMA PushType ==
  ASSUME NEW h \in Seq(Chats), NEW m \in Chats, Len(h) <= ROOM_HISTORY_LEN
  PROVE  /\ push_history(h, m) \in Seq(Chats)
         /\ Len(push_history(h, m)) <= ROOM_HISTORY_LEN
<1>1. CASE Len(h) < ROOM_HISTORY_LEN
  BY <1>1, RoomFacts, AppendProperties DEF push_history
<1>2. CASE ~(Len(h) < ROOM_HISTORY_LEN)
  <2>1. h # <<>> /\ Len(h) = ROOM_HISTORY_LEN
    BY <1>2, RoomFacts, LenProperties, EmptySeq
  <2>2. Tail(h) \in Seq(Chats) /\ Len(Tail(h)) = Len(h) - 1
    BY <2>1, HeadTailProperties
  <2> QED
    BY <1>2, <2>1, <2>2, RoomFacts, AppendProperties DEF push_history
<1> QED
  BY <1>1, <1>2

LEMMA InvitedType ==
  ASSUME NEW room \in Room, NEW v \in Users,
         room.user_cnt <= ROOM_USER_MAX,
         room.user_cnt = ROOM_USER_MAX => v <= ROOM_USER_MAX + 1
  PROVE  /\ Invited(room, v) \in Room
         /\ Invited(room, v).history = room.history
         /\ Invited(room, v).status = room.status
         /\ Invited(room, v).super_user_id = room.super_user_id
<1>1. room.user_cnt \in Nat
  BY RoomFacts DEF Room
<1>2. CASE room.user_cnt < ROOM_USER_MAX
  <2>1. room.user_cnt + 1 \in 0 .. ROOM_USER_MAX + 2
    BY <1>1, <1>2, RoomFacts
  <2>2. [room.users EXCEPT ![room.user_cnt] = v] \in [0 .. ROOM_USER_MAX - 1 -> Users]
    BY DEF Room
  <2> QED
    BY <1>2, <2>1, <2>2 DEF Invited, Room
<1>3. CASE ~(room.user_cnt < ROOM_USER_MAX)
  <2>1. v + 1 \in 0 .. ROOM_USER_MAX + 2
    BY <1>1, <1>3, RoomFacts
  <2> QED
    BY <1>3, <2>1 DEF Invited, Room
<1> QED
  BY <1>2, <1>3

LEMMA TypeInit == Init => TypeOK
<1> SUFFICES ASSUME Init PROVE TypeOK
  OBVIOUS
<1>1. rooms \in [RoomIds -> Room] /\ \A r \in RoomIds : rooms[r] = Blank
  BY BlankType DEF Init
<1> QED
  BY <1>1, BlankType, RoomFacts DEF Init, TypeOK, Nothing

LEMMA TypeStep == TypeOK /\ [Next]_vars => TypeOK'
<1> SUFFICES ASSUME TypeOK, [Next]_vars
             PROVE  TypeOK'
  OBVIOUS
<1> USE RoomFacts
<1>1. ASSUME NEW u \in Users, room_create(u)
      PROVE  TypeOK'
  <2>1. PICK r \in RoomIds :
           /\ rooms' = [rooms EXCEPT ![r] = Created(u, r)]
           /\ rooms_cnt' = IF r + 1 > rooms_cnt THEN r + 1 ELSE rooms_cnt
           /\ log' = [log EXCEPT ![r] = <<>>]
    BY <1>1 DEF room_create
  <2>2. /\ rooms' \in [RoomIds -> Room]
        /\ rooms_cnt' \in 0 .. ROOM_MAX
    <3>1. rooms' \in [RoomIds -> Room]
      BY <2>1, CreatedIs DEF TypeOK
    <3>2. r + 1 \in 0 .. ROOM_MAX
      BY DEF RoomIds
    <3>3. rooms_cnt' \in 0 .. ROOM_MAX
      BY <2>1, <3>2 DEF TypeOK
    <3> QED
      BY <3>1, <3>3
  <2>3. log' \in [RoomIds -> Seq(Chats)]
    BY <2>1 DEF TypeOK
  <2>4. \A q \in RoomIds : Len(rooms'[q].history) <= ROOM_HISTORY_LEN
    BY <2>1, CreatedIs DEF TypeOK
  <2>5. out' \in [Users -> Seq(Response)]
    BY <1>1, Answers DEF room_create
  <2> QED
    BY <2>2, <2>3, <2>4, <2>5 DEF TypeOK
<1>2. ASSUME NEW u \in Users, room_list(u)
      PROVE  TypeOK'
  <2>1. RoomList(Listed(u)) \in Response
    BY DEF RoomList, Listed, Response, TypeOK, RoomIds
  <2>2. <<RoomList(Listed(u))>> \in Seq(Response)
    BY <2>1
  <2>3. out' \in [Users -> Seq(Response)]
    BY <1>2, <2>2, AnswerType DEF room_list, Answer
  <2> QED
    BY <1>2, <2>3 DEF room_list, TypeOK
<1>3. ASSUME NEW u \in Users, NEW r \in RoomIds, room_delete(u, r)
      PROVE  TypeOK'
  <2>1. out' \in [Users -> Seq(Response)]
    <3>1. CASE out' = Answer(u, Code("delete", 200))
      BY <3>1, Answers
    <3>2. CASE out' = Answer(u, Code("delete", 500))
      BY <3>2, Answers
    <3> QED
      BY <1>3, <3>1, <3>2 DEF room_delete
  <2>2. CASE UNCHANGED <<rooms, rooms_cnt, log>>
    BY <2>1, <2>2 DEF TypeOK
  <2>3. CASE /\ rooms' = [rooms EXCEPT ![r] = Blank]
             /\ log' = [log EXCEPT ![r] = <<>>]
             /\ UNCHANGED rooms_cnt
    <3>1. rooms' \in [RoomIds -> Room] /\ log' \in [RoomIds -> Seq(Chats)]
      BY <2>3, BlankType DEF TypeOK
    <3>2. \A q \in RoomIds : Len(rooms'[q].history) <= ROOM_HISTORY_LEN
      BY <2>3, BlankType DEF TypeOK
    <3> QED
      BY <2>1, <2>3, <3>1, <3>2 DEF TypeOK
  <2> QED
    BY <1>3, <2>2, <2>3 DEF room_delete, Deleted
<1>4. ASSUME NEW u \in Users, NEW r \in RoomIds, room_connect(u, r)
      PROVE  TypeOK'
  <2>1. rooms[r].history \in Seq(Chats)
    BY DEF TypeOK, Room
  <2>2. [i \in DOMAIN rooms[r].history |-> Chat(rooms[r].history[i])] \in Seq(Response)
    BY <2>1, ChatType, LenProperties, ElementOfSeq, IsASeq
  <2>3. out' \in [Users -> Seq(Response)]
    <3>1. CASE room_contains_user(rooms[r], u)
      BY <1>4, <2>2, <3>1, AnswerType DEF room_connect
    <3>2. CASE ~room_contains_user(rooms[r], u)
      BY <1>4, <3>2, Answers DEF room_connect
    <3> QED
      BY <3>1, <3>2
  <2> QED
    BY <1>4, <2>3 DEF room_connect, TypeOK
<1>5. ASSUME NEW u \in Users, NEW v \in Users, NEW r \in RoomIds, room_invite(u, r, v)
      PROVE  TypeOK'
  <2>1. CASE /\ rooms[r].user_cnt < MaxMembers
             /\ rooms[r].user_cnt = ROOM_USER_MAX => v <= ROOM_USER_MAX + 1
             /\ rooms' = [rooms EXCEPT ![r] = Invited(@, v)]
             /\ out' = Answer(u, Code("invite", 200))
             /\ UNCHANGED <<rooms_cnt, log>>
    <3>1. rooms[r] \in Room
      BY DEF TypeOK
    <3>0. rooms[r].user_cnt \in Nat
      BY <3>1 DEF Room
    <3>2. /\ Invited(rooms[r], v) \in Room
          /\ Invited(rooms[r], v).history = rooms[r].history
      BY <2>1, <3>0, <3>1, InvitedType
    <3>3. rooms' \in [RoomIds -> Room]
      BY <2>1, <3>2 DEF TypeOK
    <3>4. \A q \in RoomIds : Len(rooms'[q].history) <= ROOM_HISTORY_LEN
      BY <2>1, <3>2 DEF TypeOK
    <3>5. out' \in [Users -> Seq(Response)]
      BY <2>1, Answers
    <3> QED
      BY <2>1, <3>3, <3>4, <3>5 DEF TypeOK
  <2>2. CASE out' = Answer(u, Code("invite", 300)) /\ UNCHANGED <<rooms, rooms_cnt, log>>
    <3>1. out' \in [Users -> Seq(Response)]
      BY <2>2, Answers
    <3> QED
      BY <2>2, <3>1 DEF TypeOK
  <2> QED
    BY <1>5, <2>1, <2>2 DEF room_invite
<1>6. ASSUME NEW r \in RoomIds, NEW m \in Chats, send_chat(r, m)
      PROVE  TypeOK'
  <2>1. CASE /\ out' = ToEveryCell(rooms[r], m)
             /\ rooms' = [rooms EXCEPT ![r].history = push_history(@, m)]
             /\ log' = [log EXCEPT ![r] = Append(@, m)]
             /\ UNCHANGED rooms_cnt
    <3>1. rooms[r] \in Room /\ rooms[r].history \in Seq(Chats)
      BY DEF TypeOK, Room
    <3>2. /\ push_history(rooms[r].history, m) \in Seq(Chats)
          /\ Len(push_history(rooms[r].history, m)) <= ROOM_HISTORY_LEN
      BY <3>1, PushType DEF TypeOK
    <3>3. [rooms[r] EXCEPT !.history = push_history(@, m)] \in Room
      BY <3>1, <3>2 DEF Room
    <3>4. rooms' \in [RoomIds -> Room]
      BY <2>1, <3>3 DEF TypeOK
    <3>5. \A q \in RoomIds : Len(rooms'[q].history) <= ROOM_HISTORY_LEN
      BY <2>1, <3>1, <3>2 DEF TypeOK, Room
    <3>6. log' \in [RoomIds -> Seq(Chats)]
      BY <2>1, AppendProperties DEF TypeOK
    <3>7. out' \in [Users -> Seq(Response)]
      BY <2>1, <3>1, ToEveryCellType
    <3> QED
      BY <2>1, <3>4, <3>5, <3>6, <3>7 DEF TypeOK
  <2>2. CASE out' = Answer(m.from, Code("chat", 500)) /\ UNCHANGED <<rooms, rooms_cnt, log>>
    <3>1. m.from \in Users
      BY DEF Chats
    <3>2. out' \in [Users -> Seq(Response)]
      BY <2>2, <3>1, Answers
    <3> QED
      BY <2>2, <3>2 DEF TypeOK
  <2> QED
    BY <1>6, <2>1, <2>2 DEF send_chat
<1>7. CASE UNCHANGED vars
  BY <1>7 DEF vars, TypeOK
<1> QED
  BY <1>1, <1>2, <1>3, <1>4, <1>5, <1>6, <1>7 DEF Next

\* Every variable keeps its type, and no room keeps more history than its cells
\* hold (room.c:42-62).
THEOREM TypeCorrect == Spec => []TypeOK
BY TypeInit, TypeStep, PTL DEF Spec

-----------------------------------------------------------------------------
(* Facts about a room, its members and its history.                        *)

\* Within the cells, the members are what the cells hold.
LEMMA MembersAreCells ==
  ASSUME NEW room \in Room, room.user_cnt <= ROOM_USER_MAX
  PROVE  /\ room.user_cnt \in Nat
         /\ \A i \in 0 .. room.user_cnt - 1 :
              i \in 0 .. ROOM_USER_MAX - 1 /\ Cell(room, i) = room.users[i]
         /\ Members(room) = {room.users[i] : i \in 0 .. room.user_cnt - 1}
<1>1. room.user_cnt \in Nat
  BY RoomFacts DEF Room
<1>2. \A i \in 0 .. room.user_cnt - 1 :
        i \in 0 .. ROOM_USER_MAX - 1 /\ Cell(room, i) = room.users[i]
  BY <1>1, RoomFacts DEF Cell
<1> QED
  BY <1>1, <1>2 DEF Members

LEMMA BlankIsEmpty == Blank.user_cnt = 0 /\ Members(Blank) = {} /\ Blank.status = ROOM_STATUS_OFF
BY DEF Blank, Members

\* The latest n chats of a log, cell by cell.
LEMMA LastOfIs ==
  ASSUME NEW s \in Seq(Chats), NEW n \in Nat, Len(s) >= n, n > 0
  PROVE  /\ LastOf(s, n) \in Seq(Chats)
         /\ Len(LastOf(s, n)) = n
         /\ \A i \in 1 .. n : LastOf(s, n)[i] = s[Len(s) - n + i]
<1>0. Len(s) \in Nat
  BY LenProperties
<1>1. CASE Len(s) <= n
  BY <1>0, <1>1 DEF LastOf
<1>2. CASE ~(Len(s) <= n)
  <2>1. LastOf(s, n) = SubSeq(s, Len(s) - n + 1, Len(s))
    BY <1>2 DEF LastOf
  <2>2. Len(s) - n + 1 \in 1 .. Len(s) + 1 /\ Len(s) \in Len(s) - n + 1 - 1 .. Len(s)
    BY <1>0, <1>2
  <2> DEFINE a == Len(s) - n + 1
  <2>3. /\ SubSeq(s, a, Len(s)) \in Seq(Chats)
        /\ Len(SubSeq(s, a, Len(s))) = IF a <= Len(s) THEN Len(s) - a + 1 ELSE 0
        /\ \A i \in 1 .. Len(s) - a + 1 : SubSeq(s, a, Len(s))[i] = s[a + i - 1]
    BY <2>2, SubSeqProperties
  <2> QED
    BY <1>0, <1>2, <2>1, <2>3
<1> QED
  BY <1>0, <1>1, <1>2

\* Pushing a chat on the latest chats gives the latest chats of the longer log.
LEMMA PushIsLatest ==
  ASSUME NEW s \in Seq(Chats), NEW m \in Chats
  PROVE  LastOf(Append(s, m), ROOM_HISTORY_LEN)
           = push_history(LastOf(s, ROOM_HISTORY_LEN), m)
<1> DEFINE L == ROOM_HISTORY_LEN
           h == LastOf(s, L)
<1>0. L \in Nat /\ L > 0 /\ Len(s) \in Nat
  BY RoomFacts, LenProperties
<1>1. /\ Append(s, m) \in Seq(Chats)
      /\ Len(Append(s, m)) = Len(s) + 1
      /\ \A i \in 1 .. Len(s) : Append(s, m)[i] = s[i]
      /\ Append(s, m)[Len(s) + 1] = m
  BY AppendProperties
<1>2. CASE Len(s) < L
  BY <1>0, <1>1, <1>2 DEF LastOf, push_history
<1>3. CASE ~(Len(s) < L)
  <2>1. h \in Seq(Chats) /\ Len(h) = L /\ \A i \in 1 .. L : h[i] = s[Len(s) - L + i]
    BY <1>0, <1>3, LastOfIs
  <2> DEFINE t == LastOf(Append(s, m), L)
  <2>2. /\ t \in Seq(Chats) /\ Len(t) = L
        /\ \A i \in 1 .. L : t[i] = Append(s, m)[Len(s) + 1 - L + i]
    <3> DEFINE z == Append(s, m)
    <3>1. z \in Seq(Chats) /\ Len(z) = Len(s) + 1 /\ Len(z) >= L
      BY <1>0, <1>1, <1>3
    <3> HIDE DEF z
    <3>2. /\ LastOf(z, L) \in Seq(Chats) /\ Len(LastOf(z, L)) = L
          /\ \A i \in 1 .. L : LastOf(z, L)[i] = z[Len(z) - L + i]
      BY <1>0, <3>1, LastOfIs
    <3> QED
      BY <3>1, <3>2 DEF z
  <2> HIDE DEF h, t
  <2>3. h # <<>>
    BY <1>0, <2>1, EmptySeq
  <2>4. /\ Tail(h) \in Seq(Chats)
        /\ Len(Tail(h)) = L - 1
        /\ \A i \in 1 .. L - 1 : Tail(h)[i] = h[i + 1]
    BY <1>0, <2>1, <2>3, HeadTailProperties
  <2> DEFINE p == Append(Tail(h), m)
  <2>5. /\ p \in Seq(Chats) /\ Len(p) = L
        /\ \A i \in 1 .. L - 1 : p[i] = h[i + 1]
        /\ p[L] = m
    BY <1>0, <2>4, AppendProperties
  <2> HIDE DEF p
  <2>6. ASSUME NEW i \in 1 .. L
        PROVE  t[i] = p[i]
    <3>1. CASE i = L
      BY <1>0, <1>1, <2>2, <2>5, <3>1
    <3>2. CASE i # L
      <4>1. i \in 1 .. L - 1 /\ i + 1 \in 1 .. L
        BY <1>0, <3>2
      <4>2. p[i] = s[Len(s) - L + (i + 1)]
        BY <2>1, <2>5, <4>1
      <4>3. t[i] = s[Len(s) + 1 - L + i]
        BY <1>0, <1>1, <1>3, <2>2, <4>1
      <4>4. Len(s) - L + (i + 1) = Len(s) + 1 - L + i
        BY <1>0
      <4> QED
        BY <4>2, <4>3, <4>4
    <3> QED
      BY <3>1, <3>2
  <2>7. t = p
    BY <2>2, <2>5, <2>6, SeqEqual
  <2>8. p = push_history(h, m)
    BY <1>0, <2>1 DEF push_history, p
  <2> QED
    BY <2>7, <2>8 DEF t, h
<1> QED
  BY <1>2, <1>3

-----------------------------------------------------------------------------
(* Members, history and rooms that are off.                                *)

\* Users are invited only into rooms with a free cell.
FreeCells == MaxMembers <= ROOM_USER_MAX

RInv == TypeOK /\ OffIsBlank /\ HistoryIsSuffix

LEMMA RInvInit == Init => RInv
<1> SUFFICES ASSUME Init PROVE RInv
  OBVIOUS
<1>1. \A r \in RoomIds : rooms[r] = Blank /\ log[r] = <<>>
  BY DEF Init
<1>2. Blank.history = LastOf(<<>>, ROOM_HISTORY_LEN)
  BY RoomFacts DEF Blank, LastOf
<1> QED
  BY <1>1, <1>2, TypeInit DEF RInv, OffIsBlank, HistoryIsSuffix

LEMMA RInvStep == RInv /\ [Next]_vars => RInv'
<1> SUFFICES ASSUME RInv, [Next]_vars
             PROVE  OffIsBlank' /\ HistoryIsSuffix'
  BY TypeStep DEF RInv
<1> USE RoomFacts DEF RInv
<1>0. /\ rooms \in [RoomIds -> Room]
      /\ log \in [RoomIds -> Seq(Chats)]
  BY DEF TypeOK
<1>L. LastOf(<<>>, ROOM_HISTORY_LEN) = <<>>
  BY DEF LastOf
<1>1. ASSUME NEW u \in Users, room_create(u)
      PROVE  OffIsBlank' /\ HistoryIsSuffix'
  <2>1. PICK r \in RoomIds : /\ rooms' = [rooms EXCEPT ![r] = Created(u, r)]
                             /\ log' = [log EXCEPT ![r] = <<>>]
    BY <1>1 DEF room_create
  <2>2. Created(u, r).status # ROOM_STATUS_OFF /\ Created(u, r).history = <<>>
    BY CreatedIs DEF ROOM_STATUS_ON, ROOM_STATUS_OFF
  <2> QED
    BY <1>0, <1>L, <2>1, <2>2 DEF OffIsBlank, HistoryIsSuffix
<1>2. CASE UNCHANGED <<rooms, log>>
  BY <1>2 DEF OffIsBlank, HistoryIsSuffix
<1>3. ASSUME NEW u \in Users, NEW r \in RoomIds, room_delete(u, r)
      PROVE  OffIsBlank' /\ HistoryIsSuffix'
  <2>1. CASE rooms' = [rooms EXCEPT ![r] = Blank] /\ log' = [log EXCEPT ![r] = <<>>]
    <3>1. Blank.history = <<>>
      BY DEF Blank
    <3> QED
      BY <1>0, <1>L, <2>1, <3>1 DEF OffIsBlank, HistoryIsSuffix
  <2> QED
    BY <1>2, <1>3, <2>1 DEF room_delete, Deleted
<1>4. ASSUME NEW u \in Users, NEW v \in Users, NEW r \in RoomIds, room_invite(u, r, v)
      PROVE  OffIsBlank' /\ HistoryIsSuffix'
  <2>1. CASE /\ Accepts(rooms[r], u, v)
             /\ rooms[r].user_cnt < MaxMembers
             /\ rooms[r].user_cnt = ROOM_USER_MAX => v <= ROOM_USER_MAX + 1
             /\ rooms' = [rooms EXCEPT ![r] = Invited(@, v)]
             /\ UNCHANGED log
    <3>1. rooms[r].user_cnt \in Nat
      BY <1>0 DEF Room
    <3>2. /\ Invited(rooms[r], v).history = rooms[r].history
          /\ Invited(rooms[r], v).status = rooms[r].status
      BY <1>0, <2>1, <3>1, InvitedType
    <3>3. rooms[r].status # ROOM_STATUS_OFF
      BY <2>1, BlankIsEmpty DEF OffIsBlank, Accepts, room_contains_user
    <3> QED
      BY <1>0, <2>1, <3>2, <3>3 DEF OffIsBlank, HistoryIsSuffix
  <2> QED
    BY <1>2, <1>4, <2>1 DEF room_invite
<1>5. ASSUME NEW r \in RoomIds, NEW m \in Chats, send_chat(r, m)
      PROVE  OffIsBlank' /\ HistoryIsSuffix'
  <2>1. CASE /\ room_contains_user(rooms[r], m.from)
             /\ rooms' = [rooms EXCEPT ![r].history = push_history(@, m)]
             /\ log' = [log EXCEPT ![r] = Append(@, m)]
    <3>1. rooms[r].status # ROOM_STATUS_OFF
      BY <2>1, BlankIsEmpty DEF OffIsBlank, room_contains_user
    <3>2. /\ rooms'[r].history = push_history(rooms[r].history, m)
          /\ rooms'[r].status = rooms[r].status
      BY <1>0, <2>1 DEF Room
    <3>3. rooms'[r].history = LastOf(log'[r], ROOM_HISTORY_LEN)
      BY <1>0, <2>1, <3>2, PushIsLatest DEF HistoryIsSuffix
    <3>4. \A q \in RoomIds : q # r => rooms'[q] = rooms[q] /\ log'[q] = log[q]
      BY <1>0, <2>1
    <3> QED
      BY <3>1, <3>2, <3>3, <3>4 DEF OffIsBlank, HistoryIsSuffix
  <2> QED
    BY <1>2, <1>5, <2>1 DEF send_chat
<1> QED
  BY <1>1, <1>2, <1>3, <1>4, <1>5 DEF Next, vars, room_list, room_connect

\* A room that is off keeps nothing of its former life (req.c:138-139).
THEOREM NothingLeft == Spec => []OffIsBlank
<1>1. RInv => OffIsBlank
  BY DEF RInv
<1> QED
  BY <1>1, RInvInit, RInvStep, PTL DEF Spec

\* The history of every room is the end of its log, in order (room.c:42-62).
THEOREM History == Spec => []HistoryIsSuffix
<1>1. RInv => HistoryIsSuffix
  BY DEF RInv
<1> QED
  BY <1>1, RInvInit, RInvStep, PTL DEF Spec

LEMMA DistinctStep ==
  ASSUME FreeCells
  PROVE  RInv /\ MembersDistinct /\ [Next]_vars => MembersDistinct'
<1> SUFFICES ASSUME RInv, MembersDistinct, [Next]_vars
             PROVE  MembersDistinct'
  OBVIOUS
<1> USE RoomFacts
<1>0. rooms \in [RoomIds -> Room]
  BY DEF RInv, TypeOK
<1>1. ASSUME NEW u \in Users, room_create(u)
      PROVE  MembersDistinct'
  <2>1. PICK r \in RoomIds : rooms' = [rooms EXCEPT ![r] = Created(u, r)]
    BY <1>1 DEF room_create
  <2>2. /\ Created(u, r).user_cnt = 1
        /\ Created(u, r).users[0] = u
        /\ Created(u, r).super_user_id = u
    BY CreatedIs
  <2> QED
    BY <1>0, <2>1, <2>2 DEF MembersDistinct
<1>2. CASE UNCHANGED rooms
  BY <1>2 DEF MembersDistinct
<1>3. ASSUME NEW u \in Users, NEW r \in RoomIds, room_delete(u, r)
      PROVE  MembersDistinct'
  <2>1. CASE rooms' = [rooms EXCEPT ![r] = Blank]
    BY <1>0, <2>1, BlankIsEmpty DEF MembersDistinct, ROOM_STATUS_ON, ROOM_STATUS_OFF
  <2> QED
    BY <1>2, <1>3, <2>1 DEF room_delete, Deleted
<1>4. ASSUME NEW u \in Users, NEW v \in Users, NEW r \in RoomIds, room_invite(u, r, v)
      PROVE  MembersDistinct'
  <2>1. CASE /\ Accepts(rooms[r], u, v)
             /\ rooms[r].user_cnt < MaxMembers
             /\ rooms' = [rooms EXCEPT ![r] = Invited(@, v)]
    <3> DEFINE room == rooms[r]
               new  == Invited(room, v)
    <3>1. room \in Room /\ room.user_cnt \in Nat /\ room.user_cnt < ROOM_USER_MAX
      <4>1. room \in Room
        BY <1>0
      <4>2. room.user_cnt \in Nat
        BY <4>1 DEF Room
      <4> QED
        BY <2>1, <4>1, <4>2 DEF FreeCells
    <3>2. /\ new.user_cnt = room.user_cnt + 1
          /\ new.users = [room.users EXCEPT ![room.user_cnt] = v]
          /\ new.status = room.status
          /\ new.super_user_id = room.super_user_id
      BY <3>1 DEF Invited, Room
    <3>3. room.users \in [0 .. ROOM_USER_MAX - 1 -> Users]
      BY <3>1 DEF Room
    <3>4. \A i \in 0 .. room.user_cnt - 1 : room.users[i] # v
      BY <2>1, <3>1, MembersAreCells DEF Accepts, room_contains_user
    <3>5. room.user_cnt > 0
      BY <2>1, <3>1, MembersAreCells DEF Accepts, room_contains_user
    <3>6. /\ \A i, j \in 0 .. room.user_cnt - 1 : room.users[i] = room.users[j] => i = j
          /\ room.status = ROOM_STATUS_ON => room.users[0] = room.super_user_id
      BY DEF MembersDistinct
    <3> HIDE DEF room, new
    <3>7. \A i \in 0 .. room.user_cnt - 1 : new.users[i] = room.users[i]
      BY <3>1, <3>2, <3>3
    <3>8. new.users[room.user_cnt] = v
      BY <3>1, <3>2, <3>3
    <3>9. \A i, j \in 0 .. new.user_cnt - 1 : new.users[i] = new.users[j] => i = j
      BY <3>1, <3>2, <3>4, <3>6, <3>7, <3>8
    <3>10. new.status = ROOM_STATUS_ON => new.user_cnt > 0 /\ new.users[0] = new.super_user_id
      BY <3>1, <3>2, <3>5, <3>6, <3>7
    <3>11. rooms' = [rooms EXCEPT ![r] = new]
      BY <2>1 DEF new, room
    <3>12. new.user_cnt <= ROOM_USER_MAX
      BY <3>1, <3>2
    <3> QED
      BY <1>0, <3>9, <3>10, <3>11, <3>12 DEF MembersDistinct
  <2> QED
    BY <1>2, <1>4, <2>1 DEF room_invite
<1>5. ASSUME NEW r \in RoomIds, NEW m \in Chats, send_chat(r, m)
      PROVE  MembersDistinct'
  <2>1. CASE rooms' = [rooms EXCEPT ![r].history = push_history(@, m)]
    <3>1. /\ rooms'[r].user_cnt = rooms[r].user_cnt
          /\ rooms'[r].users = rooms[r].users
          /\ rooms'[r].status = rooms[r].status
          /\ rooms'[r].super_user_id = rooms[r].super_user_id
      BY <1>0, <2>1 DEF Room
    <3>2. \A q \in RoomIds : q # r => rooms'[q] = rooms[q]
      BY <1>0, <2>1
    <3> QED
      BY <3>1, <3>2 DEF MembersDistinct
  <2> QED
    BY <1>2, <1>5, <2>1 DEF send_chat
<1> QED
  BY <1>1, <1>2, <1>3, <1>4, <1>5 DEF Next, vars, room_list, room_connect

\* While every invitation finds a free cell, nobody has two cells of a room and
\* the super user has the first (req.c:198-202).
THEOREM Distinct ==
  ASSUME FreeCells
  PROVE  Spec => []MembersDistinct
<1>1. Init => MembersDistinct
  BY BlankIsEmpty, RoomFacts DEF Init, MembersDistinct, ROOM_STATUS_ON, ROOM_STATUS_OFF
<1>2. RInv /\ MembersDistinct /\ [Next]_vars => (RInv /\ MembersDistinct)'
  BY RInvStep, DistinctStep
<1> QED
  BY <1>1, <1>2, RInvInit, PTL DEF Spec

-----------------------------------------------------------------------------
(* The table of rooms implements Chatrooms.                                *)

\* Rooms are created only while one is off.
FreeRooms == MaxOpen <= ROOM_MAX

LEMMA SilentAnswer ==
  ASSUME NEW u \in Users, NEW resp, resp.chat = NoChat
  PROVE  [v \in Users |-> ChatsIn(Answer(u, resp)[v])] = [v \in Users |-> <<>>]
<1>1. ASSUME NEW v \in Users
      PROVE  ChatsIn(Answer(u, resp)[v]) = <<>>
  <2>1. Answer(u, resp)[v] = IF v = u THEN <<resp>> ELSE <<>>
    BY DEF Answer, Nothing
  <2>2. ChatsIn(<<resp>>) = <<>> /\ ChatsIn(<<>>) = <<>>
    BY DEF ChatsIn
  <2> QED
    BY <2>1, <2>2
<1> QED
  BY <1>1

LEMMA ChatIs ==
  ASSUME NEW m \in Chats
  PROVE  Chat(m).chat = m /\ m # NoChat
BY RoomsAssumption DEF Chat

\* Each member has one cell, everybody else none.
LEMMA CellCount ==
  ASSUME NEW room \in Room, room.user_cnt <= ROOM_USER_MAX, NEW u \in Users,
         \A i, j \in 0 .. room.user_cnt - 1 : room.users[i] = room.users[j] => i = j
  PROVE  Cardinality({i \in 0 .. room.user_cnt - 1 : Cell(room, i) = u})
           = IF u \in Members(room) THEN 1 ELSE 0
<1> DEFINE S == {i \in 0 .. room.user_cnt - 1 : Cell(room, i) = u}
<1>1. CASE u \in Members(room)
  <2>1. PICK i \in 0 .. room.user_cnt - 1 : Cell(room, i) = u
    BY <1>1 DEF Members
  <2>2. S = {i}
    BY <2>1, MembersAreCells
  <2> QED
    BY <1>1, <2>2, FS_Singleton
<1>2. CASE u \notin Members(room)
  <2>1. S = {}
    BY <1>2 DEF Members
  <2> QED
    BY <1>2, <2>1, FS_EmptySet
<1> QED
  BY <1>1, <1>2

\* What a chat makes appear: once for every member.
LEMMA ChatShown ==
  ASSUME NEW room \in Room, room.user_cnt <= ROOM_USER_MAX, NEW m \in Chats,
         \A i, j \in 0 .. room.user_cnt - 1 : room.users[i] = room.users[j] => i = j
  PROVE  [v \in Users |-> ChatsIn(ToEveryCell(room, m)[v])]
           = [v \in Users |-> IF v \in Members(room) THEN <<m>> ELSE <<>>]
<1>1. ASSUME NEW v \in Users
      PROVE  ChatsIn(ToEveryCell(room, m)[v]) = IF v \in Members(room) THEN <<m>> ELSE <<>>
  <2> DEFINE n == Cardinality({i \in 0 .. room.user_cnt - 1 : Cell(room, i) = v})
  <2>1. n = IF v \in Members(room) THEN 1 ELSE 0
    BY CellCount
  <2>2. ToEveryCell(room, m)[v] = [k \in 1 .. n |-> Chat(m)]
    BY DEF ToEveryCell
  <2> HIDE DEF n
  <2>3. CASE v \in Members(room)
    <3>1. ToEveryCell(room, m)[v] = <<Chat(m)>>
      BY <2>1, <2>2, <2>3
    <3>2. ChatsIn(<<Chat(m)>>) = <<m>>
      BY ChatIs DEF ChatsIn
    <3> QED
      BY <2>3, <3>1, <3>2
  <2>4. CASE v \notin Members(room)
    <3>1. ToEveryCell(room, m)[v] = <<>>
      BY <2>1, <2>2, <2>4
    <3> QED
      BY <2>4, <3>1 DEF ChatsIn
  <2> QED
    BY <2>3, <2>4
<1> QED
  BY <1>1

\* What a replay makes appear: the history.
LEMMA ReplayShown ==
  ASSUME NEW h \in Seq(Chats)
  PROVE  ChatsIn([i \in DOMAIN h |-> Chat(h[i])]) = h
<1> DEFINE s == [i \in DOMAIN h |-> Chat(h[i])]
<1>1. Len(h) \in Nat /\ DOMAIN h = 1 .. Len(h) /\ h \in [1 .. Len(h) -> Chats]
  BY LenProperties
<1>2. \A i \in DOMAIN h : s[i].chat = h[i] /\ h[i] # NoChat
  BY <1>1, ChatIs
<1>3. CASE h = <<>>
  BY <1>3 DEF ChatsIn
<1>4. CASE h # <<>>
  <2>1. 1 \in DOMAIN h
    BY <1>1, <1>4, EmptySeq
  <2>2. s # <<>>
    BY <2>1
  <2>3. ChatsIn(s) = [i \in DOMAIN s |-> s[i].chat]
    BY <1>2, <2>1, <2>2 DEF ChatsIn
  <2>4. [i \in DOMAIN s |-> s[i].chat] = h
    BY <1>1, <1>2
  <2> QED
    BY <2>3, <2>4
<1> QED
  BY <1>3, <1>4

\* The abstract state that a table of rooms stands for.
OwnerOf   == [r \in RoomIds |-> IF r \in Open THEN rooms[r].super_user_id ELSE NoOwner]
MembersOf == [r \in RoomIds |-> Members(rooms[r])]
ShownBy   == [u \in Users |-> ChatsIn(out[u])]

Silent == ShownBy' = [u \in Users |-> <<>>]

LEMMA SilentCode ==
  ASSUME NEW u \in Users, NEW c, NEW s, out' = Answer(u, Code(c, s))
  PROVE  Silent
<1>1. Code(c, s).chat = NoChat
  BY DEF Code
<1> QED
  BY <1>1, SilentAnswer DEF Silent, ShownBy

\* A step that changes no room and shows nothing is a request refused.
LEMMA MapAsk ==
  ASSUME Silent, OwnerOf' = OwnerOf, MembersOf' = MembersOf, log' = log
  PROVE  Abstract!Next
<1>1. Abstract!Ask
  BY DEF Silent, ShownBy, OwnerOf, MembersOf, Abstract!Ask, Abstract!Nothing
<1> QED
  BY <1>1 DEF Abstract!Next

\* new_room_id() finds a room that is off.
LEMMA RoomIsFree ==
  ASSUME FreeRooms, Cardinality(Open) < MaxOpen
  PROVE  Open # RoomIds
<1>1. Cardinality(RoomIds) = ROOM_MAX
  BY RoomFacts, FS_Interval DEF RoomIds
<1> QED
  BY <1>1, RoomFacts DEF FreeRooms

LEMMA MapCreate ==
  ASSUME FreeRooms, RInv, NEW u \in Users, room_create(u)
  PROVE  Abstract!Next
<1> USE RoomFacts
<1>0. rooms \in [RoomIds -> Room] /\ log \in [RoomIds -> Seq(Chats)]
  BY DEF RInv, TypeOK
<1>1. PICK r \in RoomIds :
        /\ NewRoomId(r)
        /\ rooms' = [rooms EXCEPT ![r] = Created(u, r)]
        /\ log' = [log EXCEPT ![r] = <<>>]
  BY DEF room_create
<1>2. r \notin Open
  BY <1>1, RoomIsFree DEF room_create, NewRoomId
<1>3. OwnerOf[r] = NoOwner
  BY <1>2 DEF OwnerOf
<1>4. /\ Created(u, r) \in Room
      /\ Created(u, r).status # ROOM_STATUS_OFF
      /\ Created(u, r).super_user_id = u
      /\ Created(u, r).user_cnt = 1
      /\ Created(u, r).users[0] = u
  BY CreatedIs DEF ROOM_STATUS_ON, ROOM_STATUS_OFF
<1>5. Members(Created(u, r)) = {u}
  BY <1>4, MembersAreCells
<1>6. OwnerOf' = [OwnerOf EXCEPT ![r] = u]
  BY <1>0, <1>1, <1>4 DEF OwnerOf, Open
<1>7. MembersOf' = [MembersOf EXCEPT ![r] = {u}]
  BY <1>0, <1>1, <1>5 DEF MembersOf
<1>8. Silent
  BY SilentCode DEF room_create
<1>9. Abstract!Create(u, r)
  BY <1>1, <1>3, <1>6, <1>7, <1>8
     DEF Abstract!Create, Abstract!Nothing, OwnerOf, MembersOf, Silent, ShownBy
<1> QED
  BY <1>9 DEF Abstract!Next

\* A room that is off has said nothing.
LEMMA OffLog ==
  ASSUME RInv, NEW r \in RoomIds, r \notin Open
  PROVE  rooms[r] = Blank /\ log[r] = <<>>
<1>1. rooms[r] = Blank
  BY DEF RInv, OffIsBlank, Open
<1>2. LastOf(log[r], ROOM_HISTORY_LEN) = <<>>
  BY <1>1 DEF RInv, HistoryIsSuffix, Blank
<1>3. log[r] \in Seq(Chats) /\ Len(log[r]) \in Nat
  BY LenProperties DEF RInv, TypeOK
<1>4. CASE Len(log[r]) >= ROOM_HISTORY_LEN
  <2>1. Len(LastOf(log[r], ROOM_HISTORY_LEN)) = ROOM_HISTORY_LEN
    BY <1>3, <1>4, RoomFacts, LastOfIs
  <2> QED
    BY <1>2, <2>1, RoomFacts
<1>5. CASE ~(Len(log[r]) >= ROOM_HISTORY_LEN)
  BY <1>1, <1>2, <1>3, <1>5, RoomFacts DEF LastOf
<1> QED
  BY <1>4, <1>5

LEMMA MapDelete ==
  ASSUME RInv, NEW u \in Users, NEW r \in RoomIds, room_delete(u, r)
  PROVE  Abstract!Next
<1>0. rooms \in [RoomIds -> Room] /\ log \in [RoomIds -> Seq(Chats)]
  BY DEF RInv, TypeOK
<1>1. CASE /\ u = rooms[r].super_user_id
           /\ rooms' = [rooms EXCEPT ![r] = Blank]
           /\ log' = [log EXCEPT ![r] = <<>>]
           /\ out' = Answer(u, Code("delete", 200))
  <2>1. Silent
    BY <1>1, SilentCode
  <2>2. CASE r \in Open
    <3>1. OwnerOf[r] = u
      BY <1>1, <2>2 DEF OwnerOf
    <3>2. OwnerOf' = [OwnerOf EXCEPT ![r] = NoOwner]
      BY <1>0, <1>1, BlankIsEmpty DEF OwnerOf, Open
    <3>3. MembersOf' = [MembersOf EXCEPT ![r] = {}]
      BY <1>0, <1>1, BlankIsEmpty DEF MembersOf
    <3>4. Abstract!Delete(u, r)
      BY <1>1, <2>1, <3>1, <3>2, <3>3
         DEF Abstract!Delete, Abstract!Nothing, OwnerOf, MembersOf, Silent, ShownBy
    <3> QED
      BY <3>4 DEF Abstract!Next
  <2>3. CASE r \notin Open
    <3>1. rooms' = rooms /\ log' = log
      BY <1>0, <1>1, <2>3, OffLog
    <3> QED
      BY <2>1, <3>1, MapAsk DEF OwnerOf, MembersOf, Open
  <2> QED
    BY <2>2, <2>3
<1>2. CASE out' = Answer(u, Code("delete", 500)) /\ UNCHANGED <<rooms, rooms_cnt, log>>
  BY <1>2, SilentCode, MapAsk DEF OwnerOf, MembersOf, Open
<1> QED
  BY <1>1, <1>2 DEF room_delete, Deleted

LEMMA MapConnect ==
  ASSUME RInv, NEW u \in Users, NEW r \in RoomIds, room_connect(u, r)
  PROVE  Abstract!Next
<1>0. UNCHANGED <<rooms, rooms_cnt, log>>
  BY DEF room_connect
<1>1. CASE room_contains_user(rooms[r], u)
  <2> DEFINE h == rooms[r].history
  <2>1. h \in Seq(Chats) /\ h = LastOf(log[r], ROOM_HISTORY_LEN)
    BY DEF RInv, TypeOK, Room, HistoryIsSuffix
  <2>2. out' = [Nothing EXCEPT ![u] = [i \in DOMAIN h |-> Chat(h[i])]]
    BY <1>1 DEF room_connect
  <2> HIDE DEF h
  <2>3. ShownBy' = [[v \in Users |-> <<>>] EXCEPT ![u] = h]
    <3>1. ChatsIn([i \in DOMAIN h |-> Chat(h[i])]) = h
      BY <2>1, ReplayShown
    <3>2. ChatsIn(<<>>) = <<>>
      BY DEF ChatsIn
    <3> QED
      BY <2>2, <3>1, <3>2 DEF ShownBy, Nothing
  <2>4. h = Abstract!Recalled(r)
    BY <2>1 DEF Abstract!Recalled, Abstract!LastOf, LastOf
  <2>5. u \in MembersOf[r]
    BY <1>1 DEF MembersOf, room_contains_user
  <2>6. Abstract!Connect(u, r)
    BY <1>0, <2>3, <2>4, <2>5
       DEF Abstract!Connect, Abstract!Nothing, OwnerOf, MembersOf, ShownBy, Open
  <2> QED
    BY <2>6 DEF Abstract!Next
<1>2. CASE ~room_contains_user(rooms[r], u)
  <2>1. Silent
    BY <1>2, SilentCode DEF room_connect
  <2> QED
    BY <1>0, <2>1, MapAsk DEF OwnerOf, MembersOf, Open
<1> QED
  BY <1>1, <1>2

LEMMA MapInvite ==
  ASSUME FreeCells, RInv, NEW u \in Users, NEW v \in Users, NEW r \in RoomIds,
         room_invite(u, r, v)
  PROVE  Abstract!Next
<1> USE RoomFacts
<1>0. rooms \in [RoomIds -> Room]
  BY DEF RInv, TypeOK
<1>1. CASE /\ Accepts(rooms[r], u, v)
           /\ rooms[r].user_cnt < MaxMembers
           /\ rooms' = [rooms EXCEPT ![r] = Invited(@, v)]
           /\ out' = Answer(u, Code("invite", 200))
           /\ UNCHANGED <<rooms_cnt, log>>
  <2> DEFINE room == rooms[r]
             new  == Invited(room, v)
  <2>1. room \in Room
    BY <1>0
  <2>2. room.user_cnt \in Nat
    BY <2>1 DEF Room
  <2>3. room.user_cnt < ROOM_USER_MAX
    BY <1>1, <2>2 DEF FreeCells
  <2>4. /\ new \in Room /\ new.status = room.status
        /\ new.super_user_id = room.super_user_id
    BY <2>1, <2>2, <2>3, InvitedType
  <2>5. /\ new.user_cnt = room.user_cnt + 1
        /\ new.users = [room.users EXCEPT ![room.user_cnt] = v]
    BY <2>1, <2>3 DEF Invited, Room
  <2>6. Members(new) = Members(room) \cup {v}
    <3>1. Members(room) = {room.users[i] : i \in 0 .. room.user_cnt - 1}
      BY <2>1, <2>2, <2>3, MembersAreCells
    <3>2. Members(new) = {new.users[i] : i \in 0 .. new.user_cnt - 1}
      <4>1. new.user_cnt <= ROOM_USER_MAX
        BY <2>2, <2>3, <2>5
      <4> HIDE DEF new
      <4> QED
        BY <2>4, <4>1, MembersAreCells
    <3>3. room.users \in [0 .. ROOM_USER_MAX - 1 -> Users]
      BY <2>1 DEF Room
    <3> HIDE DEF room, new
    <3>4. /\ \A i \in 0 .. room.user_cnt - 1 : new.users[i] = room.users[i]
          /\ new.users[room.user_cnt] = v
      BY <2>2, <2>3, <2>5, <3>3
    <3>5. 0 .. new.user_cnt - 1 = (0 .. room.user_cnt - 1) \cup {room.user_cnt}
      BY <2>2, <2>5
    <3> QED
      BY <3>1, <3>2, <3>4, <3>5
  <2>7. rooms' = [rooms EXCEPT ![r] = new]
    BY <1>1
  <2> HIDE DEF new
  <2>8. OwnerOf' = OwnerOf
    BY <1>0, <2>4, <2>7 DEF OwnerOf, Open
  <2>9. MembersOf' = [MembersOf EXCEPT ![r] = @ \cup {v}]
    BY <1>0, <2>6, <2>7 DEF MembersOf
  <2>10. u \in MembersOf[r]
    BY <1>1 DEF MembersOf, Accepts, room_contains_user
  <2>11. Silent
    BY <1>1, SilentCode
  <2>12. Abstract!Invite(u, r, v)
    BY <1>1, <2>8, <2>9, <2>10, <2>11
       DEF Abstract!Invite, Abstract!Nothing, OwnerOf, MembersOf, Silent, ShownBy
  <2> QED
    BY <2>12 DEF Abstract!Next
<1>2. CASE out' = Answer(u, Code("invite", 300)) /\ UNCHANGED <<rooms, rooms_cnt, log>>
  BY <1>2, SilentCode, MapAsk DEF OwnerOf, MembersOf, Open
<1> QED
  BY <1>1, <1>2 DEF room_invite

LEMMA MapChat ==
  ASSUME FreeCells, RInv, MembersDistinct, NEW r \in RoomIds, NEW m \in Chats, send_chat(r, m)
  PROVE  Abstract!Next
<1>0. rooms \in [RoomIds -> Room] /\ log \in [RoomIds -> Seq(Chats)]
  BY DEF RInv, TypeOK
<1>1. CASE /\ room_contains_user(rooms[r], m.from)
           /\ Len(log[r]) < MaxLog
           /\ out' = ToEveryCell(rooms[r], m)
           /\ rooms' = [rooms EXCEPT ![r].history = push_history(@, m)]
           /\ log' = [log EXCEPT ![r] = Append(@, m)]
  <2>1. ShownBy' = [v \in Users |-> IF v \in Members(rooms[r]) THEN <<m>> ELSE <<>>]
    <3> DEFINE room == rooms[r]
    <3>1. /\ room \in Room /\ room.user_cnt <= ROOM_USER_MAX
          /\ \A i, j \in 0 .. room.user_cnt - 1 : room.users[i] = room.users[j] => i = j
      BY <1>0 DEF MembersDistinct
    <3> HIDE DEF room
    <3>2. [v \in Users |-> ChatsIn(ToEveryCell(room, m)[v])]
            = [v \in Users |-> IF v \in Members(room) THEN <<m>> ELSE <<>>]
      BY <3>1, ChatShown
    <3> QED
      BY <1>1, <3>2 DEF ShownBy, room
  <2>2. /\ rooms'[r].user_cnt = rooms[r].user_cnt
        /\ rooms'[r].users = rooms[r].users
        /\ rooms'[r].status = rooms[r].status
        /\ rooms'[r].super_user_id = rooms[r].super_user_id
    BY <1>0, <1>1 DEF Room
  <2>3. \A q \in RoomIds : q # r => rooms'[q] = rooms[q]
    BY <1>0, <1>1
  <2>4. Members(rooms'[r]) = Members(rooms[r])
    BY <2>2 DEF Members, Cell
  <2>5. OwnerOf' = OwnerOf
    BY <2>2, <2>3 DEF OwnerOf, Open
  <2>6. MembersOf' = MembersOf
    BY <2>3, <2>4 DEF MembersOf
  <2>7. m.from \in MembersOf[r]
    BY <1>1 DEF MembersOf, room_contains_user
  <2>8. Abstract!Say(r, m)
    BY <1>1, <2>1, <2>5, <2>6, <2>7
       DEF Abstract!Say, Abstract!Audience, OwnerOf, MembersOf, ShownBy
  <2> QED
    BY <2>8 DEF Abstract!Next, Abstract!Chats, Chats
<1>2. CASE out' = Answer(m.from, Code("chat", 500)) /\ UNCHANGED <<rooms, rooms_cnt, log>>
  <2>1. m.from \in Users
    BY DEF Chats
  <2> QED
    BY <1>2, <2>1, SilentCode, MapAsk DEF OwnerOf, MembersOf, Open
<1> QED
  BY <1>1, <1>2 DEF send_chat

LEMMA MapList ==
  ASSUME NEW u \in Users, room_list(u)
  PROVE  Abstract!Next
<1>1. Silent
  <2>1. RoomList(Listed(u)).chat = NoChat
    BY DEF RoomList
  <2> QED
    BY <2>1, SilentAnswer DEF room_list, Silent, ShownBy
<1> QED
  BY <1>1, MapAsk DEF room_list, OwnerOf, MembersOf, Open

LEMMA MapInit == Init => Abstract!Init
<1> SUFFICES ASSUME Init PROVE Abstract!Init
  OBVIOUS
<1>1. \A r \in RoomIds : rooms[r] = Blank
  BY DEF Init
<1>2. \A u \in Users : ChatsIn(out[u]) = <<>>
  BY DEF Init, Nothing, ChatsIn
<1> QED
  BY <1>1, <1>2, BlankIsEmpty DEF Init, Open, Abstract!Init, Abstract!Nothing

LEMMA MapNext ==
  ASSUME FreeCells, FreeRooms
  PROVE  RInv /\ MembersDistinct /\ [Next]_vars => [Abstract!Next]_(Abstract!vars)
<1> SUFFICES ASSUME RInv, MembersDistinct, [Next]_vars
             PROVE  [Abstract!Next]_(Abstract!vars)
  OBVIOUS
<1>1. CASE Next
  <2>1. Abstract!Next
    BY <1>1, MapCreate, MapDelete, MapConnect, MapInvite, MapChat, MapList DEF Next
  <2> QED
    BY <2>1
<1>2. CASE UNCHANGED vars
  BY <1>2 DEF vars, Abstract!vars, Open
<1> QED
  BY <1>1, <1>2

\* While users leave a room free and a cell free, every request does to the rooms
\* what Chatrooms allows, and shows each user what Chatrooms shows.
THEOREM RoomsImplement ==
  ASSUME FreeCells, FreeRooms
  PROVE  Spec => ImplementsChatrooms
<1>1. Init => Abstract!Init
  BY MapInit
<1>2. RInv /\ MembersDistinct /\ [Next]_vars => [Abstract!Next]_(Abstract!vars)
  BY MapNext
<1>3. Init => MembersDistinct
  BY BlankIsEmpty, RoomFacts DEF Init, MembersDistinct, ROOM_STATUS_ON, ROOM_STATUS_OFF
<1>4. RInv /\ MembersDistinct /\ [Next]_vars => (RInv /\ MembersDistinct)'
  BY RInvStep, DistinctStep
<1> QED
  BY <1>1, <1>2, <1>3, <1>4, RInvInit, PTL DEF Spec, Abstract!Spec, ImplementsChatrooms

-----------------------------------------------------------------------------
(* Lists.                                                                  *)

\* A room that is on is found under its own id.
IdIsIndex ==
  \A r \in RoomIds : rooms[r].status # ROOM_STATUS_OFF => rooms[r].id = r /\ r < rooms_cnt

LEMMA IndexStep == RInv /\ IdIsIndex /\ [Next]_vars => IdIsIndex'
<1> SUFFICES ASSUME RInv, IdIsIndex, [Next]_vars, NEW q \in RoomIds,
                    rooms'[q].status # ROOM_STATUS_OFF
             PROVE  rooms'[q].id = q /\ q < rooms_cnt'
  BY DEF IdIsIndex
<1> USE RoomFacts
<1>0. rooms \in [RoomIds -> Room] /\ rooms_cnt \in Nat
  BY DEF RInv, TypeOK
<1>1. ASSUME NEW u \in Users, room_create(u)
      PROVE  rooms'[q].id = q /\ q < rooms_cnt'
  <2>1. PICK r \in RoomIds :
          /\ rooms' = [rooms EXCEPT ![r] = Created(u, r)]
          /\ rooms_cnt' = IF r + 1 > rooms_cnt THEN r + 1 ELSE rooms_cnt
    BY <1>1 DEF room_create
  <2>2. CASE q = r
    BY <1>0, <2>1, <2>2, CreatedIs
  <2>3. CASE q # r
    <3>1. rooms'[q] = rooms[q]
      BY <1>0, <2>1, <2>3
    <3>2. rooms[q].id = q /\ q < rooms_cnt
      BY <3>1 DEF IdIsIndex
    <3> QED
      BY <1>0, <2>1, <3>1, <3>2
  <2> QED
    BY <2>2, <2>3
<1>2. CASE UNCHANGED <<rooms, rooms_cnt>>
  BY <1>2 DEF IdIsIndex
<1>3. ASSUME NEW u \in Users, NEW r \in RoomIds, room_delete(u, r)
      PROVE  rooms'[q].id = q /\ q < rooms_cnt'
  <2>1. CASE rooms' = [rooms EXCEPT ![r] = Blank] /\ UNCHANGED rooms_cnt
    <3>1. q # r
      BY <1>0, <2>1, BlankIsEmpty
    <3> QED
      BY <1>0, <2>1, <3>1 DEF IdIsIndex
  <2> QED
    BY <1>2, <1>3, <2>1 DEF room_delete, Deleted
<1>4. ASSUME NEW u \in Users, NEW v \in Users, NEW r \in RoomIds, room_invite(u, r, v)
      PROVE  rooms'[q].id = q /\ q < rooms_cnt'
  <2>1. CASE rooms' = [rooms EXCEPT ![r] = Invited(@, v)] /\ UNCHANGED rooms_cnt
    <3>1. rooms[r] \in Room
      BY <1>0
    <3>2. Invited(rooms[r], v).id = rooms[r].id /\ Invited(rooms[r], v).status = rooms[r].status
      BY <3>1 DEF Invited, Room
    <3>3. rooms'[q].id = rooms[q].id /\ rooms'[q].status = rooms[q].status
      BY <1>0, <2>1, <3>2
    <3> QED
      BY <2>1, <3>3 DEF IdIsIndex
  <2> QED
    BY <1>2, <1>4, <2>1 DEF room_invite
<1>5. ASSUME NEW r \in RoomIds, NEW m \in Chats, send_chat(r, m)
      PROVE  rooms'[q].id = q /\ q < rooms_cnt'
  <2>1. CASE rooms' = [rooms EXCEPT ![r].history = push_history(@, m)] /\ UNCHANGED rooms_cnt
    <3>1. rooms'[q].id = rooms[q].id /\ rooms'[q].status = rooms[q].status
      <4>1. CASE q = r
        <5>1. rooms'[q] = [rooms[q] EXCEPT !.history = push_history(@, m)]
          BY <1>0, <2>1, <4>1
        <5>2. rooms[q] \in Room
          BY <1>0
        <5> QED
          BY <5>1, <5>2 DEF Room
      <4>2. CASE q # r
        BY <1>0, <2>1, <4>2
      <4> QED
        BY <4>1, <4>2
    <3> QED
      BY <2>1, <3>1 DEF IdIsIndex
  <2> QED
    BY <1>2, <1>5, <2>1 DEF send_chat
<1> QED
  BY <1>1, <1>2, <1>3, <1>4, <1>5 DEF Next, vars, room_list, room_connect

LEMMA ListedIs ==
  ASSUME RInv, IdIsIndex, NEW u \in Users
  PROVE  /\ \A r \in RoomsOf(u) : <<r, r>> \in Listed(u)
         /\ \A e \in Listed(u) : e[2] \in RoomsOf(u)
<1> USE RoomFacts
<1>0. rooms \in [RoomIds -> Room] /\ rooms_cnt \in 0 .. ROOM_MAX
  BY DEF RInv, TypeOK
<1>1. ASSUME NEW r \in RoomIds, rooms[r].status = ROOM_STATUS_OFF
      PROVE  r \notin RoomsOf(u)
  <2>1. rooms[r] = Blank
    BY <1>1 DEF RInv, OffIsBlank
  <2>2. Members(rooms[r]) = {}
    BY <2>1, BlankIsEmpty
  <2> QED
    BY <2>1, <2>2, Zenon DEF RoomsOf, room_contains_user
<1>2. ASSUME NEW r \in RoomsOf(u)
      PROVE  <<r, r>> \in Listed(u)
  <2>1. r \in RoomIds /\ rooms[r].status # ROOM_STATUS_OFF /\ room_contains_user(rooms[r], u)
    BY <1>1 DEF RoomsOf
  <2>2. rooms[r].id = r /\ r < rooms_cnt
    BY <2>1 DEF IdIsIndex
  <2>3. r \in 0 .. rooms_cnt - 1
    BY <1>0, <2>1, <2>2 DEF RoomIds
  <2> QED
    BY <2>1, <2>2, <2>3 DEF Listed
<1>3. ASSUME NEW e \in Listed(u)
      PROVE  e[2] \in RoomsOf(u)
  BY DEF Listed, RoomsOf
<1> QED
  BY <1>2, <1>3

\* Responses other than the list's carry no list.
NoList(s) == \A u \in Users : \A i \in DOMAIN s[u] : s[u][i].code # "list"

LEMMA CodeIsNoList ==
  ASSUME NEW u \in Users, NEW c, c # "list", NEW s
  PROVE  NoList(Answer(u, Code(c, s)))
<1> SUFFICES ASSUME NEW w \in Users, NEW i \in DOMAIN Answer(u, Code(c, s))[w]
             PROVE  Answer(u, Code(c, s))[w][i].code # "list"
  BY DEF NoList
<1>1. Answer(u, Code(c, s))[w] = IF w = u THEN <<Code(c, s)>> ELSE <<>>
  BY DEF Answer, Nothing
<1>2. w = u /\ i = 1
  BY <1>1
<1>3. Answer(u, Code(c, s))[w][i] = Code(c, s)
  BY <1>1, <1>2
<1> QED
  BY <1>3 DEF Code

LEMMA ListedStep == RInv /\ IdIsIndex /\ ListedAreOwn /\ [Next]_vars => ListedAreOwn'
<1> SUFFICES ASSUME RInv, IdIsIndex, ListedAreOwn, [Next]_vars
             PROVE  ListedAreOwn'
  OBVIOUS
<1>0. rooms \in [RoomIds -> Room]
  BY DEF RInv, TypeOK
<1>N. ASSUME NoList(out') PROVE ListedAreOwn'
  BY <1>N DEF NoList, ListedAreOwn
<1>1. ASSUME NEW u \in Users, room_list(u)
      PROVE  ListedAreOwn'
  <2> SUFFICES ASSUME NEW w \in Users, NEW i \in DOMAIN out'[w]
               PROVE  /\ \A r \in RoomsOf(w)' : <<r, r>> \in out'[w][i].list
                      /\ \A e \in out'[w][i].list : e[2] \in RoomsOf(w)'
    BY DEF ListedAreOwn
  <2>1. out'[w] = IF w = u THEN <<RoomList(Listed(u))>> ELSE <<>>
    BY <1>1 DEF room_list, Answer, Nothing
  <2>2. w = u /\ i = 1
    BY <2>1
  <2>3. out'[w][i] = RoomList(Listed(u))
    BY <2>1, <2>2
  <2>4. out'[w][i].list = Listed(u)
    BY <2>3 DEF RoomList
  <2>5. RoomsOf(w)' = RoomsOf(w)
    BY <1>1 DEF room_list, RoomsOf
  <2> QED
    BY <2>2, <2>4, <2>5, ListedIs
<1>2. ASSUME NEW u \in Users, room_create(u)
      PROVE  ListedAreOwn'
  <2>1. NoList(Answer(u, Code("create", 200)))
    BY CodeIsNoList
  <2> QED
    BY <1>2, <1>N, <2>1 DEF room_create
<1>3. ASSUME NEW u \in Users, NEW r \in RoomIds, room_delete(u, r)
      PROVE  ListedAreOwn'
  <2>1. NoList(Answer(u, Code("delete", 200))) /\ NoList(Answer(u, Code("delete", 500)))
    BY CodeIsNoList
  <2> QED
    BY <1>3, <1>N, <2>1 DEF room_delete
<1>4. ASSUME NEW u \in Users, NEW r \in RoomIds, room_connect(u, r)
      PROVE  ListedAreOwn'
  <2>1. CASE out' = Answer(u, Code("connect", 500))
    <3>1. NoList(Answer(u, Code("connect", 500)))
      BY CodeIsNoList
    <3> QED
      BY <1>N, <2>1, <3>1
  <2>2. CASE out' = [Nothing EXCEPT ![u] =
               [i \in DOMAIN rooms[r].history |-> Chat(rooms[r].history[i])]]
    <3> SUFFICES ASSUME NEW w \in Users, NEW i \in DOMAIN out'[w]
                 PROVE  out'[w][i].code # "list"
      BY <1>N DEF NoList
    <3>1. out'[w] = IF w = u THEN [j \in DOMAIN rooms[r].history |-> Chat(rooms[r].history[j])]
                    ELSE <<>>
      BY <2>2 DEF Nothing
    <3>2. out'[w][i] = Chat(rooms[r].history[i])
      BY <3>1
    <3> QED
      BY <3>2 DEF Chat
  <2> QED
    BY <1>4, <2>1, <2>2 DEF room_connect
<1>5. ASSUME NEW u \in Users, NEW v \in Users, NEW r \in RoomIds, room_invite(u, r, v)
      PROVE  ListedAreOwn'
  <2>1. NoList(Answer(u, Code("invite", 200))) /\ NoList(Answer(u, Code("invite", 300)))
    BY CodeIsNoList
  <2> QED
    BY <1>5, <1>N, <2>1 DEF room_invite
<1>6. ASSUME NEW r \in RoomIds, NEW m \in Chats, send_chat(r, m)
      PROVE  ListedAreOwn'
  <2>1. CASE out' = Answer(m.from, Code("chat", 500))
    <3>1. m.from \in Users
      BY DEF Chats
    <3>2. NoList(Answer(m.from, Code("chat", 500)))
      BY <3>1, CodeIsNoList
    <3> QED
      BY <1>N, <2>1, <3>2
  <2>2. CASE out' = ToEveryCell(rooms[r], m)
    <3> SUFFICES ASSUME NEW w \in Users, NEW i \in DOMAIN out'[w]
                 PROVE  out'[w][i].code # "list"
      BY <1>N DEF NoList
    <3>1. out'[w][i] = Chat(m)
      BY <2>2 DEF ToEveryCell
    <3> QED
      BY <3>1 DEF Chat
  <2> QED
    BY <1>6, <2>1, <2>2 DEF send_chat
<1>7. CASE UNCHANGED vars
  BY <1>7 DEF vars, ListedAreOwn, RoomsOf
<1> QED
  BY <1>1, <1>2, <1>3, <1>4, <1>5, <1>6, <1>7 DEF Next

\* The answer to /rl has every room the user is in, under its own place, and no
\* room of others, in every behaviour and for every size of the table
\* (res.c:75-86).
THEOREM Listing == Spec => []ListedAreOwn
<1>1. Init => IdIsIndex /\ ListedAreOwn
  <2> SUFFICES ASSUME Init PROVE IdIsIndex /\ ListedAreOwn
    OBVIOUS
  <2>1. IdIsIndex
    BY BlankIsEmpty DEF Init, IdIsIndex
  <2>2. ListedAreOwn
    BY DEF Init, Nothing, ListedAreOwn
  <2> QED
    BY <2>1, <2>2
<1>2. RInv /\ IdIsIndex /\ ListedAreOwn /\ [Next]_vars => (RInv /\ IdIsIndex /\ ListedAreOwn)'
  BY RInvStep, IndexStep, ListedStep
<1> QED
  BY <1>1, <1>2, RInvInit, PTL DEF Spec
=============================================================================
