------------------------------- MODULE Rooms -------------------------------
(***************************************************************************)
(* The manager's chat rooms: the table rooms[] of manager/src/room.c and   *)
(* the handlers of manager/src/req.c that work on it, each with the        *)
(* responses manager/src/res.c writes.  The manager handles one request at *)
(* a time, so a handler is one step.                                       *)
(*                                                                         *)
(* Room and user ids that requests name are inside the tables.  A user is  *)
(* a slot of the user table; who holds a slot is left to Sessions.         *)
(***************************************************************************)
EXTENDS Naturals, Sequences, FiniteSets

CONSTANTS
  USER_MAX,          \* length of users[]
  ROOM_MAX,          \* length of rooms[]
  ROOM_USER_MAX,     \* length of a room's users[]
  ROOM_HISTORY_LEN,  \* length of a room's history[]
  Texts,             \* contents of a chat
  NoChat,            \* a response that carries no chat
  NoOwner,           \* the owner of a room that does not exist
  MaxOpen,           \* bound: rooms are created while fewer than this are open
  MaxMembers,        \* bound: users are invited while a room has fewer than this
  MaxLog             \* bound: chats said in one room

Users   == 0 .. USER_MAX - 1
RoomIds == 0 .. ROOM_MAX - 1
Chats   == [from : Users, text : Texts]

ASSUME RoomsAssumption ==
  /\ USER_MAX \in Nat \ {0}
  /\ ROOM_MAX \in Nat \ {0}
  /\ ROOM_USER_MAX \in Nat \ {0}
  /\ ROOM_HISTORY_LEN \in Nat \ {0}
  /\ NoChat \notin Chats
  /\ NoOwner \notin Users

\* One member more than the cells hold is as far as the layout of struct ROOM
\* is followed.
ASSUME RoomsBoundAssumption ==
  /\ MaxOpen \in Nat
  /\ MaxMembers \in 1 .. ROOM_USER_MAX + 1
  /\ MaxLog \in Nat

ROOM_STATUS_OFF == 0
ROOM_STATUS_ON  == 1

VARIABLES
  rooms,      \* rooms[r] : struct ROOM (the name plays no part here)
  rooms_cnt,  \* one more than the highest room id ever allocated
  out,        \* the responses the last request wrote to each user's socket
  log         \* history variable: the chats accepted since the room was created

vars == <<rooms, rooms_cnt, out, log>>

Room ==
  [id            : RoomIds,
   status        : {ROOM_STATUS_OFF, ROOM_STATUS_ON},
   super_user_id : Users,
   users         : [0 .. ROOM_USER_MAX - 1 -> Users],
   user_cnt      : 0 .. ROOM_USER_MAX + 2,
   history       : Seq(Chats)]

Response ==
  [code : {"create", "delete", "connect", "chat", "invite", "list"},
   status : {200, 300, 500},
   chat : Chats \cup {NoChat},
   list : SUBSET (RoomIds \X RoomIds)]

TypeOK ==
  /\ rooms \in [RoomIds -> Room]
  /\ rooms_cnt \in 0 .. ROOM_MAX
  /\ out \in [Users -> Seq(Response)]
  /\ log \in [RoomIds -> Seq(Chats)]
  /\ \A r \in RoomIds : Len(rooms[r].history) <= ROOM_HISTORY_LEN

\* A room after memset().
Blank ==
  [id            |-> 0,
   status        |-> ROOM_STATUS_OFF,
   super_user_id |-> 0,
   users         |-> [i \in 0 .. ROOM_USER_MAX - 1 |-> 0],
   user_cnt      |-> 0,
   history       |-> <<>>]

Nothing == [u \in Users |-> <<>>]

Init ==
  /\ rooms = [r \in RoomIds |-> Blank]
  /\ rooms_cnt = 0
  /\ out = Nothing
  /\ log = [r \in RoomIds |-> <<>>]

-----------------------------------------------------------------------------
(* A room's members and its history.                                       *)

\* users[i] of a room; past its end lie user_cnt and status.
Cell(room, i) ==
  IF i < ROOM_USER_MAX THEN room.users[i]
  ELSE IF i = ROOM_USER_MAX THEN room.user_cnt ELSE room.status

Members(room) == {Cell(room, i) : i \in 0 .. room.user_cnt - 1}

room_contains_user(room, u) == u \in Members(room)

Open == {r \in RoomIds : rooms[r].status # ROOM_STATUS_OFF}

\* new_room_id(): the lowest room that is off, room 0 when there is none.
NewRoomId(r) ==
  \/ /\ r \notin Open
     /\ \A q \in RoomIds : q < r => q \in Open
  \/ /\ Open = RoomIds
     /\ r = 0

\* Mutants of push_history: one chat too many is kept; a full history is not
\* shifted.
OneTooMany(h, m) == IF Len(h) <= ROOM_HISTORY_LEN THEN Append(h, m) ELSE Append(Tail(h), m)

OverwriteLast(h, m) ==
  IF Len(h) < ROOM_HISTORY_LEN THEN Append(h, m) ELSE [h EXCEPT ![ROOM_HISTORY_LEN] = m]

push_history(h, m) ==
  IF Len(h) < ROOM_HISTORY_LEN THEN Append(h, m) ELSE Append(Tail(h), m)

-----------------------------------------------------------------------------
(* Responses.                                                              *)

Code(c, s)  == [code |-> c, status |-> s, chat |-> NoChat, list |-> {}]
Chat(m)     == [code |-> "chat", status |-> 200, chat |-> m, list |-> {}]
RoomList(l) == [code |-> "list", status |-> 200, chat |-> NoChat, list |-> l]

\* response_code() to one user.
Answer(u, resp) == [Nothing EXCEPT ![u] = <<resp>>]

\* The chat m once for every cell of the room, whoever it names.
ToEveryCell(room, m) ==
  [u \in Users |->
     [k \in 1 .. Cardinality({i \in 0 .. room.user_cnt - 1 : Cell(room, i) = u}) |-> Chat(m)]]

-----------------------------------------------------------------------------
(* One action for each request of user u.                                  *)

\* A room cleared, then opened by u.
Created(u, r) ==
  [id            |-> r,
   status        |-> ROOM_STATUS_ON,
   super_user_id |-> u,
   users         |-> [Blank.users EXCEPT ![0] = u],
   user_cnt      |-> 1,
   history       |-> <<>>]

room_create(u) ==
  /\ Cardinality(Open) < MaxOpen
  /\ \E r \in RoomIds :
       /\ NewRoomId(r)
       /\ rooms' = [rooms EXCEPT ![r] = Created(u, r)]
       /\ rooms_cnt' = IF r + 1 > rooms_cnt THEN r + 1 ELSE rooms_cnt
       /\ log' = [log EXCEPT ![r] = <<>>]
  /\ out' = Answer(u, Code("create", 200))

\* Mutant of Deleted: the room is turned off but not cleared, as in
\* release/manager/src/main.c.
TurnedOff(room) == [room EXCEPT !.status = ROOM_STATUS_OFF]

Deleted(room) == Blank

room_delete(u, r) ==
  \/ /\ u = rooms[r].super_user_id
     /\ rooms' = [rooms EXCEPT ![r] = Deleted(@)]
     /\ log' = [log EXCEPT ![r] = <<>>]
     /\ out' = Answer(u, Code("delete", 200))
     /\ UNCHANGED rooms_cnt
  \/ /\ u # rooms[r].super_user_id
     /\ out' = Answer(u, Code("delete", 500))
     /\ UNCHANGED <<rooms, rooms_cnt, log>>

room_connect(u, r) ==
  /\ out' = IF room_contains_user(rooms[r], u)
            THEN [Nothing EXCEPT ![u] =
                    [i \in DOMAIN rooms[r].history |-> Chat(rooms[r].history[i])]]
            ELSE Answer(u, Code("connect", 500))
  /\ UNCHANGED <<rooms, rooms_cnt, log>>

\* Mutants of Accepts: does not ask whether u is in the room, or whether v is.
AcceptsAnyone(room, u, v) == ~room_contains_user(room, v)
AcceptsTwice(room, u, v) == room_contains_user(room, u)

Accepts(room, u, v) == room_contains_user(room, u) /\ ~room_contains_user(room, v)

\* users[user_cnt++] = v; when the cells are full the store is to user_cnt.
Invited(room, v) ==
  IF room.user_cnt < ROOM_USER_MAX
  THEN [room EXCEPT !.users[room.user_cnt] = v, !.user_cnt = @ + 1]
  ELSE [room EXCEPT !.user_cnt = v + 1]

room_invite(u, r, v) ==
  \/ /\ Accepts(rooms[r], u, v)
     /\ rooms[r].user_cnt < MaxMembers
     /\ rooms[r].user_cnt = ROOM_USER_MAX => v <= ROOM_USER_MAX + 1
     /\ rooms' = [rooms EXCEPT ![r] = Invited(@, v)]
     /\ out' = Answer(u, Code("invite", 200))
     /\ UNCHANGED <<rooms_cnt, log>>
  \/ /\ ~Accepts(rooms[r], u, v)
     /\ out' = Answer(u, Code("invite", 300))
     /\ UNCHANGED <<rooms, rooms_cnt, log>>

\* The request names its sender: the handler takes that id for the user's.
send_chat(r, m) ==
  \/ /\ room_contains_user(rooms[r], m.from)
     /\ Len(log[r]) < MaxLog
     /\ out' = ToEveryCell(rooms[r], m)
     /\ rooms' = [rooms EXCEPT ![r].history = push_history(@, m)]
     /\ log' = [log EXCEPT ![r] = Append(@, m)]
     /\ UNCHANGED rooms_cnt
  \/ /\ ~room_contains_user(rooms[r], m.from)
     /\ out' = Answer(m.from, Code("chat", 500))
     /\ UNCHANGED <<rooms, rooms_cnt, log>>

\* Mutant of Listed: rooms_cnt is taken for the highest id, not one more.
ListedBelow(u) ==
  {e \in (0 .. rooms_cnt - 1) \X RoomIds :
     e[1] < rooms_cnt - 1 /\ e[2] = rooms[e[1]].id /\ room_contains_user(rooms[e[2]], u)}

\* The entries of res_room_list(), each an index of the table and the id found
\* there: a room that is off has id 0.
Listed(u) ==
  {e \in (0 .. rooms_cnt - 1) \X RoomIds :
     e[2] = rooms[e[1]].id /\ room_contains_user(rooms[e[2]], u)}

room_list(u) ==
  /\ out' = Answer(u, RoomList(Listed(u)))
  /\ UNCHANGED <<rooms, rooms_cnt, log>>

Next ==
  \/ \E u \in Users : room_create(u) \/ room_list(u)
  \/ \E u \in Users, r \in RoomIds : room_delete(u, r) \/ room_connect(u, r)
  \/ \E u, v \in Users, r \in RoomIds : room_invite(u, r, v)
  \/ \E r \in RoomIds, m \in Chats : send_chat(r, m)

Spec == Init /\ [][Next]_vars

-----------------------------------------------------------------------------
(* What the rooms promise.                                                 *)

\* While rooms are not overfilled, no user has two cells of a room, and the room's
\* super user has the first:
\* otherwise a chat would reach somebody twice (req.c:198-201, 238-241).
MembersDistinct ==
  \A r \in RoomIds :
    LET room == rooms[r]
    IN  /\ room.user_cnt <= ROOM_USER_MAX
        /\ \A i, j \in 0 .. room.user_cnt - 1 : room.users[i] = room.users[j] => i = j
        /\ room.status = ROOM_STATUS_ON =>
             room.user_cnt > 0 /\ room.users[0] = room.super_user_id

\* A room that is off keeps nothing of its former life: whoever asks for it by
\* its id finds no members and no history (req.c:138-139).
OffIsBlank == \A r \in RoomIds : rooms[r].status = ROOM_STATUS_OFF => rooms[r] = Blank

\* Connecting shows the latest chats of the room, in the order they were sent,
\* none of an earlier room with the same id (room.c:42-62, res.c:97).
LastOf(s, n) == IF Len(s) <= n THEN s ELSE SubSeq(s, Len(s) - n + 1, Len(s))

HistoryIsSuffix == \A r \in RoomIds : rooms[r].history = LastOf(log[r], ROOM_HISTORY_LEN)

\* The answer to /rl has every room the user is in, under its own place of the
\* table and so with its own name, and no room of others: the loop asks about
\* the ids it finds, up to the highest ever allocated (res.c:75-86).
RoomsOf(u) == {r \in RoomIds : room_contains_user(rooms[r], u)}

ListedAreOwn ==
  \A u \in Users : \A i \in DOMAIN out[u] :
    out[u][i].code = "list" =>
      /\ \A r \in RoomsOf(u) : <<r, r>> \in out[u][i].list
      /\ \A e \in out[u][i].list : e[2] \in RoomsOf(u)

\* "/rl : prints the list of the rooms one belongs to" (gogup_client/readme:32):
\* no room is in it twice.
ListedOnce ==
  \A u \in Users : \A i \in DOMAIN out[u] :
    \A e, f \in out[u][i].list : e[2] = f[2] => e = f

\* The table of rooms implements Chatrooms, while users leave a room free and
\* a cell free in every room they invite to.
ChatsIn(s) ==
  IF s # <<>> /\ s[1].chat # NoChat THEN [i \in DOMAIN s |-> s[i].chat] ELSE <<>>

Abstract ==
  INSTANCE Chatrooms WITH
    Rooms   <- RoomIds,
    Latest  <- ROOM_HISTORY_LEN,
    owner   <- [r \in RoomIds |-> IF r \in Open THEN rooms[r].super_user_id ELSE NoOwner],
    members <- [r \in RoomIds |-> Members(rooms[r])],
    shown   <- [u \in Users |-> ChatsIn(out[u])]

ImplementsChatrooms == Abstract!Spec
=============================================================================
