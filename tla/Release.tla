------------------------------ MODULE Release ------------------------------
(***************************************************************************)
(* The release manager, release/manager/src: the earlier version of the    *)
(* manager that the repository keeps with a binary.  Persons take slots of *)
(* users[] and leave them; rooms[] remembers slots.  A request is handled  *)
(* completely before the next, so a handler is one step.                   *)
(*                                                                         *)
(* It differs from Rooms in three ways: a deleted room is only marked off, *)
(* a chat is from the slot whose connection it came in on, and the replay  *)
(* of a connect has the code of connect.  Heartbeats, which Sessions       *)
(* models for the same code of manager/, are left out, so a slot is on     *)
(* line while somebody holds it.                                           *)
(***************************************************************************)
EXTENDS Naturals, Sequences, FiniteSets

\* Tables have at least one entry; what an invitation into a full room
\* overwrites is the subject of Rooms: MaxMembers is at most ROOM_USER_MAX.
CONSTANTS
  USER_MAX,          \* length of users[]
  ROOM_MAX,          \* length of rooms[]
  ROOM_USER_MAX,     \* length of a room's users[]
  ROOM_HISTORY_LEN,  \* length of a room's history[]
  Texts,             \* contents of a chat
  NoChat,            \* a response that carries no chat
  Persons,           \* those who run a client
  Nobody,            \* the holder of a slot that is off line
  MaxOpen,           \* bound: rooms are created while fewer than this are open
  MaxMembers,        \* bound: users are invited while a room has fewer than this
  MaxLog             \* bound: chats said in one room

Users   == 0 .. USER_MAX - 1
RoomIds == 0 .. ROOM_MAX - 1
Chats   == [from : Users, text : Texts]

ROOM_STATUS_OFF == 0
ROOM_STATUS_ON  == 1

VARIABLES
  holder,     \* holder[u] : the person whose connection is in users[u].sock
  rooms,      \* rooms[r] : struct ROOM; users is the filled part of its cells
  rooms_cnt,  \* one more than the highest room id ever allocated
  out,        \* the responses the last request wrote to each user's socket
  log,        \* history variable: the chats accepted since the room was created
  admitted    \* history variable: the persons who created a room or were invited

roomVars == <<rooms, rooms_cnt, log, admitted>>
vars     == <<holder, roomVars, out>>

Room ==
  [id            : RoomIds,
   status        : {ROOM_STATUS_OFF, ROOM_STATUS_ON},
   super_user_id : Users,
   users         : Seq(Users),
   history       : Seq(Chats)]

Response ==
  [code   : {"register", "create", "delete", "connect", "chat", "invite", "list", "users"},
   status : {200, 300, 500},
   room   : RoomIds,
   chat   : Chats \cup {NoChat},
   list   : SUBSET RoomIds]

TypeOK ==
  /\ holder \in [Users -> Persons \cup {Nobody}]
  /\ rooms \in [RoomIds -> Room]
  /\ rooms_cnt \in 0 .. ROOM_MAX
  /\ out \in [Users -> Seq(Response)]
  /\ log \in [RoomIds -> Seq(Chats)]
  /\ admitted \in [RoomIds -> SUBSET Persons]
  /\ \A r \in RoomIds :
       /\ Len(rooms[r].history) <= ROOM_HISTORY_LEN
       /\ Len(rooms[r].users) <= ROOM_USER_MAX

\* A room before it is first created.
Blank ==
  [id |-> 0, status |-> ROOM_STATUS_OFF, super_user_id |-> 0, users |-> <<>>, history |-> <<>>]

Nothing == [u \in Users |-> <<>>]

Init ==
  /\ holder = [u \in Users |-> Nobody]
  /\ rooms = [r \in RoomIds |-> Blank]
  /\ rooms_cnt = 0
  /\ out = Nothing
  /\ log = [r \in RoomIds |-> <<>>]
  /\ admitted = [r \in RoomIds |-> {}]

Online == {u \in Users : holder[u] # Nobody}
Open   == {r \in RoomIds : rooms[r].status # ROOM_STATUS_OFF}

Members(room) == {room.users[i] : i \in DOMAIN room.users}

\* Whether the room is off is not asked.
room_contains_user(r, u) == u \in Members(rooms[r])

\* new_room_id(): the lowest room that is off, room 0 when there is none.
NewRoomId(r) ==
  \/ r \notin Open /\ \A q \in RoomIds : q < r => q \in Open
  \/ Open = RoomIds /\ r = 0

\* new_user_id(): the lowest slot that is off line, slot 0 when there is none.
NewUserId(u) ==
  \/ u \notin Online /\ \A v \in Users : v < u => v \in Online
  \/ Online = Users /\ u = 0

\* Mutant of push_history: one chat too many is kept.
OneTooMany(h, m) == IF Len(h) <= ROOM_HISTORY_LEN THEN Append(h, m) ELSE Append(Tail(h), m)

push_history(h, m) ==
  IF Len(h) < ROOM_HISTORY_LEN THEN Append(h, m) ELSE Append(Tail(h), m)

-----------------------------------------------------------------------------
(* Responses.                                                              *)

Code(c, s, r)    == [code |-> c, status |-> s, room |-> r, chat |-> NoChat, list |-> {}]
Carries(c, r, m) == [code |-> c, status |-> 200, room |-> r, chat |-> m, list |-> {}]
RoomList(l)      == [code |-> "list", status |-> 200, room |-> 0, chat |-> NoChat, list |-> l]

\* send_to_user(): a response to a slot that is off line goes to a closed
\* descriptor, and nobody reads it.
Sent(responses) == [u \in Users |-> IF u \in Online THEN responses[u] ELSE <<>>]

Answer(u, response) == out' = Sent([Nothing EXCEPT ![u] = <<response>>])

\* Mutant of ToMembers: the one who speaks is left out.
ToOthers(r, response) ==
  out' = Sent([u \in Users |->
           IF u \in Members(rooms[r]) /\ u # response.chat.from THEN <<response>> ELSE <<>>])

\* The response once for every cell of the room.
ToMembers(r, response) ==
  out' = Sent([u \in Users |->
           [k \in 1 .. Cardinality({i \in DOMAIN rooms[r].users : rooms[r].users[i] = u})
              |-> response]])

-----------------------------------------------------------------------------
(* Users come and go.                                                      *)

\* When the table is full the user in slot 0 loses it to the newcomer.
handle_new_user(p) ==
  /\ \A u \in Users : holder[u] # p
  /\ \E u \in Users : NewUserId(u) /\ holder' = [holder EXCEPT ![u] = p]
  /\ out' = Nothing
  /\ UNCHANGED roomVars

\* handle_request() when read() says that the peer has gone: rooms[] is not told.
handle_closed(u) ==
  /\ u \in Online
  /\ holder' = [holder EXCEPT ![u] = Nobody]
  /\ out' = Nothing
  /\ UNCHANGED roomVars

-----------------------------------------------------------------------------
(* The requests of user u.                                                 *)

\* The answer is a line of text: the user id is not a field of it.
user_register(u) ==
  /\ Answer(u, Code("register", 200, 0))
  /\ UNCHANGED <<holder, roomVars>>

Created(u, r) ==
  [id |-> r, status |-> ROOM_STATUS_ON, super_user_id |-> u, users |-> <<u>>, history |-> <<>>]

room_create(u) ==
  /\ Cardinality(Open) < MaxOpen
  /\ \E r \in RoomIds :
       /\ NewRoomId(r)
       /\ rooms' = [rooms EXCEPT ![r] = Created(u, r)]
       /\ rooms_cnt' = IF r + 1 > rooms_cnt THEN r + 1 ELSE rooms_cnt
       /\ log' = [log EXCEPT ![r] = <<>>]
       /\ admitted' = [admitted EXCEPT ![r] = {holder[u]}]
       /\ Answer(u, Code("create", 200, r))
  /\ UNCHANGED holder

\* Nothing but the status changes: the room keeps its members and its history.
room_delete(u, r) ==
  \/ /\ u = rooms[r].super_user_id
     /\ rooms' = [rooms EXCEPT ![r].status = ROOM_STATUS_OFF]
     /\ Answer(u, Code("delete", 200, r))
     /\ UNCHANGED <<holder, rooms_cnt, log, admitted>>
  \/ /\ u # rooms[r].super_user_id
     /\ Answer(u, Code("delete", 500, r))
     /\ UNCHANGED <<holder, roomVars>>

\* res_room_connect() replays the history with the code of connect.
room_connect(u, r) ==
  /\ \/ /\ room_contains_user(r, u)
        /\ out' = Sent([Nothing EXCEPT ![u] =
                    [i \in DOMAIN rooms[r].history |-> Carries("connect", r, rooms[r].history[i])]])
     \/ /\ ~room_contains_user(r, u)
        /\ Answer(u, Code("connect", 500, r))
  /\ UNCHANGED <<holder, roomVars>>

\* Mutant of Invited: the newcomer is put before the other members.
InvitedFirst(room, v) == [room EXCEPT !.users = <<v>> \o @]

Invited(room, v) == [room EXCEPT !.users = Append(@, v)]

\* That v is on line is not asked.
room_invite(u, r, v) ==
  \/ /\ room_contains_user(r, u) /\ ~room_contains_user(r, v)
     /\ Len(rooms[r].users) < MaxMembers
     /\ rooms' = [rooms EXCEPT ![r] = Invited(@, v)]
     /\ admitted' = [admitted EXCEPT ![r] = @ \cup ({holder[v]} \ {Nobody})]
     /\ Answer(u, Code("invite", 200, r))
     /\ UNCHANGED <<holder, rooms_cnt, log>>
  \/ /\ ~room_contains_user(r, u) \/ room_contains_user(r, v)
     /\ Answer(u, Code("invite", 300, r))
     /\ UNCHANGED <<holder, roomVars>>

send_chat(u, r, t) ==
  LET m == [from |-> u, text |-> t]
  IN  \/ /\ room_contains_user(r, u)
         /\ Len(log[r]) < MaxLog
         /\ ToMembers(r, Carries("chat", r, m))
         /\ rooms' = [rooms EXCEPT ![r].history = push_history(@, m)]
         /\ log' = [log EXCEPT ![r] = Append(@, m)]
         /\ UNCHANGED <<holder, rooms_cnt, admitted>>
      \/ /\ ~room_contains_user(r, u)
         /\ Answer(u, Code("chat", 500, r))
         /\ UNCHANGED <<holder, roomVars>>

user_list(u) ==
  /\ Answer(u, Code("users", 200, 0))
  /\ UNCHANGED <<holder, roomVars>>

\* Mutant of Listed: the owner's rooms are left out.
ListedGuest(u) ==
  {rooms[i].id : i \in {j \in 0 .. rooms_cnt - 1 :
     room_contains_user(rooms[j].id, u) /\ rooms[j].super_user_id # u}}

\* The list asks about the id found in each place of the table.
Listed(u) == {rooms[i].id : i \in {j \in 0 .. rooms_cnt - 1 : room_contains_user(rooms[j].id, u)}}

room_list(u) ==
  /\ Answer(u, RoomList(Listed(u)))
  /\ UNCHANGED <<holder, roomVars>>

handle_request(u) ==
  /\ u \in Online
  /\ \/ user_register(u) \/ room_create(u) \/ user_list(u) \/ room_list(u)
     \/ \E r \in RoomIds : room_delete(u, r) \/ room_connect(u, r)
     \/ \E r \in RoomIds, v \in Users : room_invite(u, r, v)
     \/ \E r \in RoomIds, t \in Texts : send_chat(u, r, t)

Next ==
  \/ \E p \in Persons : handle_new_user(p)
  \/ \E u \in Users : handle_closed(u) \/ handle_request(u)

Spec == Init /\ [][Next]_vars

-----------------------------------------------------------------------------
(* What the release manager promises.                                      *)

\* A room's history is the end of all that was said in it since its id was last
\* given out, deletions or not: nothing of the room that had the id before
\* (req.c:107, 138, room.c:42-62).
LastOf(s, n) == IF Len(s) <= n THEN s ELSE SubSeq(s, Len(s) - n + 1, Len(s))

HistoryKept == \A r \in RoomIds : rooms[r].history = LastOf(log[r], ROOM_HISTORY_LEN)

\* Only persons who created a room or were invited to it are shown its chats, as
\* "non-invited-user tried to connect room" has it (req.c:170).
OnlyTheAdmitted ==
  \A u \in Users : \A i \in DOMAIN out[u] :
    out[u][i].chat # NoChat => holder[u] \in admitted[out[u][i].room]
=============================================================================
