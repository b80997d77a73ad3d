-------------------------------- MODULE Chat --------------------------------
(***************************************************************************)
(* Clients that talk to the rooms of Chatrooms: the commands and responses *)
(* of gogup_client/src/main.c, with the requests and responses under way   *)
(* between each client and the manager.  A client does not wait for an     *)
(* answer before it goes on, and reads its terminal before its socket.     *)
(*                                                                         *)
(* The clients are those in the slots Users; who comes and goes is left to *)
(* Sessions.  A chat's text says who typed it and is typed once, so Texts  *)
(* bounds what is said.  The lobby, where answers are printed, is left     *)
(* out: a response that does nothing else is "lobby".                      *)
(***************************************************************************)
EXTENDS Chatrooms, FiniteSets

CONSTANTS
  NoRoom,    \* cur_room_id of a client that never typed /connect
  MaxUp,     \* bound: requests of a client under way
  MaxDown    \* bound: responses to a client under way

ASSUME ChatAssumption ==
  /\ 0 \in Users
  /\ Users = Rooms
  /\ NoRoom \notin Rooms
  /\ Texts \subseteq Users \X (Nat \ {0})

ASSUME ChatBoundAssumption == MaxUp \in Nat /\ MaxDown \in Nat

VARIABLES
  my_user_id,   \* the id a client goes by: 0 until it reads its register response
  cur_room_id,  \* the room a client shows
  screen,       \* the chats in a client's chat box, each with its room
  typed,        \* the number of chats a client's user has typed
  up,           \* requests on their way to the manager, in order
  down          \* responses on their way to the client, in order

clientVars == <<my_user_id, cur_room_id, screen, typed>>
chatVars   == <<vars, clientVars, up, down>>

\* A request as the client writes it: /invite puts the user before the room.
Request ==
  [cmd : {"register", "create", "list"}]
    \cup [cmd : {"delete", "connect"}, at4 : Rooms]
    \cup [cmd : {"invite"}, at4 : Users, at8 : Rooms]
    \cup [cmd : {"chat"}, at8 : Rooms, chat : Chats]

Response ==
  [cmd : {"lobby"}] \cup [cmd : {"register"}, id : Users]
    \cup [cmd : {"chat"}, room : Rooms, chat : Chats]

ChatTypeOK ==
  /\ TypeOK
  /\ my_user_id \in [Users -> Users]
  /\ cur_room_id \in [Users -> Rooms \cup {NoRoom}]
  /\ screen \in [Users -> Seq([room : Rooms, chat : Chats])]
  /\ typed \in [Users -> Nat]
  /\ up \in [Users -> Seq(Request)]
  /\ down \in [Users -> Seq(Response)]

\* Everybody has connected and sent its register request (main.c:57-64).
ChatInit ==
  /\ Init
  /\ my_user_id = [c \in Users |-> 0]
  /\ cur_room_id = [c \in Users |-> NoRoom]
  /\ screen = [c \in Users |-> <<>>]
  /\ typed = [c \in Users |-> 0]
  /\ up = [c \in Users |-> <<[cmd |-> "register"]>>]
  /\ down = [c \in Users |-> <<>>]

-----------------------------------------------------------------------------
(* What the user of client c types: handle_cmd().                          *)

Send(c, request) ==
  /\ Len(up[c]) < MaxUp
  /\ up' = [up EXCEPT ![c] = Append(@, request)]
  /\ UNCHANGED down
  /\ Ask

\* /create, /ul and /rl, /delete and /invite: nothing but the request.
TypeCreate(c) == Send(c, [cmd |-> "create"]) /\ UNCHANGED clientVars

TypeList(c) == Send(c, [cmd |-> "list"]) /\ UNCHANGED clientVars

TypeDelete(c, r) == Send(c, [cmd |-> "delete", at4 |-> r]) /\ UNCHANGED clientVars

TypeInvite(c, v, r) ==
  Send(c, [cmd |-> "invite", at4 |-> v, at8 |-> r]) /\ UNCHANGED clientVars

\* Mutant of ClearBox: the chats of the former room stay on the screen.
KeepBox(c) == screen[c]

ClearBox(c) == <<>>

\* /connect changes rooms at once, whatever the manager will say.
TypeConnect(c, r) ==
  /\ Send(c, [cmd |-> "connect", at4 |-> r])
  /\ cur_room_id' = [cur_room_id EXCEPT ![c] = r]
  /\ screen' = [screen EXCEPT ![c] = ClearBox(c)]
  /\ UNCHANGED <<my_user_id, typed>>

Said(c) ==
  [cmd |-> "chat", at8 |-> cur_room_id[c],
   chat |-> [from |-> my_user_id[c], text |-> <<c, typed[c] + 1>>]]

\* Mutant of TypeChat: does not ask whether there is a current room.
ChatAnywhere(c) ==
  /\ Said(c).chat.text \in Texts
  /\ Send(c, Said(c))
  /\ typed' = [typed EXCEPT ![c] = @ + 1]
  /\ UNCHANGED <<my_user_id, cur_room_id, screen>>

\* A line that is no command is said in the current room.
TypeChat(c) ==
  /\ cur_room_id[c] # NoRoom
  /\ Said(c).chat.text \in Texts
  /\ Send(c, Said(c))
  /\ typed' = [typed EXCEPT ![c] = @ + 1]
  /\ UNCHANGED <<my_user_id, cur_room_id, screen>>

-----------------------------------------------------------------------------
(* The manager handles the first request of client c.                      *)

Asked(c, cmd) ==
  /\ up[c] # <<>>
  /\ Head(up[c]).cmd = cmd

Answered(c, responses) ==
  /\ up' = [up EXCEPT ![c] = Tail(@)]
  /\ down' = [v \in Users |-> down[v] \o responses[v]]
  /\ \A v \in Users : Len(down'[v]) <= MaxDown
  /\ UNCHANGED clientVars

\* Mutant of To: the answer goes to everybody.
ToAll(c, response) == [v \in Users |-> <<response>>]

To(c, response) == [Nothing EXCEPT ![c] = <<response>>]

\* What Chatrooms shows each user is what the manager writes to it.
Chatted(r) ==
  [v \in Users |->
     [i \in DOMAIN shown'[v] |-> [cmd |-> "chat", room |-> r, chat |-> shown'[v][i]]]]

ServeRegister(c) ==
  /\ Asked(c, "register")
  /\ Ask
  /\ Answered(c, To(c, [cmd |-> "register", id |-> c]))

\* Served while a room is free: Rooms has what happens when none is (room.c:19).
ServeCreate(c) ==
  /\ Asked(c, "create")
  /\ \E r \in Rooms : Create(c, r)
  /\ Answered(c, To(c, [cmd |-> "lobby"]))

ServeList(c) ==
  /\ Asked(c, "list")
  /\ Ask
  /\ Answered(c, To(c, [cmd |-> "lobby"]))

ServeDelete(c) ==
  /\ Asked(c, "delete")
  /\ LET r == Head(up[c]).at4
     IN  \/ owner[r] = c /\ Delete(c, r)
         \/ owner[r] # c /\ Ask
  /\ Answered(c, To(c, [cmd |-> "lobby"]))

ServeConnect(c) ==
  /\ Asked(c, "connect")
  /\ LET r == Head(up[c]).at4
     IN  \/ /\ c \in members[r]
            /\ Connect(c, r)
            /\ Answered(c, Chatted(r))
         \/ /\ c \notin members[r]
            /\ Ask
            /\ Answered(c, To(c, [cmd |-> "lobby"]))

\* room_invite() reads the room where the client put the user.
ServeInvite(c) ==
  /\ Asked(c, "invite")
  /\ LET r == Head(up[c]).at4
         v == Head(up[c]).at8
     IN  \/ c \in members[r] /\ v \notin members[r] /\ Invite(c, r, v)
         \/ (c \notin members[r] \/ v \in members[r]) /\ Ask
  /\ Answered(c, To(c, [cmd |-> "lobby"]))

\* send_chat() takes the sender's id from the request.
ServeChat(c) ==
  /\ Asked(c, "chat")
  /\ LET r == Head(up[c]).at8
         m == Head(up[c]).chat
     IN  \/ /\ Say(r, m)
            /\ Answered(c, Chatted(r))
         \/ /\ m.from \notin members[r]
            /\ Ask
            /\ Answered(c, To(m.from, [cmd |-> "lobby"]))

-----------------------------------------------------------------------------
(* Client c reads a response: handle_res().                                *)

\* Mutant of Shows: a chat is shown whatever its room.
ShowsAll(c, r) == TRUE

Shows(c, r) == r = cur_room_id[c]

handle_res(c) ==
  /\ down[c] # <<>>
  /\ LET res == Head(down[c])
     IN  \/ /\ res.cmd = "register"
            /\ my_user_id' = [my_user_id EXCEPT ![c] = res.id]
            /\ UNCHANGED screen
         \/ /\ res.cmd = "chat"
            /\ screen' = IF Shows(c, res.room)
                         THEN [screen EXCEPT ![c] =
                                 Append(@, [room |-> res.room, chat |-> res.chat])]
                         ELSE screen
            /\ UNCHANGED my_user_id
         \/ /\ res.cmd = "lobby"
            /\ UNCHANGED <<my_user_id, screen>>
  /\ down' = [down EXCEPT ![c] = Tail(@)]
  /\ Ask
  /\ UNCHANGED <<cur_room_id, typed, up>>

ChatNext ==
  \E c \in Users :
    \/ TypeCreate(c) \/ TypeList(c) \/ TypeChat(c)
    \/ \E r \in Rooms : TypeDelete(c, r) \/ TypeConnect(c, r)
    \/ \E v \in Users, r \in Rooms : TypeInvite(c, v, r)
    \/ ServeRegister(c) \/ ServeCreate(c) \/ ServeList(c) \/ ServeDelete(c)
    \/ ServeConnect(c) \/ ServeInvite(c) \/ ServeChat(c)
    \/ handle_res(c)

ChatSpec == ChatInit /\ [][ChatNext]_chatVars

-----------------------------------------------------------------------------
(* What the users see.                                                     *)

\* The chat box holds chats of one room, the one whose title it has: chats of
\* a room the user has left are still on their way when it is cleared
\* (main.c:265-267, 418).
OneRoomOnScreen ==
  \A c \in Users : \A i \in DOMAIN screen[c] : screen[c][i].room = cur_room_id[c]

\* What is on c's screen and what is on its way to it, in order.
Coming(c) ==
  [i \in DOMAIN screen[c] |->
     [cmd |-> "chat", room |-> screen[c][i].room, chat |-> screen[c][i].chat]] \o down[c]

Tells(res, r, m) == res.cmd = "chat" /\ res.room = r /\ res.chat = m

\* In s every chat of l, the log of room r, is followed by the next one, with
\* nothing later in between; chats that are not in l are passed over.
NoGap(s, r, l) ==
  \A i \in DOMAIN s, p \in DOMAIN l : Tells(s[i], r, l[p]) =>
    \/ p = Len(l)
    \/ \E j \in DOMAIN s :
         /\ j > i
         /\ Tells(s[j], r, l[p + 1])
         /\ \A k \in i + 1 .. j - 1, q \in DOMAIN l : Tells(s[k], r, l[q]) => q <= p

\* A user who sees anything of a room misses nothing that is said afterwards:
\* no chat is skipped, and the last one said is the last one shown, through
\* changes of room and replays of the history (req.c:238-241, res.c:97).
NothingMissed ==
  \A c \in Users : cur_room_id[c] # NoRoom =>
    NoGap(Coming(c), cur_room_id[c], log[cur_room_id[c]])

\* A client that typed /connect to a room it is refused, or whose room is deleted
\* and its id given to another, goes on believing itself there (main.c:265,
\* 354-357).  It sees nothing that is said there: whoever has a chat of a room's
\* present log on the screen is a member of the room.
StrangersSeeNothing ==
  \A c \in Users, r \in Rooms : \A i \in DOMAIN screen[c], p \in DOMAIN log[r] :
    screen[c][i] = [room |-> r, chat |-> log[r][p]] => c \in members[r]

\* /invite v r adds user v to room r, or nobody (gogup_client/readme:30).
InvitesTheNamed ==
  [][\A c, v \in Users, r \in Rooms :
       up[c] # <<>> /\ Head(up[c]) = [cmd |-> "invite", at4 |-> v, at8 |-> r]
         /\ ServeInvite(c) /\ members' # members =>
           members' = [members EXCEPT ![r] = @ \cup {v}]]_chatVars

\* Whatever was typed ahead of the answers, a chat in a room's log is said in
\* the name of the user who typed it or of user 0, whose id a client goes by
\* until it has read its own (main.c:228, 421-425, req.c:229-233).
SaidAsSelfOrZero ==
  \A r \in Rooms : \A i \in DOMAIN log[r] : log[r][i].from \in {log[r][i].text[1], 0}
=============================================================================
