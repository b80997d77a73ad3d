# AlphaChat, in TLA+

AlphaChat is a chat service in C for one local network. A *manager* announces
itself by multicast, accepts clients over TCP, keeps the tables of users and of
rooms in memory and passes chats on; clients are terminal programs that send
requests and print responses, and heartbeats over UDP. This directory models
the parts of it that carry its own logic, checks them with TLC on small
instances and proves the properties that matter most with TLAPS. Paths below
are relative to the repository (`src/` here); `manager/` stands for
`manager/src/`, and so on.

## 1. The system

| component | state | operations | talks to | modelled in |
|---|---|---|---|---|
| manager sessions (`manager/main.c`, `user.c`, first half of `req.c`) | `users[]`, `users_cnt`, `fdset`, `fd_cnt`, the snapshot `backup_set`; in the kernel: descriptors, listen queue, receive queues, the UDP socket, the terminal | the select loop: multicast timer, heartbeat, new user, operator command, then a scan of `users[]` that reads requests and closes sockets; register | clients (TCP, UDP), operator | Sessions, Identity; the timer in Discovery |
| manager rooms (`manager/room.c`, second half of `req.c`) | `rooms[]` (status, id, super user, member cells, history), `rooms_cnt` | create, delete, connect, invite, chat, list | sessions call it, responses leave through it | Rooms, Chatrooms |
| manager responses (`manager/res.c`, `utils.c`) | none | frames of 1024 bytes, lists, replay of a history | writes to users' sockets | Sessions, Rooms, Frames |
| manager operator commands (`manager/cmd.c`) | two log flags | print tables, toggle flags; waits in `scanf` | the loop waits with it | Sessions, in part |
| manager file store (`manager/file.c`) | `files[]` | note an upload, store and send contents | only type-3 chats and codes 9 and 10, which no shipped client sends | no |
| release manager (`release/manager/`) | as the manager | an earlier version: a deleted room is only marked off, a chat's sender is the slot it came in on, an announcement only when `select` times out | clients | Release, Versions, Discovery |
| gogup_client (`gogup_client/main.c`) | `my_user_id`, `cur_room_id`, names of users and rooms | discover, connect, register, commands, responses, heartbeat after five idle seconds | manager, screen | Chat, Programs, Sessions, Discovery |
| gogup_client screen (`gogup_client/print.c`) | two boxes, each with a ring buffer of characters | print, clear, help page, redraw | terminal | Box, Scroll |
| gogup_client_without_mcast | as gogup_client, split into files, with and without multicast | as gogup_client | manager | Programs, Discovery |
| client_out, client | as gogup_client, with less; `client/` sends no heartbeats and knows four lines | as gogup_client | manager | Programs, Discovery |
| release client_core, `test/tcp_client` | a connection | send what is typed, print what comes | manager | Discovery, in part |

How they interact. Everything in the manager happens in one thread, one
`select` round after another. A round takes *one* of heartbeat, new connection
or operator line, in that order of preference, and then scans the user table
against what `select` reported at its start. A request is handled completely,
responses included, before the next one is read. A response is a blocking
`write` to `users[uid].sock`. A client's `select` multiplexes its terminal and
its socket; its requests are not synchronised with the responses it still has
to read.

What is hard in it:

- The loop must never wait: a `read`, a `scanf` or a `write` that waits, or
  kills the process, does so for everybody.
- The scan uses a snapshot. Descriptors are closed, and reused, while it and
  later rounds run; user ids are reused as well. Nothing checks that the two
  kinds of reuse agree.
- Heartbeats are datagrams: lost, late, reordered, sent before the client knows
  its id or read after its connection has gone; each sets a slot on line.
- Clients come and go at any moment, with requests still unread.
- Tables are finite and "no free entry" is reported as entry 0.
- Room ids are reused, membership and history must not be.
- Nothing tells the rooms that a user has gone.
- A client assumes a request succeeds before it is answered.
- Frames are 1024 bytes and read with one `read`, whatever TCP makes of them.
- Announcements are datagrams, and a client waits for one without a timeout.
- Two managers and several clients are versions of each other, kept in step by
  hand.
- A box is a ring that is shown from its start at first and from its position
  later, and redrawing writes to it.

What makes each component correct:

- *sessions*: every client that registers is answered, with an id that is its
  own while it stays; the loop never waits; every open connection is watched.
- *rooms*: chats reach every member once and nobody else; connecting shows the
  latest chats of this room in order; only the super user ends a room; lists are
  right; every request is answered.
- *client*: the screen of a room shows what was said there, once, in order; it
  is in the room it says it is in; commands do what the readme says.
- *versions*: both managers answer alike; all clients hold the same conversation.
- *discovery*: a client that waits for the manager's address gets it.
- *frames*: what is encoded is what is decoded; lists fit.
- *box*: what was printed last is visible, in order.

`PROJECT.json` lists, under `hazards`, the places where each of these can go
wrong, with the properties that would show it.

## 2. The plan, and what became of it

1. **Sessions** implements **Identity**: done, proved without heartbeats.
2. **Rooms** implements **Chatrooms**: done, proved while the tables have room.
3. **Chat**, clients and queues over Chatrooms: done and proved.
4. **Release** and **Versions**: slots that change hands under the rooms, and
   the two managers side by side. Done and proved.
5. **Discovery**: timers, announcements, crashes. Done; invariants proved,
   liveness model-checked.
6. **Frames**: done and proved.
7. **Box** implements **Scroll**: done and proved.
8. **Programs** implement **Terminal**: the clients side by side. Done and
   proved.

Left: the file store (no client uses it) and `client/`'s screen.

## 3. The modules

| module | what it is |
|---|---|
| `Identity` | abstract: slots are given to clients, told to them, and come free after they leave |
| `Sessions` | the select loop, user table, kernel objects and client life cycles; implements Identity |
| `Chatrooms` | abstract: owner, members and log of each room, and what each user is shown |
| `Rooms` | the room table and its request handlers with their responses; implements Chatrooms |
| `Chat` | clients' commands, responses and chat box over Chatrooms, with requests and responses under way |
| `Release` | the release manager: users who come and go, rooms that remember slots |
| `Versions` | Rooms and Release given the same requests |
| `Discovery` | announcements, timers, starts and crashes of either manager, and every client program's way to it |
| `Terminal` | abstract: what a client promises the manager and its user |
| `Programs` | four client programs given the same lines and responses; each implements Terminal |
| `Frames` | one direction of a connection, in cells |
| `Scroll` | abstract: rows that scroll |
| `Box` | the boxes of the screen and their ring buffers; each implements Scroll |
| `MC...` | instances for TLC, one `.cfg` per question |
| `...Proofs` | theorems and their proofs |

### Sessions

State variables carry the names of the code (`users`, `users_cnt`, `fdset`,
`fd_cnt`, `backup_set`; `scan` is the loop index `i` of `main.c:83`). `phase`
says where the single thread is: at `select`, in `handle_cmd`'s `scanf`, in the
scan, or dead. `fdTable`, `backlog`, `inq`, `hbBuf`, `stdin` are the kernel's;
`client`, `my_user_id`, `reply`, `beat` are outside.

| action | code |
|---|---|
| `HandleHeartbeat` | `main.c:70-73` and `handle_heartbeat` |
| `HandleNewUser` | `main.c:74-77` and `handle_new_user`, with `new_user_id` (`NewUserId`) and `accept`'s lowest free descriptor (`LowestFree`) |
| `EnterCmd`, `ReadCmd` | `main.c:78-81`, `cmd.c:16` |
| `SelectUsers` | `select` reports users' sockets only |
| `HandleRequest` | one iteration of `main.c:83-91` that reads a request; for register, the response with the slot's number |
| `HandleClosed` | the same when `read` returns 0 or -1: close, `FD_CLR`, off line |
| `HandleTerminal` | the same for a slot whose socket is 0, the terminal |
| `EndRound` | the end of the scan |
| `Connect` ... `Exit` | a client process: connects once, registers, asks, reads, sends heartbeats, leaves |

The round is not one action: clients act between the iterations of the scan,
which is where a stale snapshot would show. What a request does to the rooms is
left out; what matters here is how many writes it makes and to whom
(`WritesOf`). `Write` models a peer that is gone: the first write draws a reset,
the next raises SIGPIPE, which the manager does not handle. `accept` and
descriptors behave as POSIX says: lowest free number first. A read of an open
connection with nothing to read waits: the model then has no `HandleRequest`
for that slot and the scan stays where it is. A frame of zeros, which clients send
for `/send` and `/register`, only prints a line (`req.c:73-77`) and is left out.

### Rooms

`rooms[r]` is `struct ROOM` without its name: `id`, `status`, `super_user_id`,
the cells `users[]`, `user_cnt`, and `history` as a sequence (its length is
`history_cnt`). Each handler of `req.c` is one action named after it, with all
its responses in `out`, per receiving user. `Cell` follows the layout of the
struct past the last cell, where `user_cnt` and `status` lie (`room.h:10-12`):
gcc without optimisation, as in `build.sh`, stores the eleventh member into
`user_cnt`. `log` is a history variable, the chats accepted since the room was
created. In `send_chat` the sender is the id the request carries, as in the
code. Room and user ids in requests are inside the tables: what the program
does with an index outside them is undefined and not modelled.

`ListedAreOwn` says what is right about lists: every room of the user is there
under its own place of the table, and no entry names a room of others. What is
wrong about them, contrary to `gogup_client/readme:32`, is that room 0 comes twice:
`res.c:77` asks about `rooms[i].id`, which is 0 in a room that was deleted. A
member of room 0 is told of it again for every such room below the highest
(`ListedOnce`, see section 4).

### Chat

`Chat` extends Chatrooms, which Rooms implements, rather than the table itself:
what a client can get wrong does not depend on cells. `my_user_id` and
`cur_room_id` are the client's globals, `screen` is what its chat box holds,
`up[c]` and `down[c]` are the two directions of its connection, in order.

| action | code |
|---|---|
| `TypeCreate`, `TypeList`, `TypeDelete`, `TypeInvite`, `TypeConnect`, `TypeChat` | one call of `handle_cmd` (`gogup_client/main.c:181-323`); `TypeConnect` changes rooms and clears the box at once |
| `ServeRegister` ... `ServeChat` | one call of `handle_request` in the manager, with all its responses |
| `handle_res` | one response read by the client (`gogup_client/main.c:325-427`) |

A request keeps the *positions* the client writes its arguments to (`at4`,
`at8`), and the manager reads positions: `room_invite` reads the room at 4 and
the user at 8, the client writes them the other way round. Because users and
rooms change places there, ids of both come from one set (`Users = Rooms`; in
the code `USER_MAX` and `ROOM_MAX` are both 1000). A chat's sender is the id the
request carries, which is 0 until the client has read its register response:
`SaidAsSelfOrZero` says that this is the only wrong name a chat can have. Every
response that only prints to the lobby is `"lobby"`. Who joins and leaves is
left to Sessions: the clients of Chat have connected and stay.

A client that is refused a room, or whose room is deleted and its id given to
another, goes on believing itself there (`gogup_client/main.c:265`).
`StrangersSeeNothing` relates its screen to the manager's tables: of the present
log of a room, nobody but a member has anything on the screen.

### Release and Versions

`Release` is `release/manager/main.c`, `room.c`, `user.c`, `req.c` and `res.c`
as far as users and rooms go. Unlike Rooms it lets persons take slots and leave
them (`handle_new_user`, `handle_closed`; `holder`), because nothing tells
`rooms[]` that a slot has changed hands: `admitted` remembers, for each room,
the persons who created it or were invited, and `OnlyTheAdmitted` is refuted
by the next holder of a slot (`stale_member`; `manager/` has the same lines).

`Versions` gives Rooms and Release the same requests. A request is the
conjunction of the two actions of its name, so that a request that one would
accept and the other not, would stop or show. Rooms' chats carry the user's own
slot here, as those of a client that has read its register response do. When
the table of users is full, `new_user_id` answers 0 and the new person takes slot 0
from its holder.
Deleted rooms differ: the release keeps members and history in them, and members go
on chatting. `OpenRoomsAgree` says that nobody notices in a room that is on.

### Discovery

Time is counted in seconds and a second passes (`Tick`) only when no program has
something to do: programs are fast compared to the timers of five seconds.
`running` is the manager that is installed, chosen at the start. `Serve` is one
round with the following call of `select`: one heartbeat, connection or line,
and the scan. `Announces` is when the round sends: `manager/` before every
`select` that comes a second or more after the last announcement
(`main.c:58-62`, `AnnouncesNow`), the release only when `select` has timed out
(`main.c:59`). `got` is the set of waiting clients that a datagram reaches.

A round need not come to its end. A blank line leaves the manager in `scanf`
(`cmd.c:16`; `WaitsForWord`, `at = "scanf"`) until the operator types a word
(`ServeWord`). A scan may come a second time to a socket it has read and wait in
`read` (`ScanWaits`, `at = "read"`) until that client sends something or leaves
(`ServeAgain`). That needs two slots with one descriptor, which takes a
heartbeat that names a slot its sender does not hold. Sessions models how that
comes about; here two flags summarise it, generously: `stray`, such a heartbeat
may be in the UDP socket (its sender had not read its id, or is gone), and
`ghost`, one was handled. In both waits nothing is announced, and what is stated of
announcements excepts them by name.
`Die` and `Start` may come at any moment: between an announcement and the
`connect` that follows from it, or while clients hold connections.

A client is one of the repository's programs, a record of what they do
differently: where its group comes from, whether it registers, whether it sends
heartbeats, and what it does when the manager is gone.

### Terminal and Programs

`Programs` runs gogup_client, client_out, gogup_client_without_mcast and client
side by side on the same typed lines and the same responses, in every order. A
handler is a relation between a program's state before and after
(`gogup_handle_cmd(s, l, t)`), its disjuncts the branches of the function, written
out for each program, although gogup_client_without_mcast's are gogup_client's
in files of their own. The lines are the commands of the table with their
numbers, a command that is unknown, and a text. Among them are `/send` and
`/register`, which the table has and no case of `handle_cmd` is for: three programs
send their buffer as it was cleared (`Zeros`), which a manager drops.
`SameConversation` compares what they send and show; `Terminal` is what each of
them owes: it speaks only in the room it has asked for, under the id it was
given, and shows only that room. Names and texts are left out, and with them
the one difference between `client`'s `/create` and gogup_client's, a leading
blank in the room's name.

### Frames

A message is `Header + Entry * n` cells at the beginning of a frame of `Frame`
cells, of which all are written (`response_code` and `send_to_user`, the end of
`handle_cmd`). `Deliver` moves any number of cells to the reader's socket, `Read`
takes what is there, at most a frame, and decodes it as what begins at that
place (`Decoded`). A list that does not fit its frame is copied past the
buffer's end (`res.c:34`): the model ends the writer there. `ReadWhole` says that
as long as no read comes short, each read is the next message, entire, however
the network cuts the stream and however far behind the reader is.

### Box and Scroll

`box[b]` is `sp` and the ring buffer of `print.c`, `term` what the terminal
shows. `Laid` is the loop of `printToBox`: characters, blanks up to the next row
at a newline and at the end (`Put` is one round of it); `Written` puts them in the
ring; `FirstShown` is the choice of `print.c:70`. `Scroll` is what a box promises:
a text is broken into rows (`Broken`, without positions, blanks or a ring), which
come below those that are visible, and what is too much leaves at the top.
`update_screen` prints an empty text to both boxes, which adds a blank row to a
box: in Scroll, a text without characters. `gogup_client_without_mcast/print.c`
differs from this file in the order of its includes only.

## 4. The runs

Passing runs, with the bounds that make the interesting cases happen:

| run | shows |
|---|---|
| `sessions` | no heartbeats, three clients, three slots, three descriptors, an operator who types words, requests that are answered by one response: `SlotFdLockstep` (uid and descriptor reuse agree), `ReadNeverBlocks`, `ClientIdIsItsSlot`, that their conjunction `Inductive` is what the proofs use, that Sessions implements Identity, and with fairness that every client that registers and stays is answered (`RegisterAnswered`) and that the connection of every client that leaves, accepted or not, with its request read or not, is closed in the end (`SlotsComeFree`) |
| `sessions_heartbeats` | two clients with heartbeats, lost, late and early, requests with one answer, several or none, an operator who types words and blank lines: `FdsetIsOpen`, `NoOrphan`, `IdentityStable` still hold; lockstep does not, and `BlockedOnlyByGhost` says exactly how a read can then wait |
| `rooms_promises` | three users, two rooms of two cells, two chats kept of up to three, never a create without a free room or an invitation without a free cell: `MembersDistinct`, `OffIsBlank`, `HistoryIsSuffix`, `ListedAreOwn` (every room of the user is listed in its place, no room of others is; not that it is listed once), and Rooms implements Chatrooms, including what is shown to whom |
| `chat_promises` | two clients that type ahead of the answers, two rooms, one chat each: `OwnedByMember` of Chatrooms, `StrangersSeeNothing` (a client that was refused a room, or lost it, has nothing of what is said there on the screen), `OneRoomOnScreen` (chats of the room just left do not appear in the new one), `NothingMissed` (who sees anything of a room misses nothing said afterwards, through changes of room and replays), `SaidAsSelfOrZero` |
| `versions` | three persons who come and go, two slots, so that one may find the table full, two rooms that are created, deleted and reused: `OpenRoomsAgree`, `ChatsAgree`, `AnswersAgree` between the two managers, and `OldHistoryKept` although the release clears nothing |
| `discovery` | either manager, a `gogup_client` and a client of any of the seven programs, words and blank lines, heartbeats that revive slots: whenever `manager/` is in `select` its last announcement is no older than its timeout (`NeverSilent`); who waits for it hears it, unless it comes to wait in `scanf` or `read` for ever (`ManagerHeard`); the release is heard, with the same exception, while nobody is connected to it and its operator types nothing (`ReleaseHeard`) |
| `programs` | two ids, every command of the table (`/send` and `/register` included), unknown commands and texts, every response: `SameConversation`, `ImplementTerminal` |
| `frames` | four messages with lists of up to three entries in frames of four cells, of which two are the header, so that the longest list does not fit: `ReadWhole` |
| `box` | two boxes of two columns and three rows, filled up to three times over, cleared and redrawn: `OnTerminal`, `ImplementsScroll` |

Runs that show a disagreement between the code and what its documents or
messages say (`findings` in `PROJECT.json` quotes each):

| run | what happens |
|---|---|
| `late_heartbeat_hang` | a heartbeat read after its sender's socket was closed revives the slot; the next client gets the same descriptor in another slot, both slots are scanned, the second `read` waits for ever (`main.c:141`) |
| `swapped_invite` | `/invite v r` invites user r to room v (`gogup_client/main.c:275`, `req.c:189`) |
| `stale_member` | a person who leaves stays a member of its rooms; whoever gets the slot next chats in them, uninvited, and is shown what is said there (`release/manager/req.c:27`) |

More disagreements between the code and its documents are reached by changing
one constant or adding one property to a run, and have no run of their own:

- `sessions`. `Requests = {"single", "history"}`: a client types `/connect` to a room
  with two chats and leaves; the first write draws a reset, the second kills the
  manager (`res.c:18`). `RegisterAnswered` excepts a manager that is dead;
  `EveryRegisterAnswered`, which is what `manager/readme:8` says, fails.
  So one unread request is enough. `Lines = {"word", "blank"}`: the
  operator presses Enter and `scanf` stops the loop (`cmd.c:16`);
  `RegisterAnswered` fails. `USER_MAX = 2`: the third client is written over slot 0,
  whose connection is never read again (`user.c:15`); `SlotFdLockstep`,
  `ClientIdIsItsSlot`, `ImplementsIdentity` and `RegisterAnswered` fail.
- `rooms_promises`. `ListedOnce`, which is what `gogup_client/readme:32` says
  of `/rl`, fails: user 0 creates rooms 0 and 1, deletes 1, and is told of room 0
  twice (`res.c:77`). `MaxMembers = ROOM_USER_MAX + 1`: an invitation into a full
  room overwrites the member count (`req.c:200`), `MembersDistinct` fails.
  `MaxOpen = ROOM_MAX + 1`: a room created when none is free replaces room 0
  (`room.c:19`), `ImplementsChatrooms` fails. The run itself has neither: it says
  nothing about full tables.
- `discovery`. `EveryTimeout`, the comment at `release/manager/main.c:59`, fails: a
  line, or a heartbeat, just before the timeout starts the wait anew.
- `box`. Nothing fails, but `/help` twenty times pushes every text out of a box
  of twenty rows (`print.c:130`): Scroll takes the blank rows for text.

Not refuted by a run, because one line shows each: a client whose `/connect` is
refused stays in that room (`gogup_client/main.c:265`); a cleared room has super
user 0, so user 0 may delete, with success, a room that does not exist
(`req.c:136`); connecting to a room with no history is not answered at all
(`res.c:97`); connecting again to the room one is in shows its latest chats a
second time, which `NothingMissed` allows; a refused invitation is not mentioned
by any client (`gogup_client/main.c:354`); `client` never ends when the manager
is gone (`client/res.c:22`).

Bounds.

- *Sessions*: `MaxInflight`, `MaxBeats`, `MaxLines` cap the queues a client, the
  network and the operator can fill. One unread request per client already gives
  every order of arrival, scan and departure. Three clients suffice for one to
  leave, one to take its place and one to stay. Requests are `"single"` (one
  answer) in `sessions`, where several answers would let a departure kill the
  manager, and of every kind in `sessions_heartbeats`. There are slots for all
  clients in both.
- *Rooms*: `MaxOpen` (rooms are created while fewer are open), `MaxMembers`
  (users are invited while a room has fewer) and `MaxLog`. One chat more than the
  history holds makes it shift, so `MaxLog = ROOM_HISTORY_LEN + 1`; two rooms
  suffice for one to be deleted and its id reused while another exists.
- *Chat*: `MaxUp` caps the requests a client has under way, and the manager
  answers while fewer than `MaxDown` responses are under way to anybody. One
  request and one response already put a client's change of room before, between
  and after the manager's steps. Both clients have requests under way only while
  no response is (`CrossWhenQuiet` in MCChat): requests that cross are still
  served in either order. Each user types at most one chat (`OnceEach`),
  the history shows one (`Latest`): with two in a log, a replay is shorter than
  it. Creations are served while a room is free.
- *Versions*: as Rooms, with a history of one chat and logs of two; three persons
  and two slots let a slot change hands while its old holder is a member, and
  the table be full. With a history of one chat the order of a replay is left to
  the theorem.
- *Discovery*: timeouts of one second instead of five, the manager's as well as the
  clients', so that a heartbeat may come just before, with or after every
  timeout of `select`; one heartbeat in the UDP socket (`MaxBeats`). Two clients:
  one that listens, and one of any program that connects, is busy, revives a
  slot or leaves meanwhile. That longer timeouts do not matter to
  `NeverSilent` is proved.
- *Frames*: `MaxList`, `MaxSent`. A frame holds two entries, lists have up to
  three; with four messages a reader can be three behind.
- *Box*: `MaxPos` characters written to a box, three times its size: the ring
  fills, is shown from a place in its middle, and comes round. Texts are shorter
  than a row, a whole row, two lines, one that ends with a newline, and one longer
  than a box.

Symmetry reduction is used only with safety properties. `RegisterAnswered` and
`SlotsComeFree` (in MCSessions) are `Answered` and `DepartureNoticed` of one
client, chosen arbitrarily: in their run no client differs from another, so what
holds of one holds of each.

`CHECK_DEADLOCK FALSE`: in Sessions all clients may have left, and a manager that
has been killed takes no more steps; in Chat users may stop typing and a full
table stops creations; in Frames everything may have been written and read; in
Box the bound on what is written ends the run. The others are checked for
deadlock.

Fairness. *Sessions* (`FairSpec`): weak fairness of `ServerStep`, the manager's
loop, which is one process that waits only in `select`, `scanf` and `read`, and
of each client's `Receive`, since its `select` returns when a response is there.
*Discovery*: weak fairness of `ManagerStep`, whatever the manager can do by itself
(it can do nothing while `scanf` or `read` waits for others), and of the steps a
client program takes by itself (read an announcement, connect, read a response,
send a heartbeat), for the same reason; time goes on (`[]<><<Tick>>_vars`: no
program works for ever without a second passing); and for each client strong
fairness of the manager's steps in which an announcement reaches it: the network may
lose any number of datagrams, but not every one of infinitely many. Users, the operator,
and whoever starts and kills a manager owe nothing: nobody must connect, type,
leave, or deliver a heartbeat.

## 5. The proofs

For every value of the constants that satisfies their assumptions:

- `SessionsProofs!TypeCorrect` and `FdsetOpen`: every variable of Sessions keeps
  its type, and `select` is asked about exactly the open connections, heartbeats
  and full tables included.
- `InductiveHolds`, `Lockstep`, `NeverBlocks`, `OwnIds`, `Implements`, under the
  assumption `Population`: no client sends heartbeats and there are no more
  clients than slots, and no more slots than descriptors.
- `SessionsProofs!OnlyGhostsBlock`, with no assumption at all: a read waits only
  for a connection whose slot has a double.
- `Tracked` and `SocketsStable`, under `SlotToSpare` (fewer clients than slots),
  heartbeats arbitrary: every open connection is in the table, and a client that
  stays keeps its slot.
- `TheirOwn`, under `Population`: a user who has been told an id holds it and
  nobody else does. It is the promise of Identity, proved of what Sessions shows
  of itself through `Ids`.
- `RoomsProofs!TypeCorrect`, `NothingLeft`, `History`, `Listing`: types, blank off
  rooms, history as the end of the log, and that a list has every room of its
  user and no room of others, whatever overflows.
- `Distinct`, under `FreeCells` (no invitation into a full room), and
  `RoomsImplement`, under `FreeCells` and `FreeRooms` (no creation without a
  free room).
- `ChatProofs!Owned`: a room exists exactly while it has members, its owner among
  them.
- `ChatProofs!ChatTypes`, `RoomsOfChat`, `OwnedInChat`, `StrangersExcluded`,
  `OneRoom`, `OwnName`, `MissesNothing`: Chat keeps its types; whatever clients send, the rooms
  are those of Chatrooms, so its promises carry over; whatever room a client believes itself in,
  it sees nothing of a room it is not in; the chat box never mixes rooms; a chat
  is said in its author's name or in that of user 0; who sees anything of a room
  misses nothing said in it afterwards.
- `VersionsProofs!OldTypeCorrect`, `OldHistory`, `VersionsAgree`: the release
  keeps its types and the end of every log, and the two managers agree about every
  room that is on, for every size of the tables.
- `VersionsProofs!SameChats`, `SameAnswers`: in those rooms they also write the
  same chats, replays included, to the same members, and give the same refusals
  and lists.
- `DiscoveryProofs!TypeCorrect`, `NeverSilentHolds`: whenever `manager/` is in
  `select`, its last announcement is no older than its timeout, whatever keeps its
  `select` busy and however long `scanf` or `read` made it wait before, for every
  timeout. While it waits in those it is silent, for ever if nothing ends the wait.
- `FramesProofs!TypeCorrect`, `FramesInvariant`, `ReadWholeHolds`: one read is one
  message while no read comes short, for every size of frame, header and entry.
- `ProgramsProofs!TypeCorrect`, `OneConversation`, `ImplementsTerminal`: the four
  client programs, for every set of ids.
- `BoxProofs!TypeCorrect`, `OnTerminalHolds`, `ScrollIsImplemented`: boxes and
  terminal keep their types, the terminal shows what the boxes hold, and each box
  is a Scroll, for boxes of every size, texts of every length and every `MaxPos`.

The argument for Sessions. `SlotFdLockstep` alone is not inductive: an `accept`
must not find a descriptor above the table (`NothingAboveTable`), a connection
must not be accepted twice (`OneConnectionEach`), and no late heartbeat may
revive a slot (`NoHeartbeats`). `Inductive` is their conjunction, with
`ScanIsCurrent`: what `select` reported and the scan has not reached yet is
still readable, since only the scan itself reads. A new user finds a free slot
because the connections in the table and the one waiting are distinct clients, a
pigeonhole argument on `Cardinality`; the lowest free slot and the lowest free
descriptor then have the same number. `ReadNeverBlocks` follows from
`ScanIsCurrent`. `ClientIdIsItsSlot` needs in addition that a client that has
left has no response under way. `FdsetIsOpen` needs nothing of this: a
descriptor enters the table and the set in one step and leaves both in one.

What holds with heartbeats needs less than lockstep. For `BlockedOnlyByGhost`,
what `select` reported stays readable until a slot that the scan has passed has
read it (`StillReadable`), and a slot that has passed is another slot with the
same socket. `NoOrphan` and `IdentityStable` are a matter of counting: a slot
that has had a socket has had a client of its own (`OneSlotEach`: no more used
slots than clients accepted), and a heartbeat carries only ids that were handed
out, or 0 (`OnlyKnownIds`). With fewer clients than slots there is therefore
always a slot that is off line for `new_user_id` to return, and 0 never means
"none".

The argument for Rooms. `HistoryIsSuffix` rests on one lemma, `PushIsLatest`:
pushing on the last n chats gives the last n chats of the longer log.
`OffIsBlank` keeps deleted rooms closed: a blank room has no members, so nobody
can chat in it or invite to it. `MembersDistinct` uses both conjuncts of the
test in `room_invite`. For the refinement each handler maps to the action of
Chatrooms with its name; refusals, lists, and user 0 deleting a room that is
off map to `Ask`. That a chat is shown once to each member is `CellCount`: a
member has one cell. That connecting shows what Chatrooms shows is
`HistoryIsSuffix`. `ListedAreOwn` rests on `IdIsIndex`: the id in a room is its
place in the table while it is on, and 0 while it is off.

The argument for Chat. Each step of ChatNext is a step of Chatrooms or leaves
its variables alone (`RoomsStep`): the handlers by their guards, the clients'
steps as `Ask`. `OneRoomOnScreen` is inductive with the types: the room changes
only together with a cleared box, and `handle_res` appends only what `Shows`
admits. `SaidAsSelfOrZero` needs the names in everything under way (`OwnNames`):
a client goes by its own id or by 0, and only its own register response,
addressed to it, changes that.

`NothingMissed` is about the room on the screen; what is invariant is that *no*
room has a gap in what is coming from it (`NoGaps`), since a client may go back to
a room of which chats are still under way. A client's step only leaves out what
comes before everything it keeps of a room, or what is of another room (`Keeps`,
`GapLeft`). A chat comes to everybody who has been told of the room, because who
has been told is a member (`ToldAreMembers`), and is the next one after the last
(`GapSaid`). The replay is the end of the log, each chat followed by the next
(`LastOfIs`, `GapAfter`); that this says which chat of the log each one is, needs
that a log has no chat twice (`OnceInLog`), and that in turn that a chat still on
its way to the manager is nowhere yet: a user's requests are served in the order
they were typed in (`InTurn`).

The argument for Versions. The invariant is the conjunction of Rooms' (rooms
that are off are blank), the release's (types, history the end of the log) and,
per room, `Alike`: same status, and while it is on the same owner, cells and
history. Both managers take the lowest room that is off, and the same rooms are
off. A deleted room that is created again is blank in one and replaced in the
other, which is why the release's old members do not return. `OldHistory` holds
because creation, not deletion, clears in the release. What is written agrees
because both loops write once per cell: `Alike` rooms have their members in the
same cells (`SameCount` puts the cells of a user in both into bijection), an id
in a room is its place in the table in both (`IdIsIndex`, `OldIdIsIndex`), and
what the release writes about a deleted room is about no room that is on.

The argument for Discovery. What is inductive is `NoOlderThanTheWait`: in `select`,
the last announcement of `manager/` is no older than the wait. A scan that comes to
its end has just announced if a second has passed since the last announcement,
however long it took (`EndedJustAnnounced`); a round that ends in `scanf` or `read`
is not in `select`, and `select` does not wait longer than its timeout.

The argument for Frames. `ReadWhole` is about a step from a state in which the
reader keeps up, so what is invariant is where it then stands: at the beginning of
the message that is due, or at the end of the stream (`AtDue`). That it finds no
other message there is `FramesApart`.

The argument for Programs. What a line does is decided by its first word
(`Kinds`), so each handler has one outcome per line; the effects on a state are
few (`FreshEffect` ... `ShowsEffect`), each of them a step of Terminal
(`ProperSteps`), and the same effect on two programs that are alike leaves them
alike (`SameLine`, `SameResponse`).

The argument for Box. Number the rows written to a box from 0. A box is between
handlers always at the beginning of a row (the second conjunct of `TypeOK`, which
is inductive with `OnTerminal`), so `sp` is `W * a`. Three lemmas then give the
refinement. `LaidRows`: the rows a text is written in are those Scroll breaks it
into, because after every character the characters written are the complete rows
and the open one (`SameText`, `PutIsTyped`); that the row is not completed at
exactly the end of the buffer is Scroll's choice to leave out a blank one.
`RowsInRing`: what is visible are the last rows of all, whether the box is shown
from its start or from `sp`, since a cell holds the last character written to it
(`CellWritten`). `RingScrolls`: printing leaves the rows that stay visible as they
were and appends the new ones. `Laid` and `Broken` are recursive functions on the
positions of a text; that there are such functions is the lemma `Recursion`, and
what holds at every position follows from the lemma `Induction`, which is about
sets of numbers and not about predicates, so that it can be cited. The proof
corrected the type of the buffers: `Characters` had the newline among them, by a
difference of sets that bound too tightly, and no run could notice.

Every safety property of a passing run is thus proved, some under the assumptions
named above. Only model-checked: all liveness (`RegisterAnswered`,
`SlotsComeFree`, `ManagerHeard`, `ReleaseHeard`), which the prover does not treat.

## 6. What is not modelled

- *The file store* (`file.c`, request codes 9 and 10, chats of type 3): no
  shipped client sends such a request, and the authors' notes give the feature up
  (`manager/readme:47-53`).
- *`client/`'s screen* (`client/out.c`): one scrolling box with its own drawing,
  which is unfinished: `print_to_lobby` is empty and `print_lobby_buf` lacks a
  semicolon, so that the file does not compile.
- *`web_client/`*, an empty page.
- *The rest of `cmd.c`*, which prints tables and toggles log flags, and all logs.
- *Names* of users and rooms, and the texts around them, except that ids are what
  lists and chats show. A command without its numbers, which makes the clients
  send what `sscanf` left unset, is not among the lines.
- *Frames in the other models*: Sessions, Rooms and Chat take every request for
  one whole message, which Frames shows to be so while no read comes short.
- *Lists that outgrow their frame*, past the end of the buffer: Frames lets the
  manager end there.
- *A text longer than the 1000 bytes `printfBox` formats into (`print.c:103`)* and a terminal smaller than
  the boxes.
- *Blocking writes*: a client that stops reading for long enough fills its
  socket and the manager waits in `write`.
- *Descriptor exhaustion and failing system calls* other than those named
  above: `accept`, `socket` and `bind` are taken to succeed.
- *Ids outside the tables* in requests and heartbeats; among them what a user of
  `client_core`, who types requests byte by byte, can send.
- *Rates*: that a steady stream of heartbeats, of which a round reads one, keeps new
  users waiting (`main.c:70`) is a matter of how fast they come.
- *The splash screen, colours and the cursor.*
- *`test/test.c`*, a formatting exercise.
