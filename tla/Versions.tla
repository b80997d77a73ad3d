------------------------------ MODULE Versions ------------------------------
(***************************************************************************)
(* The two managers of the repository side by side: manager/ (Rooms) and   *)
(* release/manager/ (Release) are given the same requests by the same      *)
(* users, in the same order.  manager/ is the later version: what it does  *)
(* in a room that has not been deleted should be what the release does.    *)
(*                                                                         *)
(* A user's chats carry its own slot as their sender, as those of a client *)
(* that has read its register response do; what manager/ does with any     *)
(* other is the subject of Chat.                                           *)
(***************************************************************************)
EXTENDS Rooms

CONSTANTS
  Persons,  \* those who run a client
  Nobody    \* the holder of a slot that is off line

VARIABLES
  holder, old_rooms, old_rooms_cnt, old_out, old_log, admitted

Old == INSTANCE Release WITH
  rooms <- old_rooms, rooms_cnt <- old_rooms_cnt, out <- old_out, log <- old_log

versionVars == <<vars, Old!vars>>

ASSUME VersionsAssumption ==
  Nobody \notin Persons /\ MaxOpen \in 0 .. ROOM_MAX /\ MaxMembers \in 1 .. ROOM_USER_MAX

VersionsInit == Init /\ Old!Init

\* Steps that the table of rooms of manager/ does not see.
Unseen == out' = Nothing /\ UNCHANGED <<rooms, rooms_cnt, log>>

Request(u) ==
  \/ Unseen /\ (Old!user_register(u) \/ Old!user_list(u))
  \/ room_create(u) /\ Old!room_create(u)
  \/ room_list(u) /\ Old!room_list(u)
  \/ \E r \in RoomIds :
       \/ room_delete(u, r) /\ Old!room_delete(u, r)
       \/ room_connect(u, r) /\ Old!room_connect(u, r)
       \/ \E v \in Users : room_invite(u, r, v) /\ Old!room_invite(u, r, v)
       \/ \E t \in Texts : send_chat(r, [from |-> u, text |-> t]) /\ Old!send_chat(u, r, t)

VersionsNext ==
  \/ \E p \in Persons : Unseen /\ Old!handle_new_user(p)
  \/ \E u \in Users : Unseen /\ Old!handle_closed(u)
  \/ \E u \in Old!Online : Request(u)

VersionsSpec == VersionsInit /\ [][VersionsNext]_versionVars

-----------------------------------------------------------------------------
(* What the two versions have in common.                                   *)

OldTypeOK == Old!TypeOK

OldHistoryKept == Old!HistoryKept

\* Through any sequence of creations, deletions and reuse of ids, the same rooms
\* are on in both managers, and those have the same owner, the same members in
\* the same cells and the same history.  Deleted rooms may differ (req.c:138 in
\* the release, req.c:138-139 in manager/).
SameCells(room, old) ==
  /\ room.user_cnt = Len(old.users)
  /\ \A i \in DOMAIN old.users : room.users[i - 1] = old.users[i]

OpenRoomsAgree ==
  /\ rooms_cnt = old_rooms_cnt
  /\ \A r \in RoomIds :
       /\ rooms[r].status = old_rooms[r].status
       /\ r \in Open =>
            /\ rooms[r].super_user_id = old_rooms[r].super_user_id
            /\ SameCells(rooms[r], old_rooms[r])
            /\ rooms[r].history = old_rooms[r].history
            /\ log[r] = old_log[r]

\* A user is shown the same chats by both, in the same order, except that the
\* release goes on with rooms that have been deleted (req.c:163, 233).
OldChatsOfOpen(u) ==
  LET s == old_out[u]
  IN  IF s # <<>> /\ s[1].chat # NoChat /\ s[1].room \in Open
      THEN [i \in DOMAIN s |-> s[i].chat] ELSE <<>>

ChatsAgree == \A u \in Old!Online : ChatsIn(out[u]) = OldChatsOfOpen(u)

\* Both refuse and accept the same requests about rooms that are on, and their
\* lists agree about those rooms (req.c:136, 163, 193-213, res.c:72-79).
Refusals(s) == {s[i].status : i \in {j \in DOMAIN s : s[j].chat = NoChat}}

OpenInList(s) == {r \in Open : \E i \in DOMAIN s : <<r, r>> \in s[i].list}
OldOpenInList(s) == {r \in Open : \E i \in DOMAIN s : r \in s[i].list}

AnswersAgree ==
  \A u \in Old!Online :
    /\ OpenInList(out[u]) = OldOpenInList(old_out[u])
    /\ old_out[u] # <<>> /\ old_out[u][1].room \in Open
         /\ old_out[u][1].code \notin {"register", "users"} =>
           Refusals(out[u]) = Refusals(old_out[u])
=============================================================================
