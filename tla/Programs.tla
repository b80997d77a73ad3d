------------------------------ MODULE Programs ------------------------------
(***************************************************************************)
(* The client programs of the repository side by side: gogup_client,       *)
(* client_out, gogup_client_without_mcast and client.  Each is given the   *)
(* same typed lines and the same responses in the same order, and handles  *)
(* them with its own handle_cmd() and handle_res().                        *)
(*                                                                         *)
(* Names, texts and what is drawn around the chats are left out; a line    *)
(* has the numbers its command needs.                                      *)
(***************************************************************************)
EXTENDS Naturals, Sequences

CONSTANTS
  Ids,     \* ids of users and of rooms that lines and responses name
  NoRoom   \* cur_room_id of a client that has typed no /connect

ASSUME ProgramsAssumption == 0 \in Ids /\ NoRoom \notin Ids

VARIABLES
  typed,    \* history variable: the line typed last, or none
  gogup,    \* the state of gogup_client
  out,      \* of client_out
  without,  \* of gogup_client_without_mcast
  old       \* of client

vars == <<typed, gogup, out, without, old>>

\* Lines are commands with their numbers.  "other" starts with a slash and is
\* no command, "text" does not.  A line that is sent is sent as it is; for /send
\* and /register, which the command table has and no case of handle_cmd() is
\* for, a frame of zeros is.  A manager drops that frame without an answer.
Plain ==
  {<<"create">>, <<"rl">>, <<"ul">>}
    \cup {<<"delete", r>> : r \in Ids} \cup {<<"invite", u, r>> : u, r \in Ids}

Connects == {<<"connect", r>> : r \in Ids}

Lines ==
  Plain \cup Connects
    \cup {<<w>> : w \in {"send", "register", "hb", "help", "exit", "other", "text"}}

Zeros == <<"zeros">>

\* The responses the managers write: code, status, and the fields read of it.
\* "end" is a read() that says that the manager is gone.
Responses ==
  [code : {"create", "delete", "connect", "invite", "rl", "ul"}, status : {200},
     room : {0}, user : {0}]
  \cup [code : {"delete", "connect", "chat"}, status : {500}, room : {0}, user : {0}]
  \cup [code : {"invite"}, status : {300}, room : {0}, user : {0}]
  \cup [code : {"register"}, status : {200}, room : {0}, user : Ids]
  \cup [code : {"chat"}, status : {200}, room : Ids, user : Ids]
  \cup [code : {"end"}, status : {0}, room : {0}, user : {0}]

\* on: the program runs; id, room, hb: my_user_id, cur_room_id and
\* heartbeat_log_flag; sent, shown, told: what the last step wrote to the
\* manager, put among the chats, and said to the user otherwise.
Started ==
  [on |-> TRUE, id |-> 0, room |-> NoRoom, hb |-> FALSE,
   sent |-> <<>>, shown |-> <<>>, told |-> "none"]

Init ==
  /\ typed = <<>>
  /\ gogup = Started /\ out = Started /\ without = Started /\ old = Started

TypeOK ==
  /\ typed \in Lines \cup {<<>>}
  /\ \A s \in {gogup, out, without, old} :
       /\ s.on \in BOOLEAN /\ s.hb \in BOOLEAN
       /\ s.id \in Ids /\ s.room \in Ids \cup {NoRoom}
       /\ s.sent \in {<<>>} \cup
            {<<q>> : q \in Plain \cup Connects \cup {Zeros, <<"chat", s.room, s.id>>}}
       /\ s.shown \in {<<>>} \cup {<<m>> : m \in Ids \X Ids}

-----------------------------------------------------------------------------
(* What a step keeps of a state, and what it adds.                         *)

Fresh(s)       == [s EXCEPT !.sent = <<>>, !.shown = <<>>, !.told = "none"]
Tells(s, w)    == [Fresh(s) EXCEPT !.told = w]
Sends(s, q)    == [Fresh(s) EXCEPT !.sent = <<q>>]
Shows(s, r, u) == [Fresh(s) EXCEPT !.shown = <<<<r, u>>>>]
Ends(s)        == [Fresh(s) EXCEPT !.on = FALSE]

Moves(s, r)    == [Sends(s, <<"connect", r>>) EXCEPT !.room = r]
Says(s)        == Sends(s, <<"chat", s.room, s.id>>)

-----------------------------------------------------------------------------
(* Each program: the line l, or the response f, takes it from s to t.      *)

\* The two numbers of /delete, /invite and the lists are sent as they were typed.
gogup_handle_cmd(s, l, t) ==
  \/ l \in Plain /\ t = Sends(s, l)
  \/ l \in Connects /\ t = Moves(s, l[2])
  \/ l \in {<<"send">>, <<"register">>} /\ t = Sends(s, Zeros)
  \/ l = <<"text">> /\ s.room # NoRoom /\ t = Says(s)
  \/ l = <<"text">> /\ s.room = NoRoom /\ t = Tells(s, "room not connected")
  \/ l = <<"other">> /\ t = Tells(s, "Command not found")
  \/ l = <<"hb">> /\ t = [Tells(s, "Heartbeat log") EXCEPT !.hb = ~@]
  \/ l = <<"help">> /\ t = Tells(s, "help")
  \/ l = <<"exit">> /\ t = Ends(s)

\* A refused invitation has status 300, which is neither success nor failure here.
gogup_handle_res(s, f, t) ==
  \/ f.code = "end" /\ t = Ends(s)
  \/ f.status = 500 /\ t = Tells(s, "failed")
  \/ f.status = 300 /\ t = Fresh(s)
  \/ f.status = 200 /\ f.code \notin {"chat", "register"} /\ t = Tells(s, "success")
  \/ f.status = 200 /\ f.code = "register" /\ t = [Tells(s, "success") EXCEPT !.id = f.user]
  \/ f.status = 200 /\ f.code = "chat" /\ f.room = s.room /\ t = Shows(s, f.room, f.user)
  \/ f.status = 200 /\ f.code = "chat" /\ f.room # s.room /\ t = Fresh(s)

\* A line with a slash that is no command is a chat, and so is /exit.
out_handle_cmd(s, l, t) ==
  \/ l \in Plain /\ t = Sends(s, l)
  \/ l \in Connects /\ t = Moves(s, l[2])
  \/ l \in {<<"send">>, <<"register">>} /\ t = Sends(s, Zeros)
  \/ /\ l \in {<<"text">>, <<"other">>, <<"exit">>}
     /\ \/ s.room # NoRoom /\ t = Says(s)
        \/ s.room = NoRoom /\ t = Tells(s, "room not connected")
  \/ l = <<"hb">> /\ t = [Tells(s, "Heartbeat log") EXCEPT !.hb = ~@]
  \/ l = <<"help">> /\ t = Tells(s, "help")

\* Mutant of out_handle_res: the id is read where the status is.
IdFromStatus(s, f, t) ==
  IF f.code = "register" THEN t = [Fresh(s) EXCEPT !.id = f.status] ELSE gogup_handle_res(s, f, t)

\* Failures, and successes that are no list, are not mentioned.
out_handle_res(s, f, t) ==
  \/ f.code = "end" /\ t = Ends(s)
  \/ f.status \in {300, 500} /\ t = Fresh(s)
  \/ f.status = 200 /\ f.code \in {"create", "delete", "invite", "connect"} /\ t = Fresh(s)
  \/ f.status = 200 /\ f.code \in {"rl", "ul"} /\ t = Tells(s, "list")
  \/ f.status = 200 /\ f.code = "register" /\ t = [Tells(s, "user id") EXCEPT !.id = f.user]
  \/ f.status = 200 /\ f.code = "chat" /\ f.room = s.room /\ t = Shows(s, f.room, f.user)
  \/ f.status = 200 /\ f.code = "chat" /\ f.room # s.room /\ t = Fresh(s)

\* Mutants of without_handle_cmd and of without_handle_res: a chat is sent
\* without a room; the id is taken from a failure too.
ChatWithoutRoom(s, l, t) ==
  IF l = <<"text">> THEN t = Says(s) ELSE gogup_handle_cmd(s, l, t)

IdOfAny(s, f, t) ==
  IF f.code \in {"register", "chat"} THEN t = [Fresh(s) EXCEPT !.id = f.user]
  ELSE gogup_handle_res(s, f, t)

\* cmd.c and res.c: gogup_client's two handlers in files of their own.
without_handle_cmd(s, l, t) ==
  \/ l = <<"help">> /\ t = Tells(s, "help")
  \/ l = <<"other">> /\ t = Tells(s, "Command not found")
  \/ l = <<"text">> /\ s.room = NoRoom /\ t = Tells(s, "room not connected")
  \/ l = <<"text">> /\ s.room # NoRoom /\ t = Says(s)
  \/ l \in {<<"send">>, <<"register">>} /\ t = Sends(s, Zeros)
  \/ l \in Connects /\ t = Moves(s, l[2])
  \/ l \in Plain /\ t = Sends(s, l)
  \/ l = <<"hb">> /\ t = [Tells(s, "Heartbeat log") EXCEPT !.hb = ~@]
  \/ l = <<"exit">> /\ t = Ends(s)

without_handle_res(s, f, t) ==
  \/ f.code = "end" /\ t = Ends(s)
  \/ f.status = 200 /\ f.code \notin {"chat", "register"} /\ t = Tells(s, "success")
  \/ f.status = 500 /\ t = Tells(s, "failed")
  \/ f.status = 300 /\ t = Fresh(s)
  \/ f.status = 200 /\ f.code = "chat" /\ f.room = s.room /\ t = Shows(s, f.room, f.user)
  \/ f.status = 200 /\ f.code = "chat" /\ f.room # s.room /\ t = Fresh(s)
  \/ f.status = 200 /\ f.code = "register" /\ t = [Tells(s, "success") EXCEPT !.id = f.user]

\* client: anything else that is typed is dropped without a word.
old_handle_cmd(s, l, t) ==
  \/ l = <<"help">> /\ t = Tells(s, "help")
  \/ l \in {<<"rl">>, <<"ul">>, <<"create">>} /\ t = Sends(s, l)
  \/ l \notin {<<"help">>, <<"rl">>, <<"ul">>, <<"create">>} /\ t = Fresh(s)

\* Of the responses only a registration and the lists are looked at, and the id
\* in a registration is not.
old_handle_res(s, f, t) ==
  \/ f.code \in {"register", "rl", "ul"} /\ t = Tells(s, f.code)
  \/ f.code \notin {"register", "rl", "ul"} /\ t = Fresh(s)

-----------------------------------------------------------------------------
(* Lines and responses reach the programs that run.                        *)

TypeLine(l) ==
  /\ typed' = l
  /\ IF gogup.on THEN gogup_handle_cmd(gogup, l, gogup') ELSE gogup' = Fresh(gogup)
  /\ IF out.on THEN out_handle_cmd(out, l, out') ELSE out' = Fresh(out)
  /\ IF without.on THEN without_handle_cmd(without, l, without') ELSE without' = Fresh(without)
  /\ IF old.on THEN old_handle_cmd(old, l, old') ELSE old' = Fresh(old)

Respond(f) ==
  /\ typed' = <<>>
  /\ IF gogup.on THEN gogup_handle_res(gogup, f, gogup') ELSE gogup' = Fresh(gogup)
  /\ IF out.on THEN out_handle_res(out, f, out') ELSE out' = Fresh(out)
  /\ IF without.on THEN without_handle_res(without, f, without') ELSE without' = Fresh(without)
  /\ IF old.on THEN old_handle_res(old, f, old') ELSE old' = Fresh(old)

Next ==
  \/ \E l \in Lines : TypeLine(l)
  \/ \E f \in Responses : Respond(f)

Spec == Init /\ [][Next]_vars

-----------------------------------------------------------------------------
(* What the programs have in common.                                       *)

\* As long as its user has not left it, gogup_client is in the same room under
\* the same id as client_out, shows the same chats and writes the same requests,
\* except that client_out sends an unknown command to the room as a chat
\* (client_out main.c:208-232).  client writes no request that gogup_client
\* would not write.
SameConversation ==
  /\ without = gogup
  /\ gogup.on =>
       /\ out.on
       /\ out.id = gogup.id /\ out.room = gogup.room /\ out.hb = gogup.hb
       /\ out.shown = gogup.shown
       /\ out.sent = gogup.sent \/ (typed = <<"other">> /\ gogup.sent = <<>>)
       /\ old.sent \in {<<>>, gogup.sent}

\* Each of them does what a client has to.
Gogup == INSTANCE Terminal WITH
  id <- gogup.id, room <- gogup.room, sent <- gogup.sent, shown <- gogup.shown

Out == INSTANCE Terminal WITH
  id <- out.id, room <- out.room, sent <- out.sent, shown <- out.shown

Without == INSTANCE Terminal WITH
  id <- without.id, room <- without.room, sent <- without.sent, shown <- without.shown

OldClient == INSTANCE Terminal WITH
  id <- old.id, room <- old.room, sent <- old.sent, shown <- old.shown

ImplementTerminal == Gogup!Spec /\ Out!Spec /\ Without!Spec /\ OldClient!Spec
=============================================================================
