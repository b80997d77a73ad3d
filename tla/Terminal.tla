------------------------------ MODULE Terminal ------------------------------
(***************************************************************************)
(* What every client program promises the manager and its user: it speaks  *)
(* only in the room it has asked to connect to, under the id it was given, *)
(* and shows only what is said there.  An abstract specification; Programs *)
(* has the programs.                                                       *)
(***************************************************************************)
EXTENDS Naturals, Sequences

CONSTANTS
  Ids,     \* ids of users and of rooms, 0 among them
  NoRoom   \* the room of a client that has not connected to one, no member of Ids

VARIABLES
  id,     \* the user's id, 0 before it is told one
  room,   \* the room the client is in
  sent,   \* the requests the last step wrote
  shown   \* the chats the last step put on the screen, each by its room and sender

vars == <<id, room, sent, shown>>

Plain == {<<c>> : c \in {"create", "rl", "ul"}}
           \cup {<<"delete", r>> : r \in Ids}
           \cup {<<"invite", u, r>> : u, r \in Ids}

\* A frame that asks for nothing.
Zeros == <<"zeros">>

Init == id = 0 /\ room = NoRoom /\ sent = <<>> /\ shown = <<>>

\* A line that changes nothing here: a request, a frame that is none, or
\* something for the terminal.
Ask ==
  /\ sent' \in {<<>>} \cup {<<q>> : q \in Plain \cup {Zeros}}
  /\ shown' = <<>>
  /\ UNCHANGED <<id, room>>

Connect(r) ==
  /\ room' = r
  /\ sent' = <<<<"connect", r>>>>
  /\ shown' = <<>>
  /\ UNCHANGED id

Say ==
  /\ room # NoRoom
  /\ sent' = <<<<"chat", room, id>>>>
  /\ shown' = <<>>
  /\ UNCHANGED <<id, room>>

Learn(u) ==
  /\ id' = u
  /\ sent' = <<>> /\ shown' = <<>>
  /\ UNCHANGED room

Show(u) ==
  /\ room # NoRoom
  /\ shown' = <<<<room, u>>>>
  /\ sent' = <<>>
  /\ UNCHANGED <<id, room>>

Next == Ask \/ Say \/ \E i \in Ids : Connect(i) \/ Learn(i) \/ Show(i)

Spec == Init /\ [][Next]_vars
=============================================================================
