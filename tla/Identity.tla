------------------------------ MODULE Identity ------------------------------
(***************************************************************************)
(* What the manager's session layer promises its users, without sockets,   *)
(* descriptors or a select loop: a user who connects is given an id nobody *)
(* holds, is told that id, and keeps it until after it has left.           *)
(***************************************************************************)
CONSTANTS
  Clients,    \* client processes, each admitted at most once
  Slots,      \* the user ids
  NoClient,   \* "nobody holds this id", not a client
  NoSlot      \* "has not been told an id", not an id

VARIABLES
  holder,     \* who holds each id
  admitted,   \* the clients that have been given an id
  told,       \* the id each client that is still here has been told
  gone        \* the clients that have left

vars == <<holder, admitted, told, gone>>

TypeOK ==
  /\ holder \in [Slots -> Clients \cup {NoClient}]
  /\ admitted \subseteq Clients
  /\ told \in [Clients -> Slots \cup {NoSlot}]
  /\ gone \subseteq Clients

Init ==
  /\ holder = [u \in Slots |-> NoClient]
  /\ admitted = {}
  /\ told = [c \in Clients |-> NoSlot]
  /\ gone = {}

\* handle_new_user(): the client may have left already.
Admit(c, u) ==
  /\ c \notin admitted
  /\ holder[u] = NoClient
  /\ holder' = [holder EXCEPT ![u] = c]
  /\ admitted' = admitted \cup {c}
  /\ UNCHANGED <<told, gone>>

\* The response to the register request arrives.
Tell(c, u) ==
  /\ c \notin gone
  /\ holder[u] = c
  /\ told' = [told EXCEPT ![c] = u]
  /\ UNCHANGED <<holder, admitted, gone>>

Leave(c) ==
  /\ c \notin gone
  /\ gone' = gone \cup {c}
  /\ told' = [told EXCEPT ![c] = NoSlot]
  /\ UNCHANGED <<holder, admitted>>

\* handle_request() reads the end of file: an id is taken back from nobody else.
Release(u) ==
  /\ holder[u] \in gone
  /\ holder' = [holder EXCEPT ![u] = NoClient]
  /\ UNCHANGED <<admitted, told, gone>>

Next ==
  \/ \E c \in Clients, u \in Slots : Admit(c, u) \/ Tell(c, u)
  \/ \E c \in Clients : Leave(c)
  \/ \E u \in Slots : Release(u)

Spec == Init /\ [][Next]_vars

-----------------------------------------------------------------------------
\* A user who has been told an id holds it, and holds no other; so two users
\* who are here never go by the same id.
IdsAreTheirOwn ==
  \A c \in Clients, u \in Slots : told[c] # NoSlot => (told[c] = u <=> holder[u] = c)
=============================================================================
