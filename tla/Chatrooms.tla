----------------------------- MODULE Chatrooms -----------------------------
(***************************************************************************)
(* What the manager's rooms promise their users, with no table, no cells   *)
(* and no limit of a room's history: a room has an owner, members and a    *)
(* log of everything said in it; a chat is shown once to every member, and *)
(* connecting shows the latest part of the log.                            *)
(***************************************************************************)
EXTENDS Naturals, Sequences

CONSTANTS
  Users,    \* user ids
  Rooms,    \* room ids
  Texts,    \* contents of a chat
  NoOwner,  \* the owner of a room that does not exist
  Latest,   \* how many chats connecting to a room shows
  MaxLog    \* bound: chats said in one room

ASSUME ChatroomsAssumption ==
  /\ NoOwner \notin Users
  /\ Latest \in Nat \ {0}
  /\ MaxLog \in Nat

Chats == [from : Users, text : Texts]

VARIABLES
  owner,    \* the owner of each room
  members,  \* the members of each room
  log,      \* all that was said in it since it was created
  shown     \* what the last request made appear to each user

vars == <<owner, members, log, shown>>

TypeOK ==
  /\ owner \in [Rooms -> Users \cup {NoOwner}]
  /\ members \in [Rooms -> SUBSET Users]
  /\ log \in [Rooms -> Seq(Chats)]
  /\ shown \in [Users -> Seq(Chats)]

Nothing == [u \in Users |-> <<>>]

Init ==
  /\ owner = [r \in Rooms |-> NoOwner]
  /\ members = [r \in Rooms |-> {}]
  /\ log = [r \in Rooms |-> <<>>]
  /\ shown = Nothing

\* The last n elements of s, all of them when it has fewer.
LastOf(s, n) == IF Len(s) <= n THEN s ELSE SubSeq(s, Len(s) - n + 1, Len(s))

Create(u, r) ==
  /\ owner[r] = NoOwner
  /\ owner' = [owner EXCEPT ![r] = u]
  /\ members' = [members EXCEPT ![r] = {u}]
  /\ log' = [log EXCEPT ![r] = <<>>]
  /\ shown' = Nothing

\* Mutant of Delete: the owner leaves and the members stay.
OwnerLeaves(u, r) ==
  /\ owner[r] = u
  /\ owner' = [owner EXCEPT ![r] = NoOwner]
  /\ members' = [members EXCEPT ![r] = @ \ {u}]
  /\ shown' = Nothing
  /\ UNCHANGED log

Delete(u, r) ==
  /\ owner[r] = u
  /\ owner' = [owner EXCEPT ![r] = NoOwner]
  /\ members' = [members EXCEPT ![r] = {}]
  /\ log' = [log EXCEPT ![r] = <<>>]
  /\ shown' = Nothing

Invite(u, r, v) ==
  /\ u \in members[r]
  /\ members' = [members EXCEPT ![r] = @ \cup {v}]
  /\ shown' = Nothing
  /\ UNCHANGED <<owner, log>>

\* Mutants of Audience and Recalled: everybody hears; the oldest chats are shown.
Everybody(r) == Users
Oldest(r) == SubSeq(log[r], 1, IF Len(log[r]) < Latest THEN Len(log[r]) ELSE Latest)

Audience(r) == members[r]
Recalled(r) == LastOf(log[r], Latest)

Say(r, m) ==
  /\ m.from \in members[r]
  /\ Len(log[r]) < MaxLog
  /\ log' = [log EXCEPT ![r] = Append(@, m)]
  /\ shown' = [v \in Users |-> IF v \in Audience(r) THEN <<m>> ELSE <<>>]
  /\ UNCHANGED <<owner, members>>

Connect(u, r) ==
  /\ u \in members[r]
  /\ shown' = [Nothing EXCEPT ![u] = Recalled(r)]
  /\ UNCHANGED <<owner, members, log>>

\* A request that is refused, or that only asks for a list.
Ask ==
  /\ shown' = Nothing
  /\ UNCHANGED <<owner, members, log>>

Next ==
  \/ \E u \in Users, r \in Rooms : Create(u, r) \/ Delete(u, r) \/ Connect(u, r)
  \/ \E u, v \in Users, r \in Rooms : Invite(u, r, v)
  \/ \E r \in Rooms, m \in Chats : Say(r, m)
  \/ Ask

Spec == Init /\ [][Next]_vars

-----------------------------------------------------------------------------
(* A room exists exactly while it has members, and its owner is one.       *)
OwnedByMember ==
  \A r \in Rooms :
    /\ owner[r] = NoOwner <=> members[r] = {}
    /\ owner[r] # NoOwner => owner[r] \in members[r]
=============================================================================
