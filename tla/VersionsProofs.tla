--------------------------- MODULE VersionsProofs ---------------------------
(* Proofs about the two managers of Versions: first the release manager,   *)
(* then what it has in common with manager/.                               *)
EXTENDS Versions, RoomsProofs

LEMMA OldFacts ==
  /\ Old!Users = Users /\ Old!RoomIds = RoomIds /\ Old!Chats = Chats
  /\ MaxMembers <= ROOM_USER_MAX
  /\ Nobody \notin Persons
BY RoomFacts, VersionsAssumption DEF Old!Users, Users, Old!RoomIds, RoomIds, Old!Chats, Chats

LEMMA SameCardinality == \A S : Old!Cardinality(S) = Cardinality(S)
BY DEF Old!Cardinality, Cardinality, Old!IsFiniteSet, IsFiniteSet

-----------------------------------------------------------------------------
(* Type correctness of the release manager.                                *)

LEMMA OldBlankType == Old!Blank \in Old!Room /\ Old!Blank.users = <<>> /\ Old!Blank.history = <<>>
BY RoomFacts, OldFacts DEF Old!Blank, Old!Room, Old!ROOM_STATUS_OFF

LEMMA OldCreatedIs ==
  ASSUME NEW u \in Users, NEW r \in RoomIds
  PROVE  /\ Old!Created(u, r) \in Old!Room
         /\ Old!Created(u, r).status = ROOM_STATUS_ON
         /\ Old!Created(u, r).super_user_id = u
         /\ Old!Created(u, r).users = <<u>>
         /\ Old!Created(u, r).history = <<>>
<1>1. <<u>> \in Seq(Users) /\ <<>> \in Seq(Chats)
  OBVIOUS
<1> QED
  BY <1>1, OldFacts DEF Old!Created, Old!Room, Old!ROOM_STATUS_ON, ROOM_STATUS_ON

LEMMA OldCodeType ==
  ASSUME NEW c \in {"register", "create", "delete", "connect", "chat", "invite", "users"},
         NEW s \in {200, 300, 500}, NEW r \in RoomIds
  PROVE  Old!Code(c, s, r) \in Old!Response
BY OldFacts DEF Old!Code, Old!Response

LEMMA OldCarriesType ==
  ASSUME NEW c \in {"connect", "chat"}, NEW r \in RoomIds, NEW m \in Chats
  PROVE  Old!Carries(c, r, m) \in Old!Response
BY OldFacts DEF Old!Carries, Old!Response

LEMMA OldSentType ==
  ASSUME NEW s \in [Users -> Seq(Old!Response)]
  PROVE  Old!Sent(s) \in [Users -> Seq(Old!Response)]
<1>1. \A u \in Users : (IF u \in Old!Online THEN s[u] ELSE <<>>) \in Seq(Old!Response)
  OBVIOUS
<1> QED
  BY <1>1, OldFacts DEF Old!Sent

LEMMA OldOneType ==
  ASSUME NEW u \in Users, NEW s \in Seq(Old!Response)
  PROVE  [Old!Nothing EXCEPT ![u] = s] \in [Users -> Seq(Old!Response)]
<1>1. Old!Nothing \in [Users -> Seq(Old!Response)]
  BY OldFacts DEF Old!Nothing
<1> QED
  BY <1>1

LEMMA OldAnswerType ==
  ASSUME NEW u \in Users, NEW a \in Old!Response, Old!Answer(u, a)
  PROVE  old_out' \in [Users -> Seq(Old!Response)]
<1>1. <<a>> \in Seq(Old!Response)
  OBVIOUS
<1> QED
  BY <1>1, OldOneType, OldSentType DEF Old!Answer

\* The number of a user's cells is finite.
LEMMA OldCountType ==
  ASSUME NEW old \in Old!Room, NEW u
  PROVE  Old!Cardinality({i \in DOMAIN old.users : old.users[i] = u}) \in Nat
<1> DEFINE T == {i \in DOMAIN old.users : old.users[i] = u}
<1>1. old.users \in Seq(Users)
  BY OldFacts DEF Old!Room
<1>2. DOMAIN old.users = 1 .. Len(old.users) /\ Len(old.users) \in Nat
  BY <1>1, LenProperties
<1>3. IsFiniteSet(DOMAIN old.users)
  BY <1>2, FS_Interval
<1>4. T \subseteq DOMAIN old.users
  OBVIOUS
<1>5. Cardinality(T) \in Nat
  <2> HIDE DEF T
  <2> QED
    BY <1>3, <1>4, FS_Subset, FS_CardinalityType
<1> QED
  BY <1>5, SameCardinality

LEMMA OldMembersType ==
  ASSUME NEW r \in RoomIds, OldTypeOK, NEW a \in Old!Response, Old!ToMembers(r, a)
  PROVE  old_out' \in [Users -> Seq(Old!Response)]
<1> DEFINE cells(u) == {i \in DOMAIN old_rooms[r].users : old_rooms[r].users[i] = u}
           made == [u \in Users |-> [k \in 1 .. Cardinality(cells(u)) |-> a]]
<1>1. ASSUME NEW u \in Users
      PROVE  [k \in 1 .. Cardinality(cells(u)) |-> a] \in Seq(Old!Response)
  <2>1. old_rooms[r] \in Old!Room
    BY OldFacts DEF OldTypeOK, Old!TypeOK
  <2>2. Cardinality(cells(u)) \in Nat
    BY <2>1, OldCountType, SameCardinality
  <2> QED
    BY <2>2, IsASeq
<1>2. made \in [Users -> Seq(Old!Response)]
  BY <1>1
<1>3. old_out' = Old!Sent(made)
  BY OldFacts, SameCardinality DEF Old!ToMembers
<1> QED
  BY <1>2, <1>3, OldSentType

LEMMA OldTypeInit == Old!Init => OldTypeOK
<1> SUFFICES ASSUME Old!Init PROVE OldTypeOK
  OBVIOUS
<1>1. /\ old_rooms \in [RoomIds -> Old!Room]
      /\ \A r \in RoomIds : Len(old_rooms[r].history) = 0 /\ Len(old_rooms[r].users) = 0
  BY OldBlankType, OldFacts DEF Old!Init
<1>2. old_out \in [Users -> Seq(Old!Response)]
  BY OldFacts DEF Old!Init, Old!Nothing
<1>3. old_log \in [RoomIds -> Seq(Chats)] /\ admitted \in [RoomIds -> SUBSET Persons]
  BY OldFacts DEF Old!Init
<1>4. holder \in [Users -> Persons \cup {Nobody}] /\ old_rooms_cnt \in 0 .. ROOM_MAX
  BY OldFacts, RoomFacts DEF Old!Init
<1> QED
  BY <1>1, <1>2, <1>3, <1>4, OldFacts, RoomFacts DEF OldTypeOK, Old!TypeOK

LEMMA OldTypeStep == OldTypeOK /\ Old!Next => OldTypeOK'
<1> SUFFICES ASSUME OldTypeOK, Old!Next
             PROVE  OldTypeOK'
  OBVIOUS
<1> USE RoomFacts, OldFacts
<1>0. /\ holder \in [Users -> Persons \cup {Nobody}]
      /\ old_rooms \in [RoomIds -> Old!Room]
      /\ old_rooms_cnt \in 0 .. ROOM_MAX
      /\ old_log \in [RoomIds -> Seq(Chats)]
      /\ admitted \in [RoomIds -> SUBSET Persons]
      /\ \A r \in RoomIds :
           /\ Len(old_rooms[r].history) <= ROOM_HISTORY_LEN
           /\ Len(old_rooms[r].users) <= ROOM_USER_MAX
  BY DEF OldTypeOK, Old!TypeOK
\* What a step that leaves the rooms alone has to show.
<1>A. ASSUME UNCHANGED Old!roomVars,
             holder' \in [Users -> Persons \cup {Nobody}],
             old_out' \in [Users -> Seq(Old!Response)]
      PROVE  OldTypeOK'
  BY <1>0, <1>A DEF Old!roomVars, OldTypeOK, Old!TypeOK
<1>N. Old!Nothing \in [Users -> Seq(Old!Response)]
  BY DEF Old!Nothing
<1>1. ASSUME NEW p \in Persons, Old!handle_new_user(p)
      PROVE  OldTypeOK'
  <2>1. PICK u \in Users : holder' = [holder EXCEPT ![u] = p]
    BY <1>1 DEF Old!handle_new_user
  <2> QED
    BY <1>0, <1>1, <1>A, <1>N, <2>1 DEF Old!handle_new_user
<1>2. ASSUME NEW u \in Users, Old!handle_closed(u)
      PROVE  OldTypeOK'
  BY <1>0, <1>2, <1>A, <1>N DEF Old!handle_closed
<1>3. ASSUME NEW u \in Users, Old!user_register(u) \/ Old!user_list(u)
      PROVE  OldTypeOK'
  <2>1. old_out' \in [Users -> Seq(Old!Response)]
    <3>1. CASE Old!user_register(u)
      <4>1. Old!Answer(u, Old!Code("register", 200, 0))
        BY <3>1 DEF Old!user_register
      <4>2. Old!Code("register", 200, 0) \in Old!Response
        BY OldCodeType
      <4> QED
        BY <4>1, <4>2, OldAnswerType
    <3>2. CASE Old!user_list(u)
      <4>1. Old!Answer(u, Old!Code("users", 200, 0))
        BY <3>2 DEF Old!user_list
      <4>2. Old!Code("users", 200, 0) \in Old!Response
        BY OldCodeType
      <4> QED
        BY <4>1, <4>2, OldAnswerType
    <3> QED
      BY <1>3, <3>1, <3>2
  <2>2. UNCHANGED <<holder, Old!roomVars>>
    BY <1>3 DEF Old!user_register, Old!user_list
  <2> QED
    BY <1>0, <1>A, <2>1, <2>2
<1>4. ASSUME NEW u \in Users, u \in Old!Online, Old!room_create(u)
      PROVE  OldTypeOK'
  <2>1. PICK r \in RoomIds :
          /\ old_rooms' = [old_rooms EXCEPT ![r] = Old!Created(u, r)]
          /\ old_rooms_cnt' = IF r + 1 > old_rooms_cnt THEN r + 1 ELSE old_rooms_cnt
          /\ old_log' = [old_log EXCEPT ![r] = <<>>]
          /\ admitted' = [admitted EXCEPT ![r] = {holder[u]}]
          /\ Old!Answer(u, Old!Code("create", 200, r))
    BY <1>4 DEF Old!room_create
  <2>2. old_rooms' \in [RoomIds -> Old!Room] /\ old_log' \in [RoomIds -> Seq(Chats)]
    BY <1>0, <2>1, OldCreatedIs
  <2>3. old_rooms_cnt' \in 0 .. ROOM_MAX
    <3>1. r + 1 \in 0 .. ROOM_MAX
      BY DEF RoomIds
    <3> QED
      BY <1>0, <2>1, <3>1
  <2>4. admitted' \in [RoomIds -> SUBSET Persons]
    <3>1. holder[u] \in Persons
      BY <1>0, <1>4 DEF Old!Online
    <3> QED
      BY <1>0, <2>1, <3>1
  <2>5. old_out' \in [Users -> Seq(Old!Response)]
    <3>1. Old!Code("create", 200, r) \in Old!Response
      BY OldCodeType
    <3> QED
      BY <2>1, <3>1, OldAnswerType
  <2>6. \A q \in RoomIds :
          /\ Len(old_rooms'[q].history) <= ROOM_HISTORY_LEN
          /\ Len(old_rooms'[q].users) <= ROOM_USER_MAX
    <3>1. Len(Old!Created(u, r).users) = 1 /\ Len(Old!Created(u, r).history) = 0
      <4>1. Len(<<u>>) = 1
        OBVIOUS
      <4>2. Len(<<>>) = 0
        OBVIOUS
      <4> QED
        BY <4>1, <4>2, OldCreatedIs, Zenon
    <3> TAKE q \in RoomIds
    <3>2. CASE q = r
      <4>1. old_rooms'[q] = Old!Created(u, r)
        BY <1>0, <2>1, <3>2
      <4>2. Len(old_rooms'[q].users) = 1 /\ Len(old_rooms'[q].history) = 0
        BY <3>1, <4>1, Zenon
      <4> QED
        BY <4>2
    <3>3. CASE q # r
      BY <1>0, <2>1, <3>3
    <3> QED
      BY <3>2, <3>3
  <2>7. holder' = holder
    BY <1>4 DEF Old!room_create
  <2> QED
    BY <1>0, <2>2, <2>3, <2>4, <2>5, <2>6, <2>7 DEF OldTypeOK, Old!TypeOK
<1>5. ASSUME NEW u \in Users, Old!room_list(u)
      PROVE  OldTypeOK'
  <2>1. Old!RoomList(Old!Listed(u)) \in Old!Response
    <3>1. \A i \in 0 .. old_rooms_cnt - 1 : i \in RoomIds /\ old_rooms[i].id \in RoomIds
      <4> TAKE i \in 0 .. old_rooms_cnt - 1
      <4>1. i \in RoomIds
        BY <1>0 DEF RoomIds
      <4> QED
        BY <1>0, <4>1 DEF Old!Room
    <3>2. Old!Listed(u) \subseteq RoomIds
      BY <3>1 DEF Old!Listed
    <3> QED
      BY <3>2 DEF Old!RoomList, Old!Response
  <2>2. old_out' \in [Users -> Seq(Old!Response)]
    BY <1>5, <2>1, OldAnswerType DEF Old!room_list
  <2> QED
    BY <1>0, <1>5, <1>A, <2>2 DEF Old!room_list
<1>6. ASSUME NEW u \in Users, NEW r \in RoomIds, Old!room_delete(u, r)
      PROVE  OldTypeOK'
  <2>1. CASE /\ old_rooms' = [old_rooms EXCEPT ![r].status = Old!ROOM_STATUS_OFF]
             /\ Old!Answer(u, Old!Code("delete", 200, r))
             /\ UNCHANGED <<holder, old_rooms_cnt, old_log, admitted>>
    <3>1. old_rooms' \in [RoomIds -> Old!Room]
      BY <1>0, <2>1 DEF Old!Room
    <3>2. \A q \in RoomIds : /\ old_rooms'[q].history = old_rooms[q].history
                             /\ old_rooms'[q].users = old_rooms[q].users
      <4> TAKE q \in RoomIds
      <4>1. CASE q = r
        <5>1. old_rooms'[q] = [old_rooms[r] EXCEPT !.status = Old!ROOM_STATUS_OFF]
          BY <1>0, <2>1, <4>1
        <5>2. old_rooms[r] \in Old!Room
          BY <1>0
        <5> QED
          BY <4>1, <5>1, <5>2 DEF Old!Room
      <4>2. CASE q # r
        BY <1>0, <2>1, <4>2
      <4> QED
        BY <4>1, <4>2
    <3>3. Old!Code("delete", 200, r) \in Old!Response
      BY OldCodeType
    <3>4. old_out' \in [Users -> Seq(Old!Response)]
      BY <2>1, <3>3, OldAnswerType
    <3> QED
      BY <1>0, <2>1, <3>1, <3>2, <3>4 DEF OldTypeOK, Old!TypeOK
  <2>2. CASE Old!Answer(u, Old!Code("delete", 500, r)) /\ UNCHANGED <<holder, Old!roomVars>>
    <3>1. Old!Code("delete", 500, r) \in Old!Response
      BY OldCodeType
    <3> QED
      BY <1>0, <1>A, <2>2, <3>1, OldAnswerType
  <2> QED
    BY <1>6, <2>1, <2>2 DEF Old!room_delete
<1>7. ASSUME NEW u \in Users, NEW r \in RoomIds, Old!room_connect(u, r)
      PROVE  OldTypeOK'
  <2> DEFINE h == old_rooms[r].history
  <2>1. h \in Seq(Chats)
    BY <1>0 DEF Old!Room
  <2>2. [i \in DOMAIN h |-> Old!Carries("connect", r, h[i])] \in Seq(Old!Response)
    BY <2>1, OldCarriesType, LenProperties, ElementOfSeq, IsASeq
  <2>3. old_out' \in [Users -> Seq(Old!Response)]
    <3>1. CASE old_out' = Old!Sent([Old!Nothing EXCEPT ![u] =
                 [i \in DOMAIN h |-> Old!Carries("connect", r, h[i])]])
      BY <2>2, <3>1, OldOneType, OldSentType
    <3>2. CASE Old!Answer(u, Old!Code("connect", 500, r))
      <4>1. Old!Code("connect", 500, r) \in Old!Response
        BY OldCodeType
      <4> QED
        BY <3>2, <4>1, OldAnswerType
    <3> QED
      BY <1>7, <3>1, <3>2 DEF Old!room_connect
  <2> QED
    BY <1>0, <1>7, <1>A, <2>3 DEF Old!room_connect
<1>8. ASSUME NEW u \in Users, NEW v \in Users, NEW r \in RoomIds, Old!room_invite(u, r, v)
      PROVE  OldTypeOK'
  <2>1. CASE /\ Len(old_rooms[r].users) < MaxMembers
             /\ old_rooms' = [old_rooms EXCEPT ![r] = Old!Invited(@, v)]
             /\ admitted' = [admitted EXCEPT ![r] = @ \cup ({holder[v]} \ {Nobody})]
             /\ Old!Answer(u, Old!Code("invite", 200, r))
             /\ UNCHANGED <<holder, old_rooms_cnt, old_log>>
    <3>0. old_rooms[r] \in Old!Room /\ old_rooms[r].users \in Seq(Users)
      BY <1>0 DEF Old!Room
    <3>1. /\ Append(old_rooms[r].users, v) \in Seq(Users)
          /\ Len(Append(old_rooms[r].users, v)) = Len(old_rooms[r].users) + 1
          /\ Len(old_rooms[r].users) \in Nat
      BY <3>0, AppendProperties, LenProperties
    <3>2. /\ Old!Invited(old_rooms[r], v) \in Old!Room
          /\ Old!Invited(old_rooms[r], v).history = old_rooms[r].history
          /\ Old!Invited(old_rooms[r], v).users = Append(old_rooms[r].users, v)
      BY <3>0, <3>1 DEF Old!Invited, Old!Room
    <3>3. old_rooms' \in [RoomIds -> Old!Room]
      BY <1>0, <2>1, <3>2
    <3>4. \A q \in RoomIds :
            /\ Len(old_rooms'[q].history) <= ROOM_HISTORY_LEN
            /\ Len(old_rooms'[q].users) <= ROOM_USER_MAX
      BY <1>0, <2>1, <3>1, <3>2
    <3>5. admitted' \in [RoomIds -> SUBSET Persons]
      <4>1. {holder[v]} \ {Nobody} \subseteq Persons
        BY <1>0
      <4> QED
        BY <1>0, <2>1, <4>1
    <3>6. Old!Code("invite", 200, r) \in Old!Response
      BY OldCodeType
    <3>7. old_out' \in [Users -> Seq(Old!Response)]
      BY <2>1, <3>6, OldAnswerType
    <3> QED
      BY <1>0, <2>1, <3>3, <3>4, <3>5, <3>7 DEF OldTypeOK, Old!TypeOK
  <2>2. CASE Old!Answer(u, Old!Code("invite", 300, r)) /\ UNCHANGED <<holder, Old!roomVars>>
    <3>1. Old!Code("invite", 300, r) \in Old!Response
      BY OldCodeType
    <3> QED
      BY <1>0, <1>A, <2>2, <3>1, OldAnswerType
  <2> QED
    BY <1>8, <2>1, <2>2 DEF Old!room_invite
<1>9. ASSUME NEW u \in Users, NEW r \in RoomIds, NEW t \in Texts, Old!send_chat(u, r, t)
      PROVE  OldTypeOK'
  <2> DEFINE m == [from |-> u, text |-> t]
  <2>0. m \in Chats
    BY DEF Chats
  <2> HIDE DEF m
  <2>1. CASE /\ Old!ToMembers(r, Old!Carries("chat", r, m))
             /\ old_rooms' = [old_rooms EXCEPT ![r].history = Old!push_history(@, m)]
             /\ old_log' = [old_log EXCEPT ![r] = Append(@, m)]
             /\ UNCHANGED <<holder, old_rooms_cnt, admitted>>
    <3>0. /\ old_rooms[r] \in Old!Room /\ old_rooms[r].history \in Seq(Chats)
          /\ old_log[r] \in Seq(Chats)
      BY <1>0 DEF Old!Room
    <3>1. /\ Old!push_history(old_rooms[r].history, m) \in Seq(Chats)
          /\ Len(Old!push_history(old_rooms[r].history, m)) <= ROOM_HISTORY_LEN
      BY <1>0, <2>0, <3>0, PushType DEF Old!push_history, push_history
    <3>2. old_rooms' \in [RoomIds -> Old!Room]
      BY <1>0, <2>1, <3>1 DEF Old!Room
    <3>3. \A q \in RoomIds :
            /\ Len(old_rooms'[q].history) <= ROOM_HISTORY_LEN
            /\ Len(old_rooms'[q].users) <= ROOM_USER_MAX
      BY <1>0, <2>1, <3>1 DEF Old!Room
    <3>4. old_log' \in [RoomIds -> Seq(Chats)]
      BY <1>0, <2>0, <2>1, <3>0, AppendProperties
    <3>5. Old!Carries("chat", r, m) \in Old!Response
      BY <2>0, OldCarriesType
    <3>6. old_out' \in [Users -> Seq(Old!Response)]
      BY <2>1, <3>5, OldMembersType
    <3> QED
      BY <1>0, <2>1, <3>2, <3>3, <3>4, <3>6 DEF OldTypeOK, Old!TypeOK
  <2>2. CASE Old!Answer(u, Old!Code("chat", 500, r)) /\ UNCHANGED <<holder, Old!roomVars>>
    <3>1. Old!Code("chat", 500, r) \in Old!Response
      BY OldCodeType
    <3> QED
      BY <1>0, <1>A, <2>2, <3>1, OldAnswerType
  <2> QED
    BY <1>9, <2>1, <2>2 DEF Old!send_chat, m
<1>10. ASSUME NEW u \in Users, Old!handle_request(u)
       PROVE  OldTypeOK'
  BY <1>3, <1>4, <1>5, <1>6, <1>7, <1>8, <1>9, <1>10 DEF Old!handle_request
<1> QED
  BY <1>1, <1>2, <1>10 DEF Old!Next

-----------------------------------------------------------------------------
(* The history of the release manager.                                     *)

LEMMA OldLastOf ==
  /\ \A s, n : Old!LastOf(s, n) = LastOf(s, n)
  /\ \A h, m : Old!push_history(h, m) = push_history(h, m)
BY DEF Old!LastOf, LastOf, Old!push_history, push_history

LEMMA OldHistoryInit == Old!Init => OldHistoryKept
<1>1. LastOf(<<>>, ROOM_HISTORY_LEN) = <<>>
  BY RoomFacts DEF LastOf
<1> QED
  BY <1>1, OldFacts, OldLastOf, OldBlankType DEF Old!Init, OldHistoryKept, Old!HistoryKept

LEMMA OldHistoryStep == OldTypeOK /\ OldHistoryKept /\ Old!Next => OldHistoryKept'
<1> SUFFICES ASSUME OldTypeOK, OldHistoryKept, Old!Next,
                    NEW q \in RoomIds
             PROVE  old_rooms'[q].history = LastOf(old_log'[q], ROOM_HISTORY_LEN)
  BY OldFacts, OldLastOf DEF OldHistoryKept, Old!HistoryKept
<1> USE RoomFacts, OldFacts
<1>0. /\ old_rooms \in [RoomIds -> Old!Room]
      /\ old_log \in [RoomIds -> Seq(Chats)]
      /\ \A r \in RoomIds : old_rooms[r].history = LastOf(old_log[r], ROOM_HISTORY_LEN)
  BY OldLastOf DEF OldTypeOK, Old!TypeOK, OldHistoryKept, Old!HistoryKept
<1>1. CASE old_rooms'[q].history = old_rooms[q].history /\ old_log'[q] = old_log[q]
  BY <1>0, <1>1
<1>2. ASSUME NEW u \in Users, Old!room_create(u)
      PROVE  old_rooms'[q].history = LastOf(old_log'[q], ROOM_HISTORY_LEN)
  <2>1. PICK r \in RoomIds : /\ old_rooms' = [old_rooms EXCEPT ![r] = Old!Created(u, r)]
                             /\ old_log' = [old_log EXCEPT ![r] = <<>>]
    BY <1>2 DEF Old!room_create
  <2>2. CASE q = r
    <3>1. old_rooms'[q] = Old!Created(u, r) /\ old_log'[q] = <<>>
      BY <1>0, <2>1, <2>2
    <3>2. LastOf(<<>>, ROOM_HISTORY_LEN) = <<>>
      BY DEF LastOf
    <3> QED
      BY <3>1, <3>2, OldCreatedIs
  <2>3. CASE q # r
    BY <1>0, <1>1, <2>1, <2>3
  <2> QED
    BY <2>2, <2>3
<1>3. ASSUME NEW u \in Users, NEW r \in RoomIds, Old!room_delete(u, r)
      PROVE  old_rooms'[q].history = LastOf(old_log'[q], ROOM_HISTORY_LEN)
  <2>1. CASE /\ old_rooms' = [old_rooms EXCEPT ![r].status = Old!ROOM_STATUS_OFF]
             /\ UNCHANGED old_log
    <3>1. old_rooms[q] \in Old!Room
      BY <1>0
    <3>2. old_rooms'[q] = IF q = r THEN [old_rooms[q] EXCEPT !.status = Old!ROOM_STATUS_OFF]
                          ELSE old_rooms[q]
      BY <1>0, <2>1
    <3> QED
      BY <1>1, <2>1, <3>1, <3>2 DEF Old!Room
  <2> QED
    BY <1>1, <1>3, <2>1 DEF Old!room_delete, Old!roomVars
<1>4. ASSUME NEW u \in Users, NEW v \in Users, NEW r \in RoomIds, Old!room_invite(u, r, v)
      PROVE  old_rooms'[q].history = LastOf(old_log'[q], ROOM_HISTORY_LEN)
  <2>1. CASE /\ old_rooms' = [old_rooms EXCEPT ![r] = Old!Invited(@, v)]
             /\ UNCHANGED old_log
    <3>1. old_rooms[q] \in Old!Room
      BY <1>0
    <3>2. old_rooms'[q] = IF q = r THEN Old!Invited(old_rooms[q], v) ELSE old_rooms[q]
      BY <1>0, <2>1
    <3> QED
      BY <1>1, <2>1, <3>1, <3>2 DEF Old!Room, Old!Invited
  <2> QED
    BY <1>1, <1>4, <2>1 DEF Old!room_invite, Old!roomVars
<1>5. ASSUME NEW u \in Users, NEW r \in RoomIds, NEW t \in Texts, Old!send_chat(u, r, t)
      PROVE  old_rooms'[q].history = LastOf(old_log'[q], ROOM_HISTORY_LEN)
  <2> DEFINE m == [from |-> u, text |-> t]
  <2>0. m \in Chats
    BY DEF Chats
  <2> HIDE DEF m
  <2>1. CASE /\ old_rooms' = [old_rooms EXCEPT ![r].history = Old!push_history(@, m)]
             /\ old_log' = [old_log EXCEPT ![r] = Append(@, m)]
    <3>1. CASE q = r
      <4>1. old_rooms[q] \in Old!Room /\ old_log[q] \in Seq(Chats)
        BY <1>0
      <4>2. old_rooms'[q] = [old_rooms[q] EXCEPT !.history = push_history(@, m)]
        BY <1>0, <2>1, <3>1, OldLastOf
      <4>3. old_rooms'[q].history = push_history(old_rooms[q].history, m)
        BY <4>1, <4>2 DEF Old!Room
      <4>4. old_log'[q] = Append(old_log[q], m)
        BY <1>0, <2>1, <3>1
      <4>5. LastOf(Append(old_log[q], m), ROOM_HISTORY_LEN)
              = push_history(LastOf(old_log[q], ROOM_HISTORY_LEN), m)
        BY <2>0, <4>1, PushIsLatest
      <4> QED
        BY <1>0, <4>3, <4>4, <4>5
    <3>2. CASE q # r
      BY <1>0, <1>1, <2>1, <3>2
    <3> QED
      BY <3>1, <3>2
  <2> QED
    BY <1>1, <1>5, <2>1 DEF Old!send_chat, Old!roomVars, m
<1> QED
  BY <1>1, <1>2, <1>3, <1>4, <1>5
  DEF Old!Next, Old!handle_new_user, Old!handle_closed, Old!handle_request, Old!roomVars,
      Old!user_register, Old!user_list, Old!room_list, Old!room_connect

-----------------------------------------------------------------------------
(* The two side by side.                                                   *)

\* What Versions does to the release manager, the release manager does.
LEMMA VersionsAreOld == VersionsNext => Old!Next
<1> SUFFICES ASSUME VersionsNext PROVE Old!Next
  OBVIOUS
<1> USE OldFacts
<1>1. ASSUME NEW u \in Old!Online, Request(u)
      PROVE  Old!handle_request(u)
  BY <1>1 DEF Request, Old!handle_request
<1>2. \A u \in Old!Online : u \in Old!Users
  BY DEF Old!Online
<1> QED
  BY <1>1, <1>2 DEF VersionsNext, Old!Next

OldInv == OldTypeOK /\ OldHistoryKept

LEMMA OldInvAlways == VersionsSpec => []OldInv
<1>1. VersionsInit => OldInv
  BY OldTypeInit, OldHistoryInit DEF VersionsInit, OldInv
<1>2. OldInv /\ VersionsNext => OldInv'
  BY VersionsAreOld, OldTypeStep, OldHistoryStep DEF OldInv
<1>3. OldInv /\ UNCHANGED versionVars => OldInv'
  BY DEF OldInv, versionVars, Old!vars, Old!roomVars, OldTypeOK, Old!TypeOK,
         OldHistoryKept, Old!HistoryKept
<1> QED
  BY <1>1, <1>2, <1>3, PTL DEF VersionsSpec

\* The tables and the responses of the release manager keep their types, and no
\* room gets more members or more history than it has cells.
THEOREM OldTypeCorrect == VersionsSpec => []OldTypeOK
<1>1. OldInv => OldTypeOK
  BY DEF OldInv
<1> QED
  BY <1>1, OldInvAlways, PTL

\* In the release manager, which does not clear a deleted room, a room shows
\* nothing of the room that had its id before: creating it does the clearing.
THEOREM OldHistory == VersionsSpec => []OldHistoryKept
<1>1. OldInv => OldHistoryKept
  BY DEF OldInv
<1> QED
  BY <1>1, OldInvAlways, PTL

-----------------------------------------------------------------------------
(* The same rooms are on in both, with the same members and history.       *)

\* What OpenRoomsAgree says of one room and its log.
Alike(room, old, l, old_l) ==
  /\ room.status = old.status
  /\ room.status # ROOM_STATUS_OFF =>
       /\ room.super_user_id = old.super_user_id
       /\ SameCells(room, old)
       /\ room.history = old.history
       /\ l = old_l

LEMMA AgreeIsAlike ==
  OpenRoomsAgree <=>
    /\ rooms_cnt = old_rooms_cnt
    /\ \A r \in RoomIds : Alike(rooms[r], old_rooms[r], log[r], old_log[r])
BY DEF OpenRoomsAgree, Alike, Open

LEMMA CreatedAlike ==
  ASSUME NEW u \in Users, NEW r \in RoomIds
  PROVE  Alike(Created(u, r), Old!Created(u, r), <<>>, <<>>)
<1>1. Len(<<u>>) = 1 /\ DOMAIN <<u>> = {1} /\ <<u>>[1] = u
  OBVIOUS
<1>2. SameCells(Created(u, r), Old!Created(u, r))
  <2>1. Old!Created(u, r).users = <<u>>
    BY OldCreatedIs
  <2>2. Created(u, r).user_cnt = 1 /\ Created(u, r).users[0] = u
    BY CreatedIs
  <2>3. Created(u, r).users[1 - 1] = u
    BY <2>2
  <2> QED
    BY <1>1, <2>1, <2>2, <2>3, Zenon DEF SameCells
<1> QED
  BY <1>2, CreatedIs, OldCreatedIs DEF Alike

LEMMA InvitedAlike ==
  ASSUME NEW room \in Room, NEW old \in Old!Room, NEW v \in Users, NEW l, NEW old_l,
         Alike(room, old, l, old_l), room.user_cnt < ROOM_USER_MAX,
         room.status # ROOM_STATUS_OFF
  PROVE  Alike(Invited(room, v), Old!Invited(old, v), l, old_l)
<1> USE RoomFacts, OldFacts
<1>1. /\ old.users \in Seq(Users)
      /\ room.users \in [0 .. ROOM_USER_MAX - 1 -> Users]
      /\ room.user_cnt \in Nat
  BY DEF Room, Old!Room
<1>2. /\ Len(old.users) \in Nat /\ Len(old.users) = room.user_cnt
      /\ \A i \in 1 .. Len(old.users) : room.users[i - 1] = old.users[i]
  BY <1>1, LenProperties DEF Alike, SameCells
<1> DEFINE w == Append(old.users, v)
<1>3. /\ Len(w) = Len(old.users) + 1 /\ DOMAIN w = 1 .. Len(old.users) + 1
      /\ \A i \in 1 .. Len(old.users) : w[i] = old.users[i]
      /\ w[Len(old.users) + 1] = v
  BY <1>1, AppendProperties
<1>4. /\ Old!Invited(old, v).users = w
      /\ Old!Invited(old, v).status = old.status
      /\ Old!Invited(old, v).super_user_id = old.super_user_id
      /\ Old!Invited(old, v).history = old.history
  BY DEF Old!Invited, Old!Room
<1>5. /\ Invited(room, v).user_cnt = room.user_cnt + 1
      /\ Invited(room, v).users = [room.users EXCEPT ![room.user_cnt] = v]
      /\ Invited(room, v).status = room.status
      /\ Invited(room, v).super_user_id = room.super_user_id
      /\ Invited(room, v).history = room.history
  BY DEF Invited, Room
<1> HIDE DEF w
<1>6. SameCells(Invited(room, v), Old!Invited(old, v))
  <2> SUFFICES ASSUME NEW i \in 1 .. Len(old.users) + 1
               PROVE  [room.users EXCEPT ![room.user_cnt] = v][i - 1] = w[i]
    BY <1>2, <1>3, <1>4, <1>5 DEF SameCells
  <2>1. CASE i = Len(old.users) + 1
    BY <1>1, <1>2, <1>3, <2>1
  <2>2. CASE i # Len(old.users) + 1
    <3>1. i \in 1 .. Len(old.users) /\ i - 1 # room.user_cnt /\ i - 1 \in 0 .. ROOM_USER_MAX - 1
      <4>1. room.user_cnt < ROOM_USER_MAX
        OBVIOUS
      <4> DEFINE n == Len(old.users)
      <4>2. n \in Nat /\ n = room.user_cnt
        BY <1>2
      <4>3. i \in 1 .. n + 1 /\ i # n + 1
        BY <2>2
      <4> HIDE DEF n
      <4>4. i \in 1 .. n /\ i - 1 # n /\ i - 1 \in 0 .. ROOM_USER_MAX - 1
        BY <4>1, <4>2, <4>3
      <4> QED
        BY <4>2, <4>4 DEF n
    <3> QED
      BY <1>1, <1>2, <1>3, <3>1
  <2> QED
    BY <2>1, <2>2
<1> QED
  BY <1>4, <1>5, <1>6 DEF Alike

LEMMA PushedAlike ==
  ASSUME NEW room \in Room, NEW old \in Old!Room, NEW m \in Chats, NEW l, NEW old_l,
         Alike(room, old, l, old_l)
  PROVE  Alike([room EXCEPT !.history = push_history(@, m)],
               [old EXCEPT !.history = Old!push_history(@, m)],
               Append(l, m), Append(old_l, m))
BY OldLastOf DEF Alike, SameCells, Room, Old!Room

\* Rooms that are alike and on have the same members.
LEMMA SameMembers ==
  ASSUME NEW room \in Room, NEW old \in Old!Room, NEW l, NEW old_l,
         Alike(room, old, l, old_l), room.status # ROOM_STATUS_OFF,
         Len(old.users) <= ROOM_USER_MAX
  PROVE  Members(room) = Old!Members(old)
<1> USE RoomFacts, OldFacts
<1>1. /\ old.users \in Seq(Users) /\ Len(old.users) \in Nat
      /\ DOMAIN old.users = 1 .. Len(old.users)
  BY LenProperties DEF Old!Room
<1>2. /\ room.user_cnt = Len(old.users)
      /\ \A i \in 1 .. Len(old.users) : room.users[i - 1] = old.users[i]
  BY <1>1 DEF Alike, SameCells
<1>3. Members(room) = {room.users[i] : i \in 0 .. room.user_cnt - 1}
  BY <1>2, MembersAreCells
<1>4. ASSUME NEW x \in Members(room)
      PROVE  x \in Old!Members(old)
  <2>1. PICK i \in 0 .. room.user_cnt - 1 : x = room.users[i]
    BY <1>3
  <2>2. i + 1 \in 1 .. Len(old.users) /\ room.users[(i + 1) - 1] = room.users[i]
    BY <1>1, <1>2
  <2> QED
    BY <1>1, <1>2, <2>1, <2>2 DEF Old!Members
<1>5. ASSUME NEW x \in Old!Members(old)
      PROVE  x \in Members(room)
  <2>1. PICK i \in 1 .. Len(old.users) : x = old.users[i]
    BY <1>1 DEF Old!Members
  <2>2. i - 1 \in 0 .. room.user_cnt - 1 /\ room.users[i - 1] = x
    BY <1>1, <1>2, <2>1
  <2> QED
    BY <1>3, <2>2
<1> QED
  BY <1>4, <1>5

BothInv == RInv /\ OldInv /\ OpenRoomsAgree

LEMMA UnseenRInv == RInv /\ Unseen => RInv'
<1> SUFFICES ASSUME RInv, Unseen PROVE RInv'
  OBVIOUS
<1>1. out' \in [Users -> Seq(Response)]
  BY DEF Unseen, Nothing
<1> QED
  BY <1>1 DEF RInv, TypeOK, OffIsBlank, HistoryIsSuffix, Unseen

LEMMA VersionsAreNew == VersionsNext => Unseen \/ Next
<1>1. \A u \in Old!Online : u \in Users
  BY OldFacts DEF Old!Online
<1>2. ASSUME NEW u \in Old!Online, Request(u)
      PROVE  Unseen \/ Next
  <2>1. \A t \in Texts : [from |-> u, text |-> t] \in Chats
    BY <1>1 DEF Chats
  <2> QED
    BY <1>1, <1>2, <2>1 DEF Request, Next
<1> QED
  BY <1>2 DEF VersionsNext

LEMMA VersionsRInv == RInv /\ VersionsNext => RInv'
<1> SUFFICES ASSUME RInv, VersionsNext PROVE RInv'
  OBVIOUS
<1> QED
  BY VersionsAreNew, UnseenRInv, RInvStep

\* The room a creation takes is the same in both.
LEMMA SameNewRoom ==
  ASSUME OpenRoomsAgree, Cardinality(Open) < MaxOpen,
         NEW r \in RoomIds, NEW q \in RoomIds, NewRoomId(r), Old!NewRoomId(q)
  PROVE  r = q
<1> USE RoomFacts, OldFacts
<1>1. Old!Open = Open
  BY DEF OpenRoomsAgree, Old!Open, Open, Old!ROOM_STATUS_OFF, ROOM_STATUS_OFF
<1>2. Open # RoomIds
  <2>1. Cardinality(RoomIds) = ROOM_MAX
    BY FS_Interval DEF RoomIds
  <2>2. MaxOpen <= ROOM_MAX
    BY VersionsAssumption
  <2>3. SUFFICES ASSUME Open = RoomIds PROVE FALSE
    OBVIOUS
  <2>4. ROOM_MAX < MaxOpen
    BY <2>1, <2>3
  <2> QED
    BY <2>2, <2>4
<1>3. /\ r \notin Open /\ \A p \in RoomIds : p < r => p \in Open
      /\ q \notin Open /\ \A p \in RoomIds : p < q => p \in Open
  BY <1>1, <1>2 DEF NewRoomId, Old!NewRoomId
<1> QED
  BY <1>3

LEMMA AgreeStep == BothInv /\ VersionsNext => OpenRoomsAgree'
<1> SUFFICES ASSUME BothInv, VersionsNext PROVE OpenRoomsAgree'
  OBVIOUS
<1> USE RoomFacts, OldFacts
<1>0. /\ rooms \in [RoomIds -> Room]
      /\ log \in [RoomIds -> Seq(Chats)]
      /\ old_rooms \in [RoomIds -> Old!Room]
      /\ old_log \in [RoomIds -> Seq(Chats)]
      /\ \A r \in RoomIds : Len(old_rooms[r].users) <= ROOM_USER_MAX
  BY DEF BothInv, RInv, TypeOK, OldInv, OldTypeOK, Old!TypeOK
<1>1. /\ rooms_cnt = old_rooms_cnt
      /\ \A r \in RoomIds : Alike(rooms[r], old_rooms[r], log[r], old_log[r])
  BY AgreeIsAlike DEF BothInv
\* A step that keeps every room alike, and the counters equal, will do.
<1>A. ASSUME rooms_cnt' = old_rooms_cnt',
             \A q \in RoomIds : Alike(rooms'[q], old_rooms'[q], log'[q], old_log'[q])
      PROVE  OpenRoomsAgree'
  BY <1>A DEF OpenRoomsAgree, Alike, Open, SameCells, ROOM_STATUS_OFF
<1>U. CASE UNCHANGED <<rooms, rooms_cnt, log>> /\ UNCHANGED Old!roomVars
  BY <1>1, <1>A, <1>U DEF Old!roomVars
<1>O. ASSUME NEW r \in RoomIds, rooms[r].status = ROOM_STATUS_OFF
      PROVE  rooms[r] = Blank /\ Members(rooms[r]) = {} /\ Blank.status = ROOM_STATUS_OFF
  BY <1>O, BlankIsEmpty DEF BothInv, RInv, OffIsBlank
<1>M. ASSUME NEW r \in RoomIds, rooms[r].status # ROOM_STATUS_OFF, NEW x
      PROVE  room_contains_user(rooms[r], x) <=> Old!room_contains_user(r, x)
  <2>1. Members(rooms[r]) = Old!Members(old_rooms[r])
    BY <1>0, <1>1, <1>M, SameMembers
  <2> QED
    BY <2>1 DEF room_contains_user, Old!room_contains_user
<1>2. ASSUME NEW u \in Users, room_create(u), Old!room_create(u)
      PROVE  OpenRoomsAgree'
  <2>1. PICK r \in RoomIds :
          /\ NewRoomId(r)
          /\ rooms' = [rooms EXCEPT ![r] = Created(u, r)]
          /\ rooms_cnt' = IF r + 1 > rooms_cnt THEN r + 1 ELSE rooms_cnt
          /\ log' = [log EXCEPT ![r] = <<>>]
    BY <1>2 DEF room_create
  <2>2. PICK q \in RoomIds :
          /\ Old!NewRoomId(q)
          /\ old_rooms' = [old_rooms EXCEPT ![q] = Old!Created(u, q)]
          /\ old_rooms_cnt' = IF q + 1 > old_rooms_cnt THEN q + 1 ELSE old_rooms_cnt
          /\ old_log' = [old_log EXCEPT ![q] = <<>>]
    BY <1>2 DEF Old!room_create
  <2>3. r = q
    BY <1>2, <2>1, <2>2, SameNewRoom DEF room_create, BothInv
  <2>4. ASSUME NEW p \in RoomIds
        PROVE  Alike(rooms'[p], old_rooms'[p], log'[p], old_log'[p])
    <3>1. CASE p = r
      <4>1. /\ rooms'[p] = Created(u, r) /\ log'[p] = <<>>
            /\ old_rooms'[p] = Old!Created(u, r) /\ old_log'[p] = <<>>
        BY <1>0, <2>1, <2>2, <2>3, <3>1
      <4> QED
        BY <4>1, CreatedAlike
    <3>2. CASE p # r
      BY <1>0, <1>1, <2>1, <2>2, <2>3, <3>2
    <3> QED
      BY <3>1, <3>2
  <2>5. rooms_cnt' = old_rooms_cnt'
    BY <1>1, <2>1, <2>2, <2>3
  <2> QED
    BY <1>A, <2>4, <2>5
<1>3. ASSUME NEW u \in Users, NEW r \in RoomIds, room_delete(u, r), Old!room_delete(u, r)
      PROVE  OpenRoomsAgree'
  <2>0. rooms_cnt' = old_rooms_cnt'
    BY <1>1, <1>3 DEF room_delete, Old!room_delete, Old!roomVars
  <2>1. ASSUME NEW p \in RoomIds, p # r
        PROVE  Alike(rooms'[p], old_rooms'[p], log'[p], old_log'[p])
    BY <1>0, <1>1, <1>3, <2>1 DEF room_delete, Old!room_delete, Old!roomVars
  <2>2. /\ u = rooms[r].super_user_id => rooms'[r] = Blank
        /\ u # rooms[r].super_user_id => rooms'[r] = rooms[r] /\ log'[r] = log[r]
        /\ old_log'[r] = old_log[r]
        /\ u = old_rooms[r].super_user_id =>
             old_rooms'[r] = [old_rooms[r] EXCEPT !.status = Old!ROOM_STATUS_OFF]
        /\ u # old_rooms[r].super_user_id => old_rooms'[r] = old_rooms[r]
    BY <1>0, <1>3 DEF room_delete, Deleted, Old!room_delete, Old!roomVars
  <2>3. [old_rooms[r] EXCEPT !.status = Old!ROOM_STATUS_OFF].status = ROOM_STATUS_OFF
    BY <1>0 DEF Old!Room, Old!ROOM_STATUS_OFF, ROOM_STATUS_OFF
  <2>4. Blank.status = ROOM_STATUS_OFF
    BY BlankIsEmpty
  <2>5. Alike(rooms[r], old_rooms[r], log[r], old_log[r])
    BY <1>1
  <2>6. Alike(rooms'[r], old_rooms'[r], log'[r], old_log'[r])
    <3>1. CASE rooms[r].status = ROOM_STATUS_OFF
      <4>1. rooms'[r].status = ROOM_STATUS_OFF /\ old_rooms'[r].status = ROOM_STATUS_OFF
        BY <2>2, <2>3, <2>4, <2>5, <3>1 DEF Alike
      <4> QED
        BY <4>1 DEF Alike
    <3>2. CASE rooms[r].status # ROOM_STATUS_OFF
      <4>1. rooms[r].super_user_id = old_rooms[r].super_user_id
        BY <2>5, <3>2 DEF Alike
      <4>2. CASE u = rooms[r].super_user_id
        <5>1. rooms'[r].status = ROOM_STATUS_OFF /\ old_rooms'[r].status = ROOM_STATUS_OFF
          BY <2>2, <2>3, <2>4, <4>1, <4>2
        <5> QED
          BY <5>1 DEF Alike
      <4>3. CASE u # rooms[r].super_user_id
        BY <2>2, <2>5, <4>1, <4>3
      <4> QED
        BY <4>2, <4>3
    <3> QED
      BY <3>1, <3>2
  <2> QED
    BY <1>A, <2>0, <2>1, <2>6
<1>4. ASSUME NEW u \in Users, NEW v \in Users, NEW r \in RoomIds,
             room_invite(u, r, v), Old!room_invite(u, r, v)
      PROVE  OpenRoomsAgree'
  <2>0. rooms_cnt' = old_rooms_cnt'
    BY <1>1, <1>4 DEF room_invite, Old!room_invite, Old!roomVars
  <2>1. log' = log /\ old_log' = old_log
    BY <1>4 DEF room_invite, Old!room_invite, Old!roomVars
  <2>2. ASSUME NEW p \in RoomIds, p # r
        PROVE  Alike(rooms'[p], old_rooms'[p], log'[p], old_log'[p])
    BY <1>0, <1>1, <1>4, <2>1, <2>2 DEF room_invite, Old!room_invite, Old!roomVars
  <2>3. Alike(rooms[r], old_rooms[r], log[r], old_log[r])
    BY <1>1
  <2>4. Alike(rooms'[r], old_rooms'[r], log'[r], old_log'[r])
    <3>1. CASE rooms[r].status = ROOM_STATUS_OFF
      <4>1. rooms'[r].status = ROOM_STATUS_OFF
        BY <1>0, <1>4, <1>O, <3>1 DEF room_invite, Accepts, room_contains_user
      <4>2. old_rooms[r].status = ROOM_STATUS_OFF
        BY <2>3, <3>1 DEF Alike
      <4>3. Old!Invited(old_rooms[r], v).status = ROOM_STATUS_OFF
        BY <1>0, <4>2 DEF Old!Invited, Old!Room
      <4>4. old_rooms'[r].status = ROOM_STATUS_OFF
        BY <1>0, <1>4, <4>2, <4>3 DEF Old!room_invite, Old!roomVars
      <4> QED
        BY <4>1, <4>4 DEF Alike
    <3>2. CASE rooms[r].status # ROOM_STATUS_OFF
      <4>1. Accepts(rooms[r], u, v)
              <=> Old!room_contains_user(r, u) /\ ~Old!room_contains_user(r, v)
        BY <1>M, <3>2 DEF Accepts
      <4>2. CASE Accepts(rooms[r], u, v)
        <5>1. /\ rooms[r].user_cnt < MaxMembers
              /\ rooms'[r] = Invited(rooms[r], v)
              /\ old_rooms'[r] = Old!Invited(old_rooms[r], v)
          BY <1>0, <1>4, <4>1, <4>2 DEF room_invite, Old!room_invite
        <5>2. rooms[r] \in Room /\ old_rooms[r] \in Old!Room /\ rooms[r].user_cnt \in Nat
          BY <1>0 DEF Room
        <5>3. rooms[r].user_cnt < ROOM_USER_MAX
          BY <5>1, <5>2
        <5> QED
          BY <2>1, <2>3, <3>2, <5>1, <5>2, <5>3, InvitedAlike
      <4>3. CASE ~Accepts(rooms[r], u, v)
        BY <1>4, <2>1, <2>3, <4>1, <4>3 DEF room_invite, Old!room_invite, Old!roomVars
      <4> QED
        BY <4>2, <4>3
    <3> QED
      BY <3>1, <3>2
  <2> QED
    BY <1>A, <2>0, <2>2, <2>4
<1>5. ASSUME NEW u \in Users, NEW r \in RoomIds, NEW t \in Texts,
             send_chat(r, [from |-> u, text |-> t]), Old!send_chat(u, r, t)
      PROVE  OpenRoomsAgree'
  <2> DEFINE m == [from |-> u, text |-> t]
  <2>0. m \in Chats /\ m.from = u
    BY DEF Chats
  <2>1. /\ \/ /\ room_contains_user(rooms[r], u)
              /\ rooms' = [rooms EXCEPT ![r].history = push_history(@, m)]
              /\ log' = [log EXCEPT ![r] = Append(@, m)]
           \/ /\ ~room_contains_user(rooms[r], u)
              /\ rooms' = rooms /\ log' = log
        /\ rooms_cnt' = rooms_cnt
    BY <1>5 DEF send_chat
  <2>2. /\ \/ /\ Old!room_contains_user(r, u)
              /\ old_rooms' = [old_rooms EXCEPT ![r].history = Old!push_history(@, m)]
              /\ old_log' = [old_log EXCEPT ![r] = Append(@, m)]
           \/ /\ ~Old!room_contains_user(r, u)
              /\ old_rooms' = old_rooms /\ old_log' = old_log
        /\ old_rooms_cnt' = old_rooms_cnt
    BY <1>5 DEF Old!send_chat, Old!roomVars
  <2> HIDE DEF m
  <2>3. ASSUME NEW p \in RoomIds, p # r
        PROVE  Alike(rooms'[p], old_rooms'[p], log'[p], old_log'[p])
    BY <1>0, <1>1, <2>1, <2>2, <2>3
  <2>4. Alike(rooms[r], old_rooms[r], log[r], old_log[r])
    BY <1>1
  <2>5. Alike(rooms'[r], old_rooms'[r], log'[r], old_log'[r])
    <3>1. CASE rooms[r].status = ROOM_STATUS_OFF
      <4>1. rooms'[r].status = ROOM_STATUS_OFF
        BY <1>O, <2>1, <3>1 DEF room_contains_user
      <4>2. old_rooms[r].status = ROOM_STATUS_OFF
        BY <2>4, <3>1 DEF Alike
      <4>3. old_rooms'[r].status = ROOM_STATUS_OFF
        <5>1. CASE old_rooms' = [old_rooms EXCEPT ![r].history = Old!push_history(@, m)]
          <6>1. old_rooms'[r] = [old_rooms[r] EXCEPT !.history = Old!push_history(@, m)]
            BY <1>0, <5>1
          <6>2. old_rooms[r] \in Old!Room
            BY <1>0
          <6> QED
            BY <4>2, <6>1, <6>2 DEF Old!Room
        <5> QED
          BY <2>2, <4>2, <5>1
      <4> QED
        BY <4>1, <4>3 DEF Alike
    <3>2. CASE rooms[r].status # ROOM_STATUS_OFF
      <4>1. room_contains_user(rooms[r], u) <=> Old!room_contains_user(r, u)
        BY <1>M, <3>2
      <4>2. CASE room_contains_user(rooms[r], u)
        <5>1. /\ rooms'[r] = [rooms[r] EXCEPT !.history = push_history(@, m)]
              /\ old_rooms'[r] = [old_rooms[r] EXCEPT !.history = Old!push_history(@, m)]
              /\ log'[r] = Append(log[r], m) /\ old_log'[r] = Append(old_log[r], m)
          BY <1>0, <2>1, <2>2, <4>1, <4>2
        <5>2. rooms[r] \in Room /\ old_rooms[r] \in Old!Room
          BY <1>0
        <5>3. Alike([rooms[r] EXCEPT !.history = push_history(@, m)],
                    [old_rooms[r] EXCEPT !.history = Old!push_history(@, m)],
                    Append(log[r], m), Append(old_log[r], m))
          BY <2>0, <2>4, <5>2, PushedAlike
        <5> QED
          BY <5>1, <5>3, Zenon
      <4>3. CASE ~room_contains_user(rooms[r], u)
        BY <2>1, <2>2, <2>4, <4>1, <4>3
      <4> QED
        BY <4>2, <4>3
    <3> QED
      BY <3>1, <3>2
  <2> QED
    BY <1>1, <1>A, <2>1, <2>2, <2>3, <2>5
<1>6. ASSUME NEW u \in Old!Online, Request(u)
      PROVE  OpenRoomsAgree'
  <2>1. u \in Users
    BY DEF Old!Online
  <2>2. CASE \/ Unseen /\ (Old!user_register(u) \/ Old!user_list(u))
             \/ room_list(u) /\ Old!room_list(u)
             \/ \E r \in RoomIds : room_connect(u, r) /\ Old!room_connect(u, r)
    BY <1>U, <2>2 DEF Unseen, room_list, room_connect, Old!user_register, Old!user_list,
                      Old!room_list, Old!room_connect, Old!roomVars
  <2> QED
    BY <1>2, <1>3, <1>4, <1>5, <1>6, <2>1, <2>2 DEF Request
<1>7. CASE \E p \in Persons : Unseen /\ Old!handle_new_user(p)
  BY <1>U, <1>7 DEF Unseen, Old!handle_new_user, Old!roomVars
<1>8. CASE \E u \in Users : Unseen /\ Old!handle_closed(u)
  BY <1>U, <1>8 DEF Unseen, Old!handle_closed, Old!roomVars
<1> QED
  BY <1>6, <1>7, <1>8 DEF VersionsNext

LEMMA BothInvInit == VersionsInit => BothInv
<1> SUFFICES ASSUME VersionsInit PROVE BothInv
  OBVIOUS
<1>1. RInv /\ OldInv
  BY RInvInit, OldTypeInit, OldHistoryInit DEF VersionsInit, OldInv
<1>2. /\ rooms_cnt = old_rooms_cnt
      /\ \A r \in RoomIds : rooms[r].status = ROOM_STATUS_OFF
                            /\ old_rooms[r].status = ROOM_STATUS_OFF
  BY OldFacts, BlankIsEmpty DEF VersionsInit, Init, Old!Init, Old!Blank,
                                Old!ROOM_STATUS_OFF, ROOM_STATUS_OFF
<1>3. OpenRoomsAgree
  BY <1>2, AgreeIsAlike DEF Alike
<1> QED
  BY <1>1, <1>3 DEF BothInv

LEMMA BothInvStep == BothInv /\ VersionsNext => BothInv'
<1> SUFFICES ASSUME BothInv, VersionsNext PROVE BothInv'
  OBVIOUS
<1>1. OldInv'
  BY VersionsAreOld, OldTypeStep, OldHistoryStep DEF BothInv, OldInv
<1> QED
  BY <1>1, VersionsRInv, AgreeStep DEF BothInv

LEMMA BothInvStutter == BothInv /\ UNCHANGED versionVars => BothInv'
BY DEF BothInv, RInv, TypeOK, OffIsBlank, HistoryIsSuffix, OldInv, OldTypeOK, Old!TypeOK,
       OldHistoryKept, Old!HistoryKept, OpenRoomsAgree, SameCells, Open,
       versionVars, vars, Old!vars, Old!roomVars

LEMMA BothInvAlways == VersionsSpec => []BothInv
BY BothInvInit, BothInvStep, BothInvStutter, PTL DEF VersionsSpec

\* The rewrite of the release manager kept its rooms: whatever is created,
\* deleted, reused, said and asked, and whoever comes and goes, the same rooms
\* are on in both with the same owner, members and history (req.c:129-140 of both).
THEOREM VersionsAgree == VersionsSpec => []OpenRoomsAgree
<1>1. BothInv => OpenRoomsAgree
  BY DEF BothInv
<1> QED
  BY <1>1, BothInvAlways, PTL

-----------------------------------------------------------------------------
(* The answers to a request agree.                                         *)

\* What ChatsAgree and AnswersAgree say of the responses s of manager/ and old of
\* the release to one user, when the rooms O are on.
AlikeTo(s, old, O) ==
  /\ ChatsIn(s) = IF old # <<>> /\ old[1].chat # NoChat /\ old[1].room \in O
                  THEN [i \in DOMAIN old |-> old[i].chat] ELSE <<>>
  /\ \A r \in O : (\E i \in DOMAIN s : <<r, r>> \in s[i].list)
                    <=> (\E i \in DOMAIN old : r \in old[i].list)
  /\ old # <<>> /\ old[1].room \in O /\ old[1].code \notin {"register", "users"} =>
       Refusals(s) = Refusals(old)

\* Both say nothing.
LEMMA NoneAlike ==
  ASSUME NEW O
  PROVE  AlikeTo(<<>>, <<>>, O)
BY DEF AlikeTo, ChatsIn

\* Both answer with the same code, or the room is off.
LEMMA CodesAlike ==
  ASSUME NEW O, NEW c, NEW st, NEW old_st, NEW r, r \in O => st = old_st
  PROVE  AlikeTo(<<Code(c, st)>>, <<Old!Code(c, old_st, r)>>, O)
<1> DEFINE s == <<Code(c, st)>>
           old == <<Old!Code(c, old_st, r)>>
<1>1. /\ DOMAIN s = {1} /\ DOMAIN old = {1} /\ s # <<>> /\ old # <<>>
      /\ s[1] = Code(c, st) /\ old[1] = Old!Code(c, old_st, r)
  OBVIOUS
<1>2. /\ s[1].chat = NoChat /\ s[1].list = {} /\ s[1].status = st
      /\ old[1].chat = NoChat /\ old[1].list = {} /\ old[1].status = old_st /\ old[1].room = r
  BY <1>1 DEF Code, Old!Code
<1> HIDE DEF s, old
<1>3. r \in O => Refusals(s) = Refusals(old)
  BY <1>1, <1>2 DEF Refusals
<1> QED
  BY <1>1, <1>2, <1>3 DEF AlikeTo, ChatsIn, s, old

\* An answer that only the release has: its answer to register or to a list of
\* users.
LEMMA UnseenAlike ==
  ASSUME NEW O, NEW c \in {"register", "users"}
  PROVE  AlikeTo(<<>>, <<Old!Code(c, 200, 0)>>, O)
<1> DEFINE old == <<Old!Code(c, 200, 0)>>
<1>1. DOMAIN old = {1} /\ old[1] = Old!Code(c, 200, 0)
  OBVIOUS
<1>2. old[1].chat = NoChat /\ old[1].list = {} /\ old[1].code = c
  BY <1>1 DEF Old!Code
<1> HIDE DEF old
<1> QED
  BY <1>1, <1>2 DEF AlikeTo, ChatsIn, old

\* Both send the chats h.
LEMMA ChatsAlike ==
  ASSUME NEW O, NEW h \in Seq(Chats), NEW c, NEW r \in O
  PROVE  AlikeTo([i \in DOMAIN h |-> Chat(h[i])], [i \in DOMAIN h |-> Old!Carries(c, r, h[i])], O)
<1> DEFINE s == [i \in DOMAIN h |-> Chat(h[i])]
           old == [i \in DOMAIN h |-> Old!Carries(c, r, h[i])]
<1>1. Len(h) \in Nat /\ DOMAIN h = 1 .. Len(h) /\ \A i \in DOMAIN h : h[i] \in Chats
  BY LenProperties
<1>2. DOMAIN s = DOMAIN h /\ DOMAIN old = DOMAIN h
  OBVIOUS
<1>3. \A i \in DOMAIN h :
        /\ s[i].chat = h[i] /\ s[i].list = {}
        /\ old[i].chat = h[i] /\ old[i].list = {} /\ old[i].room = r
        /\ h[i] # NoChat
  BY <1>1, ChatIs DEF Chat, Old!Carries
<1>4. ChatsIn(s) = h
  BY ReplayShown
<1> HIDE DEF s, old
<1>5. Refusals(s) = {} /\ Refusals(old) = {}
  BY <1>2, <1>3 DEF Refusals
<1>6. CASE h = <<>>
  <2>1. s = <<>> /\ old = <<>>
    BY <1>6 DEF s, old
  <2> QED
    BY <2>1, NoneAlike DEF s, old
<1>7. CASE h # <<>>
  <2>1. 1 \in DOMAIN h
    BY <1>1, <1>7, EmptySeq
  <2>2. old # <<>> /\ old[1].chat # NoChat /\ old[1].room \in O
    BY <1>2, <1>3, <2>1
  <2>3. [i \in DOMAIN old |-> old[i].chat] = h
    BY <1>1, <1>2, <1>3
  <2> QED
    BY <1>2, <1>3, <1>4, <1>5, <2>2, <2>3 DEF AlikeTo, s, old
<1> QED
  BY <1>6, <1>7

\* What the release says of a room that is off does not count.
LEMMA OffAlike ==
  ASSUME NEW O, NEW c, NEW st, NEW old, NEW r, r \notin O,
         \A i \in DOMAIN old : old[i].room = r /\ old[i].list = {},
         old # <<>> => 1 \in DOMAIN old,
         NEW s, s = <<>> \/ s = <<Code(c, st)>>
  PROVE  AlikeTo(s, old, O)
<1>1. \A i \in DOMAIN s : s[i].chat = NoChat /\ s[i].list = {}
  BY DEF Code
<1>2. ChatsIn(s) = <<>>
  <2>1. s # <<>> => 1 \in DOMAIN s
    OBVIOUS
  <2> QED
    BY <1>1, <2>1 DEF ChatsIn
<1> QED
  BY <1>1, <1>2 DEF AlikeTo

LEMMA ListsAlike ==
  ASSUME NEW O, NEW l, NEW old_l, \A r \in O : <<r, r>> \in l <=> r \in old_l
  PROVE  AlikeTo(<<RoomList(l)>>, <<Old!RoomList(old_l)>>, O)
<1> DEFINE s == <<RoomList(l)>>
           old == <<Old!RoomList(old_l)>>
<1>1. /\ DOMAIN s = {1} /\ DOMAIN old = {1} /\ s # <<>> /\ old # <<>>
      /\ s[1] = RoomList(l) /\ old[1] = Old!RoomList(old_l)
  OBVIOUS
<1>2. /\ s[1].chat = NoChat /\ s[1].list = l /\ s[1].status = 200
      /\ old[1].chat = NoChat /\ old[1].list = old_l /\ old[1].status = 200
  BY <1>1 DEF RoomList, Old!RoomList
<1> HIDE DEF s, old
<1>3. Refusals(s) = Refusals(old)
  BY <1>1, <1>2 DEF Refusals
<1> QED
  BY <1>1, <1>2, <1>3 DEF AlikeTo, ChatsIn, s, old

\* Rooms that are alike and on have as many cells for each user.
LEMMA SameCount ==
  ASSUME NEW room \in Room, NEW old \in Old!Room, NEW l, NEW old_l,
         Alike(room, old, l, old_l), room.status # ROOM_STATUS_OFF,
         Len(old.users) <= ROOM_USER_MAX, NEW u
  PROVE  /\ Cardinality({i \in 0 .. room.user_cnt - 1 : Cell(room, i) = u}) \in Nat
         /\ Old!Cardinality({i \in DOMAIN old.users : old.users[i] = u})
              = Cardinality({i \in 0 .. room.user_cnt - 1 : Cell(room, i) = u})
<1> USE RoomFacts, OldFacts
<1> DEFINE S == {i \in 0 .. room.user_cnt - 1 : Cell(room, i) = u}
           T == {i \in DOMAIN old.users : old.users[i] = u}
           f == [i \in S |-> i + 1]
<1>1. /\ old.users \in Seq(Users) /\ Len(old.users) \in Nat
      /\ DOMAIN old.users = 1 .. Len(old.users)
  BY LenProperties DEF Old!Room
<1>2. /\ room.user_cnt = Len(old.users)
      /\ \A i \in 1 .. Len(old.users) : room.users[i - 1] = old.users[i]
  BY <1>1 DEF Alike, SameCells
<1>3. \A i \in 0 .. room.user_cnt - 1 : Cell(room, i) = room.users[i]
  BY <1>2, MembersAreCells
<1>4. IsFiniteSet(S) /\ Cardinality(S) \in Nat
  <2>1. IsFiniteSet(0 .. room.user_cnt - 1)
    BY <1>1, <1>2, FS_Interval
  <2>2. S \subseteq 0 .. room.user_cnt - 1
    OBVIOUS
  <2> HIDE DEF S
  <2> QED
    BY <2>1, <2>2, FS_Subset, FS_CardinalityType
<1>5. ASSUME NEW i \in S
      PROVE  i \in Nat /\ f[i] = i + 1 /\ f[i] \in T
  <2>1. i \in 0 .. room.user_cnt - 1 /\ room.users[i] = u
    BY <1>3
  <2>2. i + 1 \in 1 .. Len(old.users) /\ (i + 1) - 1 = i
    BY <1>1, <1>2, <2>1
  <2>3. i + 1 \in DOMAIN old.users /\ old.users[i + 1] = u
    BY <1>1, <1>2, <2>1, <2>2
  <2>4. i \in Nat /\ f[i] = i + 1
    BY <2>1
  <2> QED
    BY <2>3, <2>4
<1>6. ASSUME NEW j \in T
      PROVE  j - 1 \in S /\ f[j - 1] = j
  <2>1. j \in 1 .. Len(old.users) /\ room.users[j - 1] = u
    BY <1>1, <1>2
  <2>2. j - 1 \in 0 .. room.user_cnt - 1 /\ (j - 1) + 1 = j
    BY <1>1, <1>2, <2>1
  <2> QED
    BY <1>3, <2>1, <2>2
<1>7. f \in Bijection(S, T)
  <2>1. f \in [S -> T]
    BY <1>5
  <2>2. \A a, b \in S : f[a] = f[b] => a = b
    BY <1>5
  <2>3. \A t \in T : \E s \in S : f[s] = t
    BY <1>6
  <2> HIDE DEF f, S, T
  <2> QED
    BY <2>1, <2>2, <2>3 DEF Bijection, Injection, Surjection, IsInjective
<1>8. Cardinality(T) = Cardinality(S)
  <2> HIDE DEF f, S, T
  <2> QED
    BY <1>4, <1>7, FS_Bijection DEF ExistsBijection
<1> QED
  BY <1>4, <1>8, SameCardinality

\* The release finds a room that is on under its own id, as manager/ does.
OldIdIsIndex ==
  \A r \in RoomIds : old_rooms[r].status # ROOM_STATUS_OFF => old_rooms[r].id = r

LEMMA OldIndexStep == OldTypeOK /\ OldIdIsIndex /\ Old!Next => OldIdIsIndex'
<1> SUFFICES ASSUME OldTypeOK, OldIdIsIndex, Old!Next, NEW q \in RoomIds,
                    old_rooms'[q].status # ROOM_STATUS_OFF
             PROVE  old_rooms'[q].id = q
  BY DEF OldIdIsIndex
<1> USE OldFacts
<1>0. old_rooms \in [RoomIds -> Old!Room]
  BY DEF OldTypeOK, Old!TypeOK
<1>1. CASE UNCHANGED old_rooms
  BY <1>1 DEF OldIdIsIndex
\* A step that keeps the id and does not turn a room on.
<1>2. ASSUME old_rooms'[q].id = old_rooms[q].id,
             old_rooms[q].status = ROOM_STATUS_OFF => old_rooms'[q].status = ROOM_STATUS_OFF
      PROVE  old_rooms'[q].id = q
  BY <1>2 DEF OldIdIsIndex
<1>3. ASSUME NEW u \in Users, Old!room_create(u)
      PROVE  old_rooms'[q].id = q
  <2>1. PICK r \in RoomIds : old_rooms' = [old_rooms EXCEPT ![r] = Old!Created(u, r)]
    BY <1>3 DEF Old!room_create
  <2>2. CASE q = r
    BY <1>0, <2>1, <2>2 DEF Old!Created
  <2>3. CASE q # r
    BY <1>0, <1>2, <2>1, <2>3
  <2> QED
    BY <2>2, <2>3
<1>4. ASSUME NEW r \in RoomIds, NEW new,
             old_rooms' = [old_rooms EXCEPT ![r] = new],
             new.id = old_rooms[r].id,
             old_rooms[r].status = ROOM_STATUS_OFF => new.status = ROOM_STATUS_OFF
      PROVE  old_rooms'[q].id = q
  BY <1>0, <1>2, <1>4
<1>5. ASSUME NEW u \in Users, NEW r \in RoomIds, Old!room_delete(u, r)
      PROVE  old_rooms'[q].id = q
  <2> DEFINE new == [old_rooms[r] EXCEPT !.status = Old!ROOM_STATUS_OFF]
  <2>1. new.id = old_rooms[r].id /\ new.status = ROOM_STATUS_OFF
    BY <1>0 DEF Old!Room, Old!ROOM_STATUS_OFF, ROOM_STATUS_OFF
  <2>2. UNCHANGED old_rooms \/ old_rooms' = [old_rooms EXCEPT ![r] = new]
    BY <1>5 DEF Old!room_delete, Old!roomVars
  <2> QED
    BY <1>1, <1>4, <2>1, <2>2
<1>6. ASSUME NEW u \in Users, NEW v \in Users, NEW r \in RoomIds, Old!room_invite(u, r, v)
      PROVE  old_rooms'[q].id = q
  <2> DEFINE new == Old!Invited(old_rooms[r], v)
  <2>1. new.id = old_rooms[r].id /\ new.status = old_rooms[r].status
    BY <1>0 DEF Old!Room, Old!Invited
  <2>2. UNCHANGED old_rooms \/ old_rooms' = [old_rooms EXCEPT ![r] = new]
    BY <1>6 DEF Old!room_invite, Old!roomVars
  <2> HIDE DEF new
  <2> QED
    BY <1>1, <1>4, <2>1, <2>2
<1>7. ASSUME NEW u \in Users, NEW r \in RoomIds, NEW t \in Texts, Old!send_chat(u, r, t)
      PROVE  old_rooms'[q].id = q
  <2> DEFINE new == [old_rooms[r] EXCEPT !.history = Old!push_history(@, [from |-> u, text |-> t])]
  <2>1. new.id = old_rooms[r].id /\ new.status = old_rooms[r].status
    BY <1>0 DEF Old!Room
  <2>2. UNCHANGED old_rooms \/ old_rooms' = [old_rooms EXCEPT ![r] = new]
    BY <1>7 DEF Old!send_chat, Old!roomVars
  <2> HIDE DEF new
  <2> QED
    BY <1>1, <1>4, <2>1, <2>2
<1>8. ASSUME NEW u \in Users, Old!handle_request(u)
      PROVE  old_rooms'[q].id = q
  <2>1. CASE \/ Old!user_register(u) \/ Old!user_list(u) \/ Old!room_list(u)
             \/ \E r \in RoomIds : Old!room_connect(u, r)
    BY <1>1, <2>1 DEF Old!user_register, Old!user_list, Old!room_list, Old!room_connect,
                      Old!roomVars
  <2> QED
    BY <1>3, <1>5, <1>6, <1>7, <1>8, <2>1 DEF Old!handle_request
<1>9. CASE \/ \E p \in Persons : Old!handle_new_user(p)
           \/ \E u \in Users : Old!handle_closed(u)
  BY <1>1, <1>9 DEF Old!handle_new_user, Old!handle_closed, Old!roomVars
<1> QED
  BY <1>8, <1>9 DEF Old!Next

\* The entries about rooms that are on are in both lists.
LEMMA SameLists ==
  ASSUME BothInv, IdIsIndex, OldIdIsIndex, NEW u \in Users, NEW r \in Open
  PROVE  <<r, r>> \in Listed(u) <=> r \in Old!Listed(u)
<1> USE RoomFacts, OldFacts
<1>0. /\ rooms \in [RoomIds -> Room] /\ rooms_cnt \in 0 .. ROOM_MAX
      /\ old_rooms \in [RoomIds -> Old!Room]
      /\ \A q \in RoomIds : Len(old_rooms[q].users) <= ROOM_USER_MAX
  BY DEF BothInv, RInv, TypeOK, OldInv, OldTypeOK, Old!TypeOK
<1>1. /\ rooms_cnt = old_rooms_cnt
      /\ r \in RoomIds /\ rooms[r].status # ROOM_STATUS_OFF
      /\ Alike(rooms[r], old_rooms[r], log[r], old_log[r])
  BY AgreeIsAlike DEF BothInv, Open
<1>2. room_contains_user(rooms[r], u) <=> Old!room_contains_user(r, u)
  <2>1. Members(rooms[r]) = Old!Members(old_rooms[r])
    BY <1>0, <1>1, SameMembers
  <2> QED
    BY <2>1 DEF room_contains_user, Old!room_contains_user
<1>3. rooms[r].id = r /\ old_rooms[r].id = r /\ r \in 0 .. rooms_cnt - 1
  <2>1. rooms[r].id = r /\ r < rooms_cnt
    BY <1>1 DEF IdIsIndex
  <2>2. old_rooms[r].id = r
    BY <1>1 DEF OldIdIsIndex, Alike
  <2>3. r \in Nat /\ rooms_cnt \in Nat
    BY <1>0, <1>1 DEF RoomIds
  <2> QED
    BY <2>1, <2>2, <2>3
<1>4. <<r, r>> \in Listed(u) <=> room_contains_user(rooms[r], u)
  BY <1>1, <1>3 DEF Listed
<1>5. r \in Old!Listed(u) <=> Old!room_contains_user(r, u)
  BY <1>1, <1>3 DEF Old!Listed
<1> QED
  BY <1>2, <1>4, <1>5

LEMMA AnswersStep ==
  BothInv /\ IdIsIndex /\ OldIdIsIndex /\ VersionsNext => (ChatsAgree /\ AnswersAgree)'
<1> SUFFICES ASSUME BothInv, IdIsIndex, OldIdIsIndex, VersionsNext
             PROVE  (ChatsAgree /\ AnswersAgree)'
  OBVIOUS
<1> USE RoomFacts, OldFacts
<1>0. /\ rooms \in [RoomIds -> Room]
      /\ old_rooms \in [RoomIds -> Old!Room]
      /\ \A r \in RoomIds : Len(old_rooms[r].users) <= ROOM_USER_MAX
  BY DEF BothInv, RInv, TypeOK, OldInv, OldTypeOK, Old!TypeOK
<1>1. \A r \in RoomIds : Alike(rooms[r], old_rooms[r], log[r], old_log[r])
  BY AgreeIsAlike DEF BothInv
<1>A. ASSUME holder' = holder,
             \A w \in Users : w \in Old!Online => AlikeTo(out'[w], old_out'[w], Open')
      PROVE  (ChatsAgree /\ AnswersAgree)'
  <2> SUFFICES ASSUME NEW w \in Old!Online'
               PROVE  /\ ChatsIn(out[w])' = OldChatsOfOpen(w)'
                      /\ OpenInList(out[w])' = OldOpenInList(old_out[w])'
                      /\ old_out'[w] # <<>> /\ old_out'[w][1].room \in Open'
                           /\ old_out'[w][1].code \notin {"register", "users"} =>
                             Refusals(out[w])' = Refusals(old_out[w])'
    BY DEF ChatsAgree, AnswersAgree
  <2>1. AlikeTo(out'[w], old_out'[w], Open')
    BY <1>A DEF Old!Online
  <2>2. OpenInList(out[w])' = OldOpenInList(old_out[w])'
    BY <2>1 DEF AlikeTo, OpenInList, OldOpenInList
  <2>3. ChatsIn(out[w])' = OldChatsOfOpen(w)'
    BY <2>1 DEF AlikeTo, OldChatsOfOpen, ChatsIn
  <2> QED
    BY <2>1, <2>2, <2>3 DEF AlikeTo, Refusals
<1>M. ASSUME NEW r \in RoomIds, rooms[r].status # ROOM_STATUS_OFF, NEW x
      PROVE  room_contains_user(rooms[r], x) <=> Old!room_contains_user(r, x)
  <2>1. Members(rooms[r]) = Old!Members(old_rooms[r])
    BY <1>0, <1>1, <1>M, SameMembers
  <2> QED
    BY <2>1 DEF room_contains_user, Old!room_contains_user
<1>O. ASSUME NEW r \in RoomIds, rooms[r].status = ROOM_STATUS_OFF
      PROVE  rooms[r] = Blank /\ Members(rooms[r]) = {}
  BY <1>O, BlankIsEmpty DEF BothInv, RInv, OffIsBlank
\* Both answer u with one response.
<1>N. ASSUME NEW u \in Users, NEW a, NEW old_a, holder' = holder,
             out' = Answer(u, a), Old!Answer(u, old_a),
             AlikeTo(<<a>>, <<old_a>>, Open')
      PROVE  (ChatsAgree /\ AnswersAgree)'
  <2>1. ASSUME NEW w \in Users, w \in Old!Online
        PROVE  AlikeTo(out'[w], old_out'[w], Open')
    <3>1. out'[w] = IF w = u THEN <<a>> ELSE <<>>
      BY <1>N DEF Answer, Nothing
    <3>2. old_out'[w] = IF w = u THEN <<old_a>> ELSE <<>>
      BY <1>N, <2>1 DEF Old!Answer, Old!Sent, Old!Nothing
    <3> QED
      BY <1>N, <3>1, <3>2, NoneAlike
  <2> QED
    BY <1>A, <1>N, <2>1
<1>C. ASSUME NEW u \in Users, NEW c, NEW st, NEW old_st, NEW r, r \in Open' => st = old_st,
             holder' = holder,
             out' = Answer(u, Code(c, st)), Old!Answer(u, Old!Code(c, old_st, r))
      PROVE  (ChatsAgree /\ AnswersAgree)'
  <2>1. AlikeTo(<<Code(c, st)>>, <<Old!Code(c, old_st, r)>>, Open')
    BY <1>C, CodesAlike
  <2> QED
    BY <1>C, <1>N, <2>1
\* The room is off: manager/ refuses, and the release may do what it likes.
<1>D. ASSUME NEW u \in Users, NEW c, NEW st, NEW r, r \notin Open', holder' = holder,
             out' = Answer(u, Code(c, st)),
             \A w \in Users : w \in Old!Online =>
               /\ \A i \in DOMAIN old_out'[w] : old_out'[w][i].room = r /\ old_out'[w][i].list = {}
               /\ old_out'[w] # <<>> => 1 \in DOMAIN old_out'[w]
      PROVE  (ChatsAgree /\ AnswersAgree)'
  <2>1. ASSUME NEW w \in Users, w \in Old!Online
        PROVE  AlikeTo(out'[w], old_out'[w], Open')
    <3>1. out'[w] = <<>> \/ out'[w] = <<Code(c, st)>>
      BY <1>D DEF Answer, Nothing
    <3> DEFINE s == out'[w]
               old == old_out'[w]
    <3>2. /\ \A i \in DOMAIN old : old[i].room = r /\ old[i].list = {}
          /\ old # <<>> => 1 \in DOMAIN old
      BY <1>D, <2>1
    <3>3. s = <<>> \/ s = <<Code(c, st)>>
      BY <3>1
    <3> HIDE DEF s, old
    <3>4. AlikeTo(s, old, Open')
      <4>1. r \notin Open'
        BY <1>D
      <4> QED
        BY <3>2, <3>3, <4>1, OffAlike, Zenon
    <3> QED
      BY <3>4 DEF s, old
  <2> QED
    BY <1>A, <1>D, <2>1
<1>2. ASSUME NEW u \in Users, room_create(u), Old!room_create(u)
      PROVE  (ChatsAgree /\ AnswersAgree)'
  <2>1. PICK q \in RoomIds : Old!Answer(u, Old!Code("create", 200, q))
    BY <1>2 DEF Old!room_create
  <2>2. out' = Answer(u, Code("create", 200)) /\ holder' = holder
    BY <1>2 DEF room_create, Old!room_create
  <2> QED
    BY <1>C, <2>1, <2>2
<1>3. ASSUME NEW u \in Users, NEW r \in RoomIds, room_delete(u, r), Old!room_delete(u, r)
      PROVE  (ChatsAgree /\ AnswersAgree)'
  <2> DEFINE st == IF u = rooms[r].super_user_id THEN 200 ELSE 500
             old_st == IF u = old_rooms[r].super_user_id THEN 200 ELSE 500
  <2>1. out' = Answer(u, Code("delete", st))
    BY <1>3 DEF room_delete
  <2>2. Old!Answer(u, Old!Code("delete", old_st, r)) /\ holder' = holder
    BY <1>3 DEF Old!room_delete
  <2>3. r \in Open' => st = old_st
    <3>1. CASE rooms[r].status = ROOM_STATUS_OFF
      <4>1. rooms'[r] = Blank \/ rooms'[r] = rooms[r]
        BY <1>0, <1>3 DEF room_delete, Deleted
      <4>2. rooms'[r].status = ROOM_STATUS_OFF
        BY <3>1, <4>1, BlankIsEmpty
      <4> QED
        BY <4>2 DEF Open, ROOM_STATUS_OFF
    <3>2. CASE rooms[r].status # ROOM_STATUS_OFF
      BY <1>1, <3>2 DEF Alike
    <3> QED
      BY <3>1, <3>2
  <2> HIDE DEF st, old_st
  <2> QED
    BY <1>C, <2>1, <2>2, <2>3
<1>4. ASSUME NEW u \in Users, NEW r \in RoomIds, room_connect(u, r), Old!room_connect(u, r)
      PROVE  (ChatsAgree /\ AnswersAgree)'
  <2> DEFINE h == rooms[r].history
             old_h == old_rooms[r].history
  <2>0. UNCHANGED <<rooms, holder>> /\ h \in Seq(Chats) /\ old_h \in Seq(Chats)
    BY <1>0, <1>4 DEF room_connect, Old!room_connect, Room, Old!Room
  <2>1. CASE rooms[r].status = ROOM_STATUS_OFF
    <3>1. out' = Answer(u, Code("connect", 500))
      BY <1>4, <1>O, <2>1 DEF room_connect, room_contains_user
    <3>2. r \notin Open'
      BY <2>0, <2>1 DEF Open, ROOM_STATUS_OFF
    <3>3. ASSUME NEW w \in Users, w \in Old!Online
          PROVE  /\ \A i \in DOMAIN old_out'[w] : old_out'[w][i].room = r /\ old_out'[w][i].list = {}
                 /\ old_out'[w] # <<>> => 1 \in DOMAIN old_out'[w]
      <4>1. CASE Old!Answer(u, Old!Code("connect", 500, r))
        <5>1. old_out'[w] \in {<<>>, <<Old!Code("connect", 500, r)>>}
          BY <3>3, <4>1 DEF Old!Answer, Old!Sent, Old!Nothing
        <5> QED
          BY <5>1 DEF Old!Code
      <4>2. CASE old_out' = Old!Sent([Old!Nothing EXCEPT ![u] =
                   [i \in DOMAIN old_h |-> Old!Carries("connect", r, old_h[i])]])
        <5>1. \/ old_out'[w] = <<>>
              \/ old_out'[w] = [i \in DOMAIN old_h |-> Old!Carries("connect", r, old_h[i])]
          BY <3>3, <4>2 DEF Old!Sent, Old!Nothing
        <5>2. DOMAIN old_h = 1 .. Len(old_h) /\ Len(old_h) \in Nat
          BY <2>0, LenProperties
        <5>3. DOMAIN old_h = {} \/ 1 \in DOMAIN old_h
          BY <5>2
        <5>4. DOMAIN old_h = {} => 
                [i \in DOMAIN old_h |-> Old!Carries("connect", r, old_h[i])] = <<>>
          OBVIOUS
        <5> QED
          BY <5>1, <5>3, <5>4 DEF Old!Carries
      <4> QED
        BY <1>4, <4>1, <4>2 DEF Old!room_connect
    <3> QED
      BY <1>D, <2>0, <3>1, <3>2, <3>3
  <2>2. CASE rooms[r].status # ROOM_STATUS_OFF
    <3>1. h = old_h /\ r \in Open'
      BY <1>1, <2>0, <2>2 DEF Alike, Open, ROOM_STATUS_OFF
    <3>2. room_contains_user(rooms[r], u) <=> Old!room_contains_user(r, u)
      BY <1>M, <2>2
    <3>3. CASE ~room_contains_user(rooms[r], u)
      <4>1. /\ out' = Answer(u, Code("connect", 500))
            /\ Old!Answer(u, Old!Code("connect", 500, r))
        BY <1>4, <3>2, <3>3 DEF room_connect, Old!room_connect
      <4> QED
        BY <1>C, <2>0, <4>1
    <3>4. CASE room_contains_user(rooms[r], u)
      <4> DEFINE s == [i \in DOMAIN h |-> Chat(h[i])]
                 old == [i \in DOMAIN h |-> Old!Carries("connect", r, h[i])]
      <4>1. /\ out' = [Nothing EXCEPT ![u] = s]
            /\ old_out' = Old!Sent([Old!Nothing EXCEPT ![u] = old])
        BY <1>4, <3>1, <3>2, <3>4 DEF room_connect, Old!room_connect
      <4>2. AlikeTo(s, old, Open')
        BY <2>0, <3>1, ChatsAlike
      <4> HIDE DEF s, old
      <4>3. ASSUME NEW w \in Users, w \in Old!Online
            PROVE  AlikeTo(out'[w], old_out'[w], Open')
        <5>1. out'[w] = IF w = u THEN s ELSE <<>>
          BY <4>1 DEF Nothing
        <5>2. old_out'[w] = IF w = u THEN old ELSE <<>>
          BY <4>1, <4>3 DEF Old!Sent, Old!Nothing
        <5> QED
          BY <4>2, <5>1, <5>2, NoneAlike
      <4> QED
        BY <1>A, <2>0, <4>3
    <3> QED
      BY <3>3, <3>4
  <2> QED
    BY <2>1, <2>2
<1>5. ASSUME NEW u \in Users, NEW v \in Users, NEW r \in RoomIds,
             room_invite(u, r, v), Old!room_invite(u, r, v)
      PROVE  (ChatsAgree /\ AnswersAgree)'
  <2> DEFINE ok == room_contains_user(rooms[r], u) /\ ~room_contains_user(rooms[r], v)
             old_ok == Old!room_contains_user(r, u) /\ ~Old!room_contains_user(r, v)
             st == IF ok THEN 200 ELSE 300
             old_st == IF old_ok THEN 200 ELSE 300
  <2>1. out' = Answer(u, Code("invite", st))
    BY <1>5 DEF room_invite, Accepts
  <2>2. Old!Answer(u, Old!Code("invite", old_st, r)) /\ holder' = holder
    BY <1>5 DEF Old!room_invite
  <2>3. r \in Open' => st = old_st
    <3>1. CASE rooms[r].status = ROOM_STATUS_OFF
      <4>1. rooms' = rooms
        BY <1>5, <1>O, <3>1 DEF room_invite, Accepts, room_contains_user
      <4> QED
        BY <3>1, <4>1 DEF Open, ROOM_STATUS_OFF
    <3>2. CASE rooms[r].status # ROOM_STATUS_OFF
      BY <1>M, <3>2
    <3> QED
      BY <3>1, <3>2
  <2> HIDE DEF st, old_st
  <2> QED
    BY <1>C, <2>1, <2>2, <2>3
<1>6. ASSUME NEW u \in Users, NEW r \in RoomIds, NEW t \in Texts,
             send_chat(r, [from |-> u, text |-> t]), Old!send_chat(u, r, t)
      PROVE  (ChatsAgree /\ AnswersAgree)'
  <2> DEFINE m == [from |-> u, text |-> t]
  <2>0. m \in Chats /\ m.from = u
    BY DEF Chats
  <2>1. \/ /\ room_contains_user(rooms[r], u)
           /\ out' = ToEveryCell(rooms[r], m)
           /\ rooms' = [rooms EXCEPT ![r].history = push_history(@, m)]
        \/ /\ ~room_contains_user(rooms[r], u)
           /\ out' = Answer(u, Code("chat", 500))
           /\ rooms' = rooms
    BY <1>6 DEF send_chat
  <2>2. /\ \/ /\ Old!room_contains_user(r, u)
              /\ Old!ToMembers(r, Old!Carries("chat", r, m))
           \/ /\ ~Old!room_contains_user(r, u)
              /\ Old!Answer(u, Old!Code("chat", 500, r))
        /\ holder' = holder
    BY <1>6 DEF Old!send_chat
  <2> HIDE DEF m
  <2> DEFINE n(w) == Old!Cardinality({i \in DOMAIN old_rooms[r].users : old_rooms[r].users[i] = w})
  <2>T. ASSUME Old!ToMembers(r, Old!Carries("chat", r, m)), NEW w \in Users, w \in Old!Online
        PROVE  old_out'[w] = [k \in 1 .. n(w) |-> Old!Carries("chat", r, m)]
    BY <2>T DEF Old!ToMembers, Old!Sent
  <2>3. CASE rooms[r].status = ROOM_STATUS_OFF
    <3>1. out' = Answer(u, Code("chat", 500)) /\ rooms' = rooms
      BY <1>O, <2>1, <2>3 DEF room_contains_user
    <3>2. r \notin Open'
      BY <2>3, <3>1 DEF Open, ROOM_STATUS_OFF
    <3>3. ASSUME NEW w \in Users, w \in Old!Online
          PROVE  /\ \A i \in DOMAIN old_out'[w] : old_out'[w][i].room = r /\ old_out'[w][i].list = {}
                 /\ old_out'[w] # <<>> => 1 \in DOMAIN old_out'[w]
      <4>1. CASE Old!Answer(u, Old!Code("chat", 500, r))
        <5>1. old_out'[w] \in {<<>>, <<Old!Code("chat", 500, r)>>}
          BY <3>3, <4>1 DEF Old!Answer, Old!Sent, Old!Nothing
        <5> QED
          BY <5>1 DEF Old!Code
      <4>2. CASE Old!ToMembers(r, Old!Carries("chat", r, m))
        <5>1. n(w) \in Nat
          BY <1>0, OldCountType
        <5>2. old_out'[w] = [k \in 1 .. n(w) |-> Old!Carries("chat", r, m)]
          BY <2>T, <3>3, <4>2
        <5> HIDE DEF n
        <5>3. 1 .. n(w) = {} \/ 1 \in 1 .. n(w)
          BY <5>1
        <5>4. 1 .. n(w) = {} => [k \in 1 .. n(w) |-> Old!Carries("chat", r, m)] = <<>>
          OBVIOUS
        <5> QED
          BY <5>2, <5>3, <5>4 DEF Old!Carries
      <4> QED
        BY <2>2, <4>1, <4>2
    <3> QED
      BY <1>D, <2>2, <3>1, <3>2, <3>3
  <2>4. CASE rooms[r].status # ROOM_STATUS_OFF
    <3>1. room_contains_user(rooms[r], u) <=> Old!room_contains_user(r, u)
      BY <1>M, <2>4
    <3>2. CASE ~room_contains_user(rooms[r], u)
      BY <1>C, <2>1, <2>2, <3>1, <3>2
    <3>3. CASE room_contains_user(rooms[r], u)
      <4>1. r \in Open'
        <5>1. rooms'[r] = [rooms[r] EXCEPT !.history = push_history(@, m)]
          BY <1>0, <2>1, <3>3
        <5>2. rooms[r] \in Room
          BY <1>0
        <5> QED
          BY <2>4, <5>1, <5>2 DEF Room, Open, ROOM_STATUS_OFF
      <4>2. ASSUME NEW w \in Users, w \in Old!Online
            PROVE  AlikeTo(out'[w], old_out'[w], Open')
        <5> DEFINE h == [k \in 1 .. n(w) |-> m]
        <5>1. /\ n(w) \in Nat
              /\ Cardinality({i \in 0 .. rooms[r].user_cnt - 1 : Cell(rooms[r], i) = w}) = n(w)
          <6>1. /\ rooms[r] \in Room /\ old_rooms[r] \in Old!Room
                /\ Alike(rooms[r], old_rooms[r], log[r], old_log[r])
                /\ Len(old_rooms[r].users) <= ROOM_USER_MAX
            BY <1>0, <1>1
          <6> QED
            BY <2>4, <6>1, SameCount
        <5>2. out'[w] = [k \in 1 .. n(w) |-> Chat(m)]
          BY <2>1, <3>3, <5>1 DEF ToEveryCell
        <5>3. old_out'[w] = [k \in 1 .. n(w) |-> Old!Carries("chat", r, m)]
          BY <2>2, <2>T, <3>1, <3>3, <4>2
        <5> HIDE DEF n
        <5>4. h \in Seq(Chats) /\ DOMAIN h = 1 .. n(w) /\ \A k \in 1 .. n(w) : h[k] = m
          BY <2>0, <5>1, IsASeq
        <5> HIDE DEF h
        <5>5. /\ out'[w] = [k \in DOMAIN h |-> Chat(h[k])]
              /\ old_out'[w] = [k \in DOMAIN h |-> Old!Carries("chat", r, h[k])]
          <6>1. \A k \in 1 .. n(w) : /\ Chat(h[k]) = Chat(m)
                                     /\ Old!Carries("chat", r, h[k]) = Old!Carries("chat", r, m)
            BY <5>4
          <6>2. /\ [k \in 1 .. n(w) |-> Chat(h[k])] = [k \in 1 .. n(w) |-> Chat(m)]
                /\ [k \in 1 .. n(w) |-> Old!Carries("chat", r, h[k])]
                     = [k \in 1 .. n(w) |-> Old!Carries("chat", r, m)]
            BY <6>1
          <6>3. DOMAIN h = 1 .. n(w)
            BY <5>4
          <6> QED
            BY <5>2, <5>3, <6>2, <6>3, Zenon
        <5>6. AlikeTo([k \in DOMAIN h |-> Chat(h[k])],
                      [k \in DOMAIN h |-> Old!Carries("chat", r, h[k])], Open')
          BY <4>1, <5>4, ChatsAlike
        <5> QED
          BY <5>5, <5>6, Zenon
      <4> QED
        BY <1>A, <2>2, <4>2
    <3> QED
      BY <3>2, <3>3
  <2> QED
    BY <2>3, <2>4
<1>7. ASSUME NEW u \in Users, room_list(u), Old!room_list(u)
      PROVE  (ChatsAgree /\ AnswersAgree)'
  <2>1. /\ out' = Answer(u, RoomList(Listed(u)))
        /\ Old!Answer(u, Old!RoomList(Old!Listed(u)))
        /\ UNCHANGED <<rooms, holder>>
    BY <1>7 DEF room_list, Old!room_list
  <2>2. AlikeTo(<<RoomList(Listed(u))>>, <<Old!RoomList(Old!Listed(u))>>, Open')
    <3>1. Open' = Open
      BY <2>1 DEF Open
    <3> QED
      BY <3>1, SameLists, ListsAlike
  <2> QED
    BY <1>N, <2>1, <2>2
<1>8. ASSUME NEW u \in Users, Unseen, Old!user_register(u) \/ Old!user_list(u)
      PROVE  (ChatsAgree /\ AnswersAgree)'
  <2>1. PICK c \in {"register", "users"} : Old!Answer(u, Old!Code(c, 200, 0))
    BY <1>8 DEF Old!user_register, Old!user_list
  <2>2. holder' = holder
    BY <1>8 DEF Old!user_register, Old!user_list
  <2>3. ASSUME NEW w \in Users, w \in Old!Online
        PROVE  AlikeTo(out'[w], old_out'[w], Open')
    <3>1. out'[w] = <<>>
      BY <1>8 DEF Unseen, Nothing
    <3>2. old_out'[w] = IF w = u THEN <<Old!Code(c, 200, 0)>> ELSE <<>>
      BY <2>1, <2>3 DEF Old!Answer, Old!Sent, Old!Nothing
    <3> QED
      BY <3>1, <3>2, NoneAlike, UnseenAlike
  <2> QED
    BY <1>A, <2>2, <2>3
\* Somebody comes or goes: nobody is told anything.
<1>9. ASSUME out' = Nothing, old_out' = Old!Nothing
      PROVE  (ChatsAgree /\ AnswersAgree)'
  <2> SUFFICES ASSUME NEW w \in Old!Online'
               PROVE  /\ ChatsIn(out[w])' = OldChatsOfOpen(w)'
                      /\ OpenInList(out[w])' = OldOpenInList(old_out[w])'
                      /\ old_out'[w] = <<>>
    BY DEF ChatsAgree, AnswersAgree
  <2>1. out'[w] = <<>> /\ old_out'[w] = <<>>
    BY <1>9 DEF Nothing, Old!Nothing, Old!Online
  <2> QED
    BY <2>1 DEF ChatsIn, OldChatsOfOpen, OpenInList, OldOpenInList
<1>10. ASSUME NEW u \in Old!Online, Request(u)
       PROVE  (ChatsAgree /\ AnswersAgree)'
  <2>1. u \in Users
    BY DEF Old!Online
  <2> QED
    BY <1>2, <1>3, <1>4, <1>5, <1>6, <1>7, <1>8, <1>10, <2>1 DEF Request
<1>11. CASE \/ \E p \in Persons : Unseen /\ Old!handle_new_user(p)
            \/ \E u \in Users : Unseen /\ Old!handle_closed(u)
  BY <1>9, <1>11 DEF Unseen, Old!handle_new_user, Old!handle_closed
<1> QED
  BY <1>10, <1>11 DEF VersionsNext

LEMMA VersionsIndexStep ==
  BothInv /\ IdIsIndex /\ OldIdIsIndex /\ VersionsNext => IdIsIndex' /\ OldIdIsIndex'
<1> SUFFICES ASSUME BothInv, IdIsIndex, OldIdIsIndex, VersionsNext
             PROVE  IdIsIndex' /\ OldIdIsIndex'
  OBVIOUS
<1>1. OldIdIsIndex'
  BY VersionsAreOld, OldIndexStep DEF BothInv, OldInv
<1>2. CASE Unseen
  BY <1>1, <1>2 DEF Unseen, IdIsIndex
<1>3. CASE Next
  BY <1>1, <1>3, IndexStep DEF BothInv
<1> QED
  BY <1>2, <1>3, VersionsAreNew

AnswerInv == BothInv /\ IdIsIndex /\ OldIdIsIndex /\ ChatsAgree /\ AnswersAgree

LEMMA AnswerInvAlways == VersionsSpec => []AnswerInv
<1>1. VersionsInit => AnswerInv
  <2> SUFFICES ASSUME VersionsInit PROVE AnswerInv
    OBVIOUS
  <2>1. BothInv
    BY BothInvInit
  <2>2. IdIsIndex /\ OldIdIsIndex
    BY BlankIsEmpty, OldFacts DEF VersionsInit, Init, IdIsIndex, Old!Init, Old!Blank, OldIdIsIndex,
                                  ROOM_STATUS_OFF, Old!ROOM_STATUS_OFF
  <2>3. \A u \in Old!Online : out[u] = <<>> /\ old_out[u] = <<>>
    BY OldFacts DEF VersionsInit, Init, Old!Init, Nothing, Old!Nothing, Old!Online
  <2>4. ChatsAgree /\ AnswersAgree
    BY <2>3 DEF ChatsAgree, AnswersAgree, ChatsIn, OldChatsOfOpen, OpenInList, OldOpenInList
  <2> QED
    BY <2>1, <2>2, <2>4 DEF AnswerInv
<1>2. AnswerInv /\ VersionsNext => AnswerInv'
  BY BothInvStep, VersionsIndexStep, AnswersStep DEF AnswerInv
<1>3. AnswerInv /\ UNCHANGED versionVars => AnswerInv'
  <2> SUFFICES ASSUME AnswerInv, UNCHANGED versionVars PROVE AnswerInv'
    OBVIOUS
  <2>1. BothInv'
    BY BothInvStutter DEF AnswerInv
  <2> QED
    BY <2>1 DEF AnswerInv, IdIsIndex, OldIdIsIndex, ChatsAgree, AnswersAgree, OldChatsOfOpen,
                OpenInList, OldOpenInList, Old!Online, Open, versionVars, vars, Old!vars, Old!roomVars
<1> QED
  BY <1>1, <1>2, <1>3, PTL DEF VersionsSpec

\* A user of either manager is shown the same chats of the rooms that are on, in
\* the same order: replays, and what is said while members come and go
\* (req.c:155-176, 216-252 of the release, req.c:156-177, 217-254 of manager/).
THEOREM SameChats == VersionsSpec => []ChatsAgree
<1>1. AnswerInv => ChatsAgree
  BY DEF AnswerInv
<1> QED
  BY <1>1, AnswerInvAlways, PTL

\* Both managers accept and refuse the same requests about the rooms that are on,
\* and their lists agree about those (res.c:66-86).
THEOREM SameAnswers == VersionsSpec => []AnswersAgree
<1>1. AnswerInv => AnswersAgree
  BY DEF AnswerInv
<1> QED
  BY <1>1, AnswerInvAlways, PTL
=============================================================================
