---------------------------- MODULE FramesProofs ----------------------------
(***************************************************************************)
(* Proof that one read() is one message while no read comes short, for any *)
(* size of a frame, a header and an entry, any lists and any number of     *)
(* messages.                                                               *)
(*                                                                         *)
(* ReadWhole is about a step from a state in which the reader keeps up, so *)
(* what has to be invariant is where it then stands: at the beginning of   *)
(* the message that is due, or at the end of the stream if that one has    *)
(* not been written.  That it finds no other message there needs the       *)
(* places of the messages to be a frame apart.                             *)
(***************************************************************************)
EXTENDS Frames, SequenceTheorems, TLAPS

\* The place in the stream where message i begins or will begin.
Place(i) == IF i \in 1 .. Len(sent) THEN sent[i].at ELSE end

\* The messages lie behind each other, each in a frame of its own.
FramesApart ==
  /\ \A i \in 1 .. Len(sent) : Place(i) + Frame = Place(i + 1)
  /\ \A i \in 1 .. Len(sent) : Place(i) + Frame <= end
  /\ \A i, j \in 1 .. Len(sent) : i < j => Place(i) + Frame <= Place(j)

\* A reader that keeps up stands where the message that is due begins.
AtDue == ~torn => due <= Len(sent) + 1 /\ taken = Place(due)

IInv == TypeOK /\ FramesApart /\ AtDue

USE FramesAssumption DEF Written, Need, Fits, Least, None

LEMMA InitIInv ==
  ASSUME Init
  PROVE  IInv
<1>1. sent = <<>> /\ Len(sent) = 0 /\ 1 .. Len(sent) = {}
  BY DEF Init
<1>2. TypeOK
  <2>1. sent \in Seq([at : Nat, n : 0 .. MaxList])
    BY <1>1
  <2>2. /\ end \in Nat /\ arrived \in 0 .. end /\ taken \in 0 .. arrived
        /\ due \in Nat \ {0}
        /\ up \in BOOLEAN /\ got \in {None} \cup DOMAIN sent
    BY DEF Init
  <2>3. torn \in BOOLEAN
    BY DEF Init
  <2> QED
    BY <2>1, <2>2, <2>3 DEF TypeOK
<1>3. FramesApart
  BY <1>1 DEF FramesApart
<1>4. AtDue
  BY <1>1 DEF Init, AtDue, Place
<1> QED
  BY <1>2, <1>3, <1>4 DEF IInv

\* A message is written behind all others, and does not move the reader.
LEMMA WriteIInv ==
  ASSUME IInv, NEW n \in 0 .. MaxList, Write(n)
  PROVE  IInv'
<1>1. TypeOK /\ FramesApart /\ AtDue
  BY DEF IInv
<1>2. TypeOK'
  BY <1>1 DEF TypeOK, Write
<1>3. /\ Len(sent') = Len(sent) + 1
      /\ \A i \in 1 .. Len(sent) : sent'[i] = sent[i]
      /\ sent'[Len(sent) + 1].at = end
      /\ end' = end + Frame
  BY <1>1 DEF TypeOK, Write
<1> PICK L \in Nat : L = Len(sent)
  BY <1>1 DEF TypeOK
<1>4. \A i \in 1 .. L + 1 : Place(i)' = Place(i)
  <2>1. \A i \in 1 .. L : Place(i)' = Place(i)
    BY <1>3 DEF Place
  <2>2. Place(L + 1)' = end /\ Place(L + 1) = end
    BY <1>3 DEF Place
  <2>3. ASSUME NEW i \in 1 .. L + 1
        PROVE  i \in 1 .. L \/ i = L + 1
    BY <1>3
  <2> QED
    BY <2>1, <2>2, <2>3
<1>5. Place(L + 1) = end /\ Place(L + 2)' = end + Frame
  BY <1>3 DEF Place
<1>6. ASSUME NEW i \in 1 .. L
      PROVE  Place(i) \in Nat
  <2>1. i \in 1 .. Len(sent) /\ sent \in Seq([at : Nat, n : 0 .. MaxList])
    BY <1>1 DEF TypeOK
  <2>2. sent[i] \in [at : Nat, n : 0 .. MaxList]
    BY <2>1, ElementOfSeq
  <2> QED
    BY <2>1, <2>2 DEF Place
<1>7. FramesApart'
  <2>1. \A i \in 1 .. Len(sent') : Place(i)' + Frame = Place(i + 1)'
    <3> SUFFICES ASSUME NEW i \in 1 .. Len(sent')
                 PROVE  Place(i)' + Frame = Place(i + 1)'
      OBVIOUS
    <3>1. CASE i <= L
      <4>1. i \in 1 .. L /\ i + 1 \in 1 .. L + 1
        BY <3>1, <1>3
      <4> QED
        BY <4>1, <1>1, <1>3, <1>4 DEF FramesApart
    <3>2. CASE i = L + 1
      <4>1. i + 1 = L + 2 /\ i \in 1 .. L + 1
        BY <3>2, <1>3
      <4> QED
        BY <4>1, <3>2, <1>4, <1>5
    <3> QED
      BY <3>1, <3>2, <1>3
  <2>2. \A i \in 1 .. Len(sent') : Place(i)' + Frame <= end'
    <3> SUFFICES ASSUME NEW i \in 1 .. Len(sent')
                 PROVE  Place(i)' + Frame <= end'
      OBVIOUS
    <3>1. CASE i \in 1 .. L
      BY <3>1, <1>1, <1>3, <1>4, <1>6 DEF FramesApart, TypeOK
    <3>2. CASE i = L + 1
      BY <3>2, <1>1, <1>3, <1>4, <1>5 DEF TypeOK
    <3> QED
      BY <3>1, <3>2, <1>3
  <2>3. \A i, j \in 1 .. Len(sent') : i < j => Place(i)' + Frame <= Place(j)'
    <3> SUFFICES ASSUME NEW i \in 1 .. Len(sent'), NEW j \in 1 .. Len(sent'), i < j
                 PROVE  Place(i)' + Frame <= Place(j)'
      OBVIOUS
    <3>1. i \in 1 .. L
      BY <1>3
    <3>2. CASE j \in 1 .. L
      BY <3>1, <3>2, <1>1, <1>4, <1>3 DEF FramesApart
    <3>3. CASE j = L + 1
      BY <3>1, <3>3, <1>1, <1>3, <1>4, <1>5 DEF FramesApart
    <3> QED
      BY <3>2, <3>3, <1>3
  <2> QED
    BY <2>1, <2>2, <2>3 DEF FramesApart
<1>8. AtDue'
  <2> SUFFICES ASSUME ~torn'
               PROVE  due' <= Len(sent') + 1 /\ taken' = Place(due)'
    BY DEF AtDue
  <2>1. due \in 1 .. L + 1 /\ taken = Place(due)
    BY <1>1 DEF AtDue, TypeOK, Write
  <2> PICK d \in 1 .. L + 1 : d = due
    BY <2>1
  <2>2. due' = d /\ taken' = Place(d)
    BY <2>1 DEF Write
  <2>3. Place(d)' = Place(d)
    BY <1>4
  <2> QED
    BY <2>2, <2>3, <1>3
<1> QED
  BY <1>2, <1>7, <1>8 DEF IInv

LEMMA DeliverIInv == IInv /\ Deliver => IInv'
  BY DEF IInv, TypeOK, FramesApart, AtDue, Place, Deliver

\* A reader that keeps up and gets a whole frame gets the message that is due.
LEMMA FullRead ==
  ASSUME IInv, Read, ~torn, taken' = taken + Frame
  PROVE  /\ due \in 1 .. Len(sent)
         /\ taken' = Place(due + 1)
         /\ Fits(sent[due].n) => got' = due
<1>1. TypeOK /\ FramesApart /\ AtDue
  BY DEF IInv
<1>2. taken < end /\ taken = Place(due) /\ due <= Len(sent) + 1
      /\ Len(sent) \in Nat /\ due \in Nat \ {0}
  BY <1>1 DEF TypeOK, AtDue, Read
<1>3. due \in 1 .. Len(sent)
  <2>1. CASE due = Len(sent) + 1
    BY <2>1, <1>2, <1>1 DEF Place, TypeOK
  <2> QED
    BY <2>1, <1>2
<1>4. taken' = Place(due + 1)
  BY <1>1, <1>2, <1>3 DEF FramesApart
<1>5. ASSUME Fits(sent[due].n)
      PROVE  got' = due
  <2> DEFINE k == Least(Frame, arrived - taken)
  <2>1. k = Frame /\ k \in Nat
    <3>1. k \in Nat /\ taken' = taken + k /\ taken \in Nat
      BY <1>1 DEF TypeOK, Read
    <3> QED
      BY <3>1
  <2>2. got' = Decoded(taken, k)
    BY DEF Read
  <2>3. sent[due].at = taken /\ Need(sent[due].n) <= k
    BY <1>2, <1>3, <1>5, <2>1 DEF Place
  <2>4. ASSUME NEW i \in DOMAIN sent, sent[i].at = taken
        PROVE  i = due
    <3>1. i \in 1 .. Len(sent) /\ Place(i) = Place(due) /\ Place(i) \in Nat
      BY <1>1, <1>2, <2>4 DEF TypeOK, Place
    <3>2. ~(i < due)
      BY <3>1, <1>1, <1>3 DEF FramesApart
    <3>3. ~(due < i)
      BY <3>1, <1>1, <1>3 DEF FramesApart
    <3> QED
      BY <3>1, <3>2, <3>3, <1>3
  <2>5. due \in DOMAIN sent
    BY <1>1, <1>3 DEF TypeOK
  <2> HIDE DEF k
  <2> QED
    BY <2>2, <2>3, <2>4, <2>5 DEF Decoded
<1> QED
  BY <1>3, <1>4, <1>5

LEMMA ReadIInv ==
  ASSUME IInv, Read
  PROVE  IInv'
<1> DEFINE k == Least(Frame, arrived - taken)
<1>1. TypeOK /\ FramesApart /\ AtDue
  BY DEF IInv
<1>2. k \in Nat /\ k <= Frame /\ taken + k <= arrived /\ Len(sent) \in Nat
  BY <1>1 DEF TypeOK, Read
<1>3. taken' = taken + k /\ UNCHANGED <<sent, end, arrived, up>>
      /\ due' = (IF taken + k = end THEN Len(sent) + 1 ELSE due + 1)
      /\ torn' = (~(taken + k = end) /\ (torn \/ k < Frame))
  BY DEF Read
<1> HIDE DEF k
<1>4. TypeOK'
  <2>1. got' = Decoded(taken, k)
    BY DEF Read, k
  <2>2. got' \in {None} \cup DOMAIN sent
    BY <2>1 DEF Decoded
  <2>3. torn' \in BOOLEAN
    BY <1>3, Zenon
  <2> QED
    BY <1>1, <1>2, <1>3, <2>2, <2>3 DEF TypeOK
<1>5. FramesApart'
  BY <1>1, <1>3 DEF FramesApart, Place
<1>6. AtDue'
  <2>1. CASE taken + k = end
    BY <2>1, <1>2, <1>3 DEF AtDue, Place
  <2>2. CASE taken + k # end /\ ~torn'
    <3>1. ~torn /\ k = Frame
      <4>1. ~(torn \/ k < Frame)
        BY <2>2, <1>3, Zenon
      <4> QED
        BY <4>1, <1>2
    <3>2. due \in 1 .. Len(sent) /\ taken' = Place(due + 1)
      BY <3>1, <1>3, FullRead
    <3> QED
      BY <3>2, <2>2, <1>2, <1>3 DEF AtDue, Place
  <2> QED
    BY <2>1, <2>2 DEF AtDue
<1> QED
  BY <1>4, <1>5, <1>6 DEF IInv

LEMMA StutterIInv == IInv /\ UNCHANGED vars => IInv'
  BY DEF IInv, TypeOK, FramesApart, AtDue, Place, vars

\* The reader of a connection that keeps up stands at the beginning of a
\* message, whatever the writer and the network do.
THEOREM FramesInvariant == Spec => []IInv
<1>1. IInv /\ [Next]_vars => IInv'
  BY WriteIInv, DeliverIInv, ReadIInv, StutterIInv DEF Next
<1> QED
  BY <1>1, InitIInv, PTL DEF Spec

\* The counters of a connection keep their order: nothing is read before it has
\* arrived, nothing arrives before it has been written.
THEOREM TypeCorrect == Spec => []TypeOK
  BY FramesInvariant, PTL DEF IInv

\* One read() of handle_request() or handle_res() is one message, the next one
\* and a list with all its entries, while no read comes short.
THEOREM ReadWholeHolds == Spec => ReadWhole
<1> DEFINE Whole == /\ ~torn
                    /\ taken' = taken + Frame
                    /\ Fits(sent[due].n)
                    => got' = due
<1>1. IInv /\ [Next]_vars => [Whole]_vars
  <2> SUFFICES ASSUME IInv, Next, ~torn, taken' = taken + Frame, Fits(sent[due].n)
               PROVE  got' = due
    OBVIOUS
  <2>1. ASSUME NEW n \in 0 .. MaxList, Write(n)
        PROVE  FALSE
    BY <2>1 DEF Write, IInv, TypeOK
  <2>2. ~Deliver
    BY DEF Deliver, IInv, TypeOK
  <2> QED
    BY <2>1, <2>2, FullRead DEF Next
<1> QED
  BY <1>1, FramesInvariant, PTL DEF Spec, ReadWhole
=============================================================================
