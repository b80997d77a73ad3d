------------------------------- MODULE Frames -------------------------------
(***************************************************************************)
(* The bytes of one direction of a connection.  A writer, the manager      *)
(* answering or a client asking, puts each message in a buffer of Frame    *)
(* cells and writes the whole buffer.  The reader takes what one read()    *)
(* returns, at most Frame cells, for one message: nothing in a message     *)
(* says where it ends.                                                     *)
(*                                                                         *)
(* TCP keeps the cells in order and may deliver them in any pieces.  A     *)
(* message is the list of n entries behind a header (n = 0 for every       *)
(* message that is not a list); its other cells are zero.                  *)
(***************************************************************************)
EXTENDS Naturals, Sequences

CONSTANTS
  Frame,     \* MAX_REQ_BUF_SIZE
  Header,    \* the codes and the count in front of a list
  Entry,     \* an entry of a list: its number and its name
  MaxList,   \* bound: entries of a list
  MaxSent    \* bound: messages written

ASSUME FramesAssumption ==
  /\ Frame \in Nat /\ Header \in Nat /\ Entry \in Nat
  /\ MaxList \in Nat /\ MaxSent \in Nat
  /\ 0 < Header /\ Header <= Frame

VARIABLES
  sent,     \* the messages written: where each begins, and its entries
  end,      \* cells written
  arrived,  \* cells that have reached the reader's socket
  taken,    \* cells the reader has read
  up,       \* whether the writer is alive
  got,      \* the message the last read was taken for, 0 for none of them
  due,      \* history: the message a reader that kept up would read next
  torn      \* history: whether a read came short since the reader last caught up

vars == <<sent, end, arrived, taken, up, got, due, torn>>

None == 0

\* The cells a message needs, and whether the buffer has them.
Need(n) == Header + Entry * n
Fits(n) == Need(n) <= Frame

Least(a, b) == IF a <= b THEN a ELSE b

TypeOK ==
  /\ sent \in Seq([at : Nat, n : 0 .. MaxList])
  /\ end \in Nat /\ arrived \in 0 .. end /\ taken \in 0 .. arrived
  /\ up \in BOOLEAN /\ torn \in BOOLEAN
  /\ got \in {None} \cup DOMAIN sent
  /\ due \in Nat \ {0}

Init ==
  /\ sent = <<>> /\ end = 0 /\ arrived = 0 /\ taken = 0
  /\ up = TRUE /\ got = None /\ due = 1 /\ torn = FALSE

\* Mutant of Written: release/manager writes as much as the answer needs.
AsNeeded(n) == Need(n)

\* The cells that a message of n entries puts on the wire.
Written(n) == Frame

\* response_code() and send_to_user(), or the end of handle_cmd().  A list that
\* is longer than the buffer is copied past its end: what fits is written, and
\* the manager does not return from response_code().
Write(n) ==
  /\ up /\ Len(sent) < MaxSent
  /\ sent' = Append(sent, [at |-> end, n |-> n])
  /\ end' = end + Written(n)
  /\ up' = Fits(n)
  /\ UNCHANGED <<arrived, taken, got, due, torn>>

\* A piece of what is under way arrives.
Deliver ==
  /\ arrived' \in arrived + 1 .. end
  /\ UNCHANGED <<sent, end, taken, up, got, due, torn>>

\* What buftodata() makes of k cells from a place in the stream: the message
\* that begins there, if all it needs has come; the rest of the buffer is zero.
Decoded(from, k) ==
  IF \E i \in DOMAIN sent : sent[i].at = from /\ Need(sent[i].n) <= k
  THEN CHOOSE i \in DOMAIN sent : sent[i].at = from /\ Need(sent[i].n) <= k
  ELSE None

\* The read() of handle_request() or of handle_res().
Read ==
  LET k == Least(Frame, arrived - taken)
      caughtUp == taken + k = end
  IN /\ taken < arrived
     /\ taken' = taken + k
     /\ got' = Decoded(taken, k)
     /\ due' = IF caughtUp THEN Len(sent) + 1 ELSE due + 1
     /\ torn' = (~caughtUp /\ (torn \/ k < Frame))
     /\ UNCHANGED <<sent, end, arrived, up>>

Next == (\E n \in 0 .. MaxList : Write(n)) \/ Deliver \/ Read

Spec == Init /\ [][Next]_vars

-----------------------------------------------------------------------------
(* Properties.                                                             *)

\* One read() is one message for as long as no read comes short, in whatever
\* pieces the network delivers the frames and however far the reader is behind:
\* a full read is then the next message in order, with all the entries of a list
\* that fits a frame (handle_request() of req.c, handle_res() of main.c).  A short
\* read is forgiven as soon as the reader has caught up with the writer.
ReadWhole ==
  [][/\ ~torn
     /\ taken' = taken + Frame
     /\ Fits(sent[due].n)
     => got' = due]_vars
=============================================================================
