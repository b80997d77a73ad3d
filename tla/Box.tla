-------------------------------- MODULE Box --------------------------------
(***************************************************************************)
(* The screen of gogup_client: two boxes, each with a ring buffer of       *)
(* characters, and what of them is on the terminal.  sp counts the         *)
(* characters ever written to a box; a box that has not been filled yet is *)
(* shown from the start of its buffer, later from sp.                      *)
(*                                                                         *)
(* The boxes have the same width and height here; characters are those of  *)
(* Texts, blanks, and what malloc() left in a buffer.                      *)
(***************************************************************************)
EXTENDS Naturals, Sequences, SequencesExt

CONSTANTS
  W, H,      \* width and height of a box
  Texts,     \* what is printed to a box
  Newline,   \* the character 10
  Space,     \* a blank
  Zero,      \* what memset() writes
  Junk,      \* what malloc() leaves
  MaxPos     \* bound: characters written to a box

Boxes == {"lobby", "chat"}
Size  == W * H
Cells == 0 .. Size - 1

ASSUME BoxAssumption ==
  /\ W \in Nat \ {0} /\ H \in Nat \ {0} /\ MaxPos \in Nat
  /\ \A t \in Texts : t \in Seq(Range(t))
  /\ Newline # Space

VARIABLES
  box,   \* box[b] : its sp and buffer
  term,  \* term[b] : the rows the terminal shows where b is, <<>> for an empty frame
  help   \* whether the help page is shown and Enter is waited for

vars == <<box, term, help>>

\* The characters a buffer can hold.
Characters == ((UNION {Range(t) : t \in Texts}) \ {Newline}) \cup {Space, Zero, Junk}

Buffers == [Cells -> Characters]
Rows    == [1 .. W -> Characters]

TypeOK ==
  /\ box \in [Boxes -> [sp : 0 .. MaxPos, buffer : Buffers]]
  /\ \A b \in Boxes : box[b].sp % W = 0
  /\ term \in [Boxes -> {<<>>} \cup [1 .. H -> Rows]]
  /\ help \in BOOLEAN

\* The frames, and nothing in them.
print_grid == [b \in Boxes |-> <<>>]

\* initPrintableBox(), twice, and print_grid().
Init ==
  /\ box = [b \in Boxes |-> [sp |-> 0, buffer |-> [i \in Cells |-> Junk]]]
  /\ term = print_grid
  /\ help = FALSE

-----------------------------------------------------------------------------
(* printToBox().                                                           *)

Spaces(n) == [i \in 1 .. n |-> Space]

\* A newline writes blanks up to the next row, a whole row of them at its start.
ToLineEnd(pos) == ((pos + W) \div W) * W - pos

\* Mutant of ToTextEnd: the row is not filled.
NotFilled(pos) == 0

\* At the end of a text the row is filled likewise, except at the buffer's end.
ToTextEnd(pos) == IF pos % Size # 0 THEN ((pos + W) \div W) * W - pos ELSE 0

\* What is written for a character when the characters in done were before it.
Put(pos, done, c) ==
  IF c = Newline THEN done \o Spaces(ToLineEnd(pos + Len(done))) ELSE Append(done, c)

\* The characters that printing t at pos writes; put[k] those for its first k.
Laid(pos, t) ==
  LET put[k \in 0 .. Len(t)] == IF k = 0 THEN <<>> ELSE Put(pos, put[k - 1], t[k])
  IN  put[Len(t)] \o Spaces(ToTextEnd(pos + Len(put[Len(t)])))

\* The ring buffer after the characters s were written from pos on.
Written(buffer, pos, s) ==
  [i \in Cells |->
     LET at == {k \in DOMAIN s : (pos + k - 1) % Size = i}
     IN  IF at = {} THEN buffer[i] ELSE s[CHOOSE k \in at : \A j \in at : j <= k]]

\* Mutant of FirstShown: the box is shown from the row written last.
FromLastRow(pos) == IF pos < Size THEN 0 ELSE pos + Size - W

\* The cell shown first.
FirstShown(pos) == IF pos < Size THEN 0 ELSE pos

Displayed(b) ==
  [r \in 1 .. H |-> [j \in 1 .. W |-> b.buffer[(FirstShown(b.sp) + (r - 1) * W + j - 1) % Size]]]

printed(b, t) ==
  LET s == Laid(b.sp, t)
  IN  [sp |-> b.sp + Len(s), buffer |-> Written(b.buffer, b.sp, s)]

Cleared == [sp |-> 0, buffer |-> [i \in Cells |-> Zero]]

-----------------------------------------------------------------------------
(* What the client does with its screen.                                   *)

printToBox(b, t) ==
  /\ ~help
  /\ box[b].sp + Len(Laid(box[b].sp, t)) <= MaxPos
  /\ box' = [box EXCEPT ![b] = printed(@, t)]
  /\ term' = [term EXCEPT ![b] = Displayed(box'[b])]
  /\ UNCHANGED help

\* update_screen() after the changes of a handler: nothing is printed to each
\* box, and that draws it.
update_screen(boxes) ==
  /\ box' = [b \in Boxes |-> printed(boxes[b], <<>>)]
  /\ \A b \in Boxes : box'[b].sp <= MaxPos
  /\ term' = [b \in Boxes |-> Displayed(box'[b])]

\* Mutant of clear_box_buffer: the screen is not drawn again.
ClearUnseen(b) ==
  /\ ~help
  /\ box' = [box EXCEPT ![b] = Cleared]
  /\ UNCHANGED <<term, help>>

clear_box_buffer(b) ==
  /\ ~help
  /\ update_screen([box EXCEPT ![b] = Cleared])
  /\ UNCHANGED help

\* print_help() up to getchar().
print_help ==
  /\ ~help
  /\ help' = TRUE
  /\ term' = [b \in Boxes |-> <<>>]
  /\ UNCHANGED box

Enter ==
  /\ help
  /\ help' = FALSE
  /\ update_screen(box)

Next ==
  \/ \E b \in Boxes, t \in Texts : printToBox(b, t)
  \/ clear_box_buffer("chat") \/ print_help \/ Enter

Spec == Init /\ [][Next]_vars

-----------------------------------------------------------------------------
(* What the screen promises.                                               *)

\* Unless the help page is shown, the terminal shows what the boxes hold,
\* through all redrawing; a box nothing was ever written to may be empty.
OnTerminal ==
  ~help => \A b \in Boxes :
             term[b] = Displayed(box[b]) \/ (term[b] = <<>> /\ box[b].sp = 0)

\* Of a box, the rows that were written: what its texts fill of it from the top.
WrittenRows(b) ==
  SubSeq(Displayed(b), 1, IF b.sp < Size THEN b.sp \div W ELSE H)

\* Every text appears below the one before it, whole and in order, and rows
\* leave at the top only when the box is full, although the buffer is a ring
\* that is shown from its start at first and from sp later (print.c:70-96).
Lobby == INSTANCE Scroll WITH
  Width <- W, Height <- H, rows <- WrittenRows(box["lobby"]), Texts <- Texts \cup {<<>>}

ChatBox == INSTANCE Scroll WITH
  Width <- W, Height <- H, rows <- WrittenRows(box["chat"]), Texts <- Texts \cup {<<>>}

ImplementsScroll == Lobby!Spec /\ ChatBox!Spec
=============================================================================
