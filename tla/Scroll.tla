------------------------------- MODULE Scroll -------------------------------
(***************************************************************************)
(* What a box of the screen promises: the texts printed to it appear one   *)
(* below the other, broken into rows, and when there are more rows than    *)
(* the box has, those at the top leave.  An abstract specification; Box    *)
(* has the ring buffer that implements it.                                 *)
(***************************************************************************)
EXTENDS Naturals, Sequences

CONSTANTS
  Width, Height,  \* of the box, neither of them 0
  Texts,          \* what is printed, sequences of characters
  Newline,        \* a character that ends a line
  Space           \* the character that fills a row, not Newline

VARIABLE rows  \* the rows that are visible, from the top

\* A text that is being broken into rows: those that are complete, and the
\* characters of the one that is not, fewer than a row.
Filled(open) == [j \in 1 .. Width |-> IF j <= Len(open) THEN open[j] ELSE Space]

\* A row is complete at a newline or when it is full, so that a newline after
\* a full row leaves a blank one.
Typed(broken, c) ==
  LET row == IF c = Newline THEN broken.open ELSE Append(broken.open, c)
  IN  IF c = Newline \/ Len(row) = Width
      THEN [full |-> Append(broken.full, Filled(row)), open |-> <<>>]
      ELSE [full |-> broken.full, open |-> row]

Broken(t) ==
  LET typed[k \in 0 .. Len(t)] ==
        IF k = 0 THEN [full |-> <<>>, open |-> <<>>] ELSE Typed(typed[k - 1], t[k])
  IN  typed[Len(t)]

LastOf(s) == IF Len(s) <= Height THEN s ELSE SubSeq(s, Len(s) - Height + 1, Len(s))

Init == rows = <<>>

\* The row a text ends with is completed too; a blank one may be left out.
Scrolled(t) ==
  \/ rows' = LastOf(rows \o Append(Broken(t).full, Filled(Broken(t).open)))
  \/ /\ Broken(t).open = <<>>
     /\ rows' = LastOf(rows \o Broken(t).full)

Clear == rows' = <<>>

Next == Clear \/ \E t \in Texts : Scrolled(t)

Spec == Init /\ [][Next]_rows
=============================================================================
