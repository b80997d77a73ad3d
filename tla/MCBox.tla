------------------------------- MODULE MCBox -------------------------------
(* Small instances of Box for TLC.                                         *)
EXTENDS Box, TLC

CONSTANTS a, b, nl

\* Texts shorter than a row, of a whole row, of two lines, ending a line, and
\* longer than a box.
SomeTexts ==
  {<<a>>, <<a, b>>, <<b, nl, a>>, <<a, b, nl>>, <<a, b, a, b, a, b, b>>}
=============================================================================
