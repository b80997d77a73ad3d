------------------------------- MODULE MCChat -------------------------------
(* Small instances of Chat for TLC.                                        *)
EXTENDS Chat, TLC

\* What the two users type: one chat each.
OnceEach == {0, 1} \X {1}

\* Bound: two clients have requests under way only while no response is, so
\* that requests that cross are served in either order.
CrossWhenQuiet ==
  Cardinality({c \in Users : up[c] # <<>>}) > 1 => \A c \in Users : down[c] = <<>>
=============================================================================
