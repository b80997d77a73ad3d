----------------------------- MODULE MCSessions -----------------------------
(* Small instances of Sessions for TLC.  The configurations name the client  *)
(* processes; those of one instance are interchangeable when all of them or  *)
(* none of them send heartbeats.                                             *)
EXTENDS Sessions, TLC

Interchangeable == Permutations(Clients)

\* Every register request is answered (manager/src/req.c:80-97, 21-29).  As the
\* clients are interchangeable, what holds of any one of them holds of each.
RegisterAnswered == LET any == CHOOSE c \in Clients : TRUE IN Answered(any)

\* Every departure is noticed, its slot is free again (manager/src/req.c:24-28).
SlotsComeFree == LET any == CHOOSE c \in Clients : TRUE IN DepartureNoticed(any)
=============================================================================
