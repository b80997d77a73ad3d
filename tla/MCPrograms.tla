----------------------------- MODULE MCPrograms -----------------------------
(* Small instances of Programs for TLC.                                    *)
EXTENDS Programs, TLC
=============================================================================
