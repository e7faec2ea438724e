----------------------------- MODULE MCStream -----------------------------
(* Small instances of EventStream for TLC.                                 *)
EXTENDS EventStream

\* One angel that reports twice, one that reports once.
MCMaxEvents == [a \in Angel |-> IF a = CHOOSE b \in Angel : TRUE THEN 2 ELSE 1]
===========================================================================
