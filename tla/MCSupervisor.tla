---------------------------- MODULE MCSupervisor ----------------------------
(* Instances of Supervisor for TLC: every entry is spawned under one id.     *)
EXTENDS Supervisor

MCId == [e \in Entry |-> CHOOSE a \in Angel : TRUE]
=============================================================================
