----------------------------- MODULE AngelShell -----------------------------
(***************************************************************************)
(* The frame shared by the angels that poll: the memory, the process and   *)
(* the sentinel angel are each one goroutine that dials Lab, registers,    *)
(* sends a first heartbeat and then serves two tickers in one select.      *)
(* Lab is only its end of the connection: up, slow (a write deadline       *)
(* passes, and the send fails), or gone.                                   *)
(***************************************************************************)
EXTENDS Naturals

CONSTANTS
  MaxHiccups    \* bound: times that Lab is slow

ASSUME ShellAssumption == MaxHiccups \in Nat

VARIABLES
  life,         \* "starting", "running", "exited" or "panicked"
  link,         \* "up", "hiccup" or "down"
  hiccups       \* how many hiccups the connection has had

shellVars == <<life, link, hiccups>>

ShellTypeOK ==
  /\ life \in {"starting", "running", "exited", "panicked"}
  /\ link \in {"up", "hiccup", "down"}
  /\ hiccups \in 0..MaxHiccups

ShellInit == life = "starting" /\ link = "up" /\ hiccups = 0

-----------------------------------------------------------------------------
(* Lab's end. *)

SendWillFail ==
  /\ link = "up" /\ hiccups < MaxHiccups
  /\ link' = "hiccup" /\ hiccups' = hiccups + 1
  /\ UNCHANGED life

LabGoes ==
  /\ link # "down"
  /\ link' = "down"
  /\ UNCHANGED <<life, hiccups>>

-----------------------------------------------------------------------------
(* The angel's end. *)

\* Dial, register and the first heartbeat: a failure of any of the three is
\* returned by run, and the process exits with 1.
Started ==
  /\ life = "starting" /\ link = "up"
  /\ life' = "running"
  /\ UNCHANGED <<link, hiccups>>

StartupFails ==
  /\ life = "starting" /\ link # "up"
  /\ life' = "exited"
  /\ UNCHANGED <<link, hiccups>>

\* A mutant: a heartbeat that fails is logged, like an event.
HeartbeatLogged(tries) ==
  /\ life = "running"
  /\ link' = IF link = "hiccup" THEN "up" ELSE link
  /\ UNCHANGED <<life, hiccups>>

\* The attempts of one heartbeat that may fail: all when Lab is gone; when it
\* is slow the first, and any number of those that follow at once.
Failures(tries) ==
  CASE link = "up" -> {0} [] link = "hiccup" -> 1..tries [] link = "down" -> {tries}

\* A tick of the heartbeat ticker, with the number of attempts it is given:
\* the angel exits when all of them fail, be Lab gone or slow.
Heartbeat(tries) ==
  /\ life = "running"
  /\ \E failures \in Failures(tries) :
       life' = IF failures = tries THEN "exited" ELSE life
  /\ link' = IF link = "hiccup" THEN "up" ELSE link
  /\ UNCHANGED hiccups

\* emitEvent for each event of a set, in any order: a send that fails is
\* logged and its event is lost. Lost is the choice of what is lost.
Lost(events) ==
  CASE link = "up" \/ events = {} -> {{}}
    [] link = "hiccup" /\ events # {} -> {{e} : e \in events}
    [] link = "down" /\ events # {} -> {events}

Emit(events) ==
  /\ link' = IF link = "hiccup" /\ events # {} THEN "up" ELSE link
  /\ UNCHANGED hiccups
-----------------------------------------------------------------------------
\* The weight of a scoring rule that applies.
Points(holds, n) == IF holds THEN n ELSE 0
=============================================================================
