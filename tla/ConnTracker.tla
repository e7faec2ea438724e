---------------------------- MODULE ConnTracker ----------------------------
(***************************************************************************)
(* The ConnTracker of internal/lab/connection.go: the state of the IPC     *)
(* link of one AngelEntry and the timer of its recovery window.  Every     *)
(* operation holds the tracker's mutex from its first to its last line and *)
(* is one step.  The timer's function runs in a goroutine of its own and   *)
(* takes the mutex only to read the state, so a timer that has fired is no *)
(* longer stopped by Stop(): its goroutine is a variable of the module.    *)
(*                                                                         *)
(* The module has no behaviour of its own: Supervisor composes its actions *)
(* with those of the goroutines that call them.                            *)
(***************************************************************************)
CONSTANT Entry      \* the AngelEntry objects; each embeds one tracker

ConnState == {"DISCONNECTED", "CONNECTING", "REGISTERED",
              "ACTIVE", "LOST", "RECOVERING"}

VARIABLES
  ct,       \* ct[e]: ConnTracker.state
  armed,    \* armed[e]: the recovery timer runs and Stop() would stop it
  expiry    \* expiry[e]: the timer's goroutine: "none", "fired" (about to read
            \* the state), "expired" (about to call onExpired)

ctVars == <<ct, armed, expiry>>

CTTypeOK == /\ ct \in [Entry -> ConnState]
            /\ armed \in [Entry -> BOOLEAN]
            /\ expiry \in [Entry -> {"none", "fired", "expired"}]

CTInit == /\ ct = [e \in Entry |-> "DISCONNECTED"]
          /\ armed = [e \in Entry |-> FALSE]
          /\ expiry = [e \in Entry |-> "none"]
-----------------------------------------------------------------------------
\* The table of validTransition.
ValidTransition ==
  {<<"DISCONNECTED", "CONNECTING">>} \cup
  ({"CONNECTING"} \X {"REGISTERED", "LOST", "RECOVERING"}) \cup
  ({"REGISTERED"} \X {"ACTIVE", "LOST", "RECOVERING"}) \cup
  ({"ACTIVE"}     \X {"LOST", "RECOVERING"}) \cup
  ({"LOST"}       \X {"RECOVERING", "CONNECTING"}) \cup
  ({"RECOVERING"} \X {"REGISTERED", "CONNECTING"})

\* A move outside the table is refused; the callers drop the error.
Transition(e, new) ==
  /\ ct' = [ct EXCEPT ![e] = IF <<ct[e], new>> \in ValidTransition THEN new ELSE @]
  /\ UNCHANGED <<armed, expiry>>

\* Opens the window and starts no timer.
MarkLostUntimed(e) ==
  LET down == ct[e] \in {"DISCONNECTED", "LOST", "RECOVERING"}
  IN  /\ ct' = [ct EXCEPT ![e] = IF down THEN @ ELSE "RECOVERING"]
      /\ UNCHANGED <<armed, expiry>>

\* Opens the recovery window, unless the link is already down.
MarkLost(e) ==
  LET down == ct[e] \in {"DISCONNECTED", "LOST", "RECOVERING"}
  IN  /\ ct' = [ct EXCEPT ![e] = IF down THEN @ ELSE "RECOVERING"]
      /\ armed' = [armed EXCEPT ![e] = IF down THEN @ ELSE TRUE]
      /\ UNCHANGED expiry

\* Sets REGISTERED whatever the state was, and stops the timer.
MarkRecovered(e) ==
  /\ ct' = [ct EXCEPT ![e] = "REGISTERED"]
  /\ armed' = [armed EXCEPT ![e] = FALSE]
  /\ UNCHANGED expiry

\* The tracker's half of entry_resetConn, before a restart.
ResetTracker(e) ==
  /\ ct' = [ct EXCEPT ![e] = "CONNECTING"]
  /\ armed' = [armed EXCEPT ![e] = FALSE]
  /\ UNCHANGED expiry
-----------------------------------------------------------------------------
\* The window is over.  A goroutine started by one window has finished before
\* the next window, recoveryWindow = 10 s long, is over: one slot is enough.
TimerFires(e) ==
  /\ armed[e] /\ expiry[e] = "none"
  /\ armed' = [armed EXCEPT ![e] = FALSE]
  /\ expiry' = [expiry EXCEPT ![e] = "fired"]
  /\ UNCHANGED ct

\* The timer's goroutine looks, under the mutex, whether the angel is back.
CheckWindow(e) ==
  /\ expiry[e] = "fired"
  /\ expiry' = [expiry EXCEPT ![e] = IF ct[e] = "RECOVERING" THEN "expired" ELSE "none"]
  /\ UNCHANGED <<ct, armed>>

\* onExpired has been called and the goroutine ends.
WindowExpired(e) ==
  /\ expiry[e] = "expired"
  /\ expiry' = [expiry EXCEPT ![e] = "none"]
  /\ UNCHANGED <<ct, armed>>
=============================================================================
