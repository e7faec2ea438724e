---------------------------- MODULE PolicyProofs ----------------------------
(***************************************************************************)
(* Supervisor implements RestartPolicy: the initial states map to initial  *)
(* states, and every step maps to a step of the policy or to a stutter.    *)
(***************************************************************************)
EXTENDS SupervisorProofs

\* The abstract variables follow the runners and the processes alone.
LEMMA LifeFrame ==
  ASSUME UNCHANGED <<starts, rpc, proc>>
  PROVE  UNCHANGED <<LifePhase, starts, LifeUp>>
BY DEF LifePhase, LifeUp, Alive

\* An entry is up when its newest process is alive, and only while its runner
\* has it or is done.
LEMMA UpIsNewest ==
  ASSUME TypeOK, ProcessesFollowStarts, NEW e \in Entry
  PROVE  e \in LifeUp <=> /\ rpc[e] \in Running \cup {"done"}
                          /\ starts[e] \in 1 .. MaxStarts /\ Alive(<<e, starts[e]>>)
<1>1. ASSUME e \in LifeUp
      PROVE  /\ rpc[e] \in Running \cup {"done"}
             /\ starts[e] \in 1 .. MaxStarts /\ Alive(<<e, starts[e]>>)
  <2>1. PICK k \in 1 .. MaxStarts : Alive(<<e, k>>)
    BY <1>1 DEF LifeUp, Proc
  <2> QED
    BY <2>1, LiveIsNewestStart
<1>2. ASSUME starts[e] \in 1 .. MaxStarts, Alive(<<e, starts[e]>>) PROVE e \in LifeUp
  BY <1>2 DEF LifeUp, Proc
<1> QED
  BY <1>1, <1>2

\* StartProcess is Start: the last process has been waited for, and the count in
\* the row left budget.
LEMMA StartIsStart ==
  ASSUME TypeOK, ProcessesFollowStarts, RestartsCounted, NEW e \in Entry, StartProcess(e)
  PROVE  Policy!Start(e)
<1>1. /\ rpc[e] = "start" /\ rpc' = [rpc EXCEPT ![e] = "markTraining"]
      /\ starts' = [starts EXCEPT ![e] = @ + 1] /\ starts[e] < MaxStarts
      /\ proc' = [proc EXCEPT ![<<e, starts[e] + 1>>] = "up"]
  BY DEF StartProcess, RunnerAt
<1>2. e \notin LifeUp /\ LifePhase[e] = "begun"
  BY <1>1, UpIsNewest DEF Running, LifePhase, PhaseAt
<1>3. starts[e] < Policy!Budget
  BY <1>1, SupervisorAssumption DEF RestartsCounted, TypeOK, Policy!Budget
<1>4. LifePhase' = LifePhase
  <2>1. \A f \in Entry : \/ rpc'[f] = rpc[f]
                         \/ rpc[f] = "start" /\ rpc'[f] = "markTraining"
    BY <1>1 DEF TypeOK
  <2> QED
    BY <2>1 DEF LifePhase, PhaseAt
<1>5. LifeUp' = LifeUp \cup {e}
  <2>1. starts[e] + 1 \in 1 .. MaxStarts /\ <<e, starts[e] + 1>> \in Proc
    BY <1>1, SupervisorAssumption DEF TypeOK, Proc
  <2>2. proc'[<<e, starts[e] + 1>>] = "up"
    BY <1>1, <2>1 DEF TypeOK
  <2>3. \A f \in Entry \ {e} : \A k \in 1 .. MaxStarts : proc'[<<f, k>>] = proc[<<f, k>>]
    BY <1>1 DEF TypeOK, Proc
  <2> QED
    BY <2>1, <2>2, <2>3 DEF LifeUp, Alive, Proc
<1> QED
  BY <1>1, <1>2, <1>3, <1>4, <1>5 DEF Policy!Start

\* A step of the runner alone begins a life, ends it with no process left, or
\* is not seen.
LEMMA MoveIsBeginOrEnd ==
  ASSUME TypeOK, ProcessesFollowStarts, NEW e \in Entry, RunnerMoves(e)
  PROVE  Policy!Begin(e) \/ Policy!End(e) \/ UNCHANGED <<LifePhase, starts, LifeUp>>
<1>1. PICK from, to \in RunnerPC :
        /\ rpc[e] = from /\ rpc' = [rpc EXCEPT ![e] = to]
        /\ from # "done" /\ to # "unused" /\ (from = "unused" => to = "publish")
        /\ from \in Running <=> to \in Running
        /\ UNCHANGED <<starts, proc>>
  BY DEF RunnerMoves, RunnerAt
<1>2. LifeUp' = LifeUp
  BY <1>1 DEF LifeUp, Alive
<1>3. \A f \in Entry : rpc'[f] = IF f = e THEN to ELSE rpc[f]
  BY <1>1 DEF TypeOK
<1>4. LifePhase' = [LifePhase EXCEPT ![e] = PhaseAt(to)]
  BY <1>3 DEF LifePhase
<1>5. LifePhase[e] = PhaseAt(from)
  BY <1>1 DEF LifePhase
<1>6. CASE from = "unused"
  BY <1>1, <1>2, <1>4, <1>5, <1>6 DEF Policy!Begin, PhaseAt
<1>7. CASE from # "unused" /\ to = "done"
  <2>1. e \notin LifeUp
    BY <1>1, <1>7, UpIsNewest DEF Running
  <2> QED
    BY <1>1, <1>2, <1>4, <1>5, <1>7, <2>1 DEF Policy!End, PhaseAt
<1>8. CASE from # "unused" /\ to # "done"
  <2>1. LifePhase' = LifePhase
    BY <1>1, <1>4, <1>5, <1>8 DEF LifePhase, PhaseAt
  <2> QED
    BY <1>1, <1>2, <2>1
<1> QED
  BY <1>1, <1>6, <1>7, <1>8

\* The exit of a process is Stop: it is the newest of its entry.
LEMMA ExitIsStop ==
  ASSUME TypeOK, ProcessesFollowStarts, NEW p \in Proc, Exit(p)
  PROVE  Policy!Stop(p[1])
<1>1. PICK e \in Entry, k \in 1 .. MaxStarts : p = <<e, k>>
  BY DEF Proc
<1>2. /\ Alive(p) /\ proc' = [proc EXCEPT ![p] = "exited"]
      /\ UNCHANGED <<starts, rpc>>
  BY DEF Exit, runnerVars
<1>3. e \in LifeUp
  BY <1>1, <1>2 DEF LifeUp
<1>4. LifeUp' = LifeUp \ {e}
  <2>1. \A q \in Proc : q[1] = e => proc'[q] = "exited" \/ ~Alive(q)'
    <3>1. ASSUME NEW m \in 1 .. MaxStarts, m # k PROVE ~Alive(<<e, m>>)
      BY <1>1, <1>2, <3>1, LiveIsNewestStart
    <3>2. ASSUME NEW m \in 1 .. MaxStarts PROVE proc'[<<e, m>>] = "exited" \/ ~Alive(<<e, m>>)'
      <4>1. <<e, m>> \in Proc
        BY DEF Proc
      <4>2. CASE m = k
        BY <1>1, <1>2, <4>1, <4>2 DEF TypeOK
      <4>3. CASE m # k
        BY <1>1, <1>2, <3>1, <4>1, <4>3 DEF TypeOK, Alive
      <4> QED
        BY <4>2, <4>3
    <3> QED
      BY <3>2 DEF Proc
  <2>2. \A q \in Proc : q[1] # e => proc'[q] = proc[q]
    BY <1>1, <1>2 DEF TypeOK
  <2> QED
    BY <2>1, <2>2 DEF LifeUp, Alive
<1>5. LifePhase' = LifePhase
  BY <1>2 DEF LifePhase
<1> QED
  BY <1>1, <1>2, <1>3, <1>4, <1>5 DEF Policy!Stop

\* Every step of the supervisor is a step of the policy or is not seen.
LEMMA PolicyStep ==
  ASSUME TypeOK, ProcessesFollowStarts, RestartsCounted, [Next]_vars
  PROVE  [Policy!LifeNext]_<<LifePhase, starts, LifeUp>>
<1>1. CASE UNCHANGED <<starts, rpc, proc>>
  BY <1>1, LifeFrame
<1>2. ASSUME NEW e \in Entry, StartProcess(e) PROVE Policy!LifeNext
  BY <1>2, StartIsStart DEF Policy!LifeNext
<1>3. ASSUME NEW e \in Entry, ProcessExits(e) PROVE UNCHANGED <<LifePhase, starts, LifeUp>>
  <2>1. /\ rpc[e] = "wait" /\ rpc' = [rpc EXCEPT ![e] = "exited"]
        /\ UNCHANGED <<starts, proc>>
    BY <1>3 DEF ProcessExits, RunnerAt, procVars
  <2>2. \A f \in Entry : PhaseAt(rpc[f])' = PhaseAt(rpc[f])
    BY <2>1 DEF TypeOK, PhaseAt
  <2> QED
    BY <2>1, <2>2 DEF LifePhase, LifeUp, Alive
<1>4. ASSUME NEW e \in Entry, RunnerMoves(e)
      PROVE  Policy!LifeNext \/ UNCHANGED <<LifePhase, starts, LifeUp>>
  BY <1>4, MoveIsBeginOrEnd DEF Policy!LifeNext
<1>5. ASSUME NEW p \in Proc, Hang(p) PROVE UNCHANGED <<LifePhase, starts, LifeUp>>
  <2>1. /\ proc[p] = "up" /\ proc' = [proc EXCEPT ![p] = "hung"]
        /\ UNCHANGED <<starts, rpc>>
    BY <1>5 DEF Hang, runnerVars
  <2>2. \A q \in Proc : Alive(q)' = Alive(q)
    BY <2>1 DEF TypeOK, Alive
  <2> QED
    BY <2>1, <2>2 DEF LifePhase, LifeUp
<1>6. ASSUME NEW p \in Proc, Exit(p) PROVE Policy!LifeNext
  <2>1. p[1] \in Entry
    BY OwnerType
  <2> QED
    BY <1>6, <2>1, ExitIsStop DEF Policy!LifeNext
<1> QED
  BY <1>1, <1>2, <1>3, <1>4, <1>5, <1>6, RunnerSteps

\* The detailed supervisor, with any number of entries per id and every stimulus
\* but a failing database, does nothing to its processes that the restart policy
\* does not allow (runAngel, IncrementRestarts).
THEOREM PolicyImplemented == "dberror" \notin Stimuli => (Spec => ImplementsPolicy)
<1> SUFFICES ASSUME "dberror" \notin Stimuli PROVE Spec => ImplementsPolicy
  OBVIOUS
<1>1. Init => ProcessesFollowStarts /\ RestartsCounted
  BY InitStarts, SupervisorAssumption DEF Init, RegInit, RestartsCounted, Counted
<1>2. TypeOK /\ ProcessesFollowStarts /\ RestartsCounted /\ [Next]_vars
        => ProcessesFollowStarts' /\ RestartsCounted'
  BY StartsStep, CountedStep
<1>3. Init => Policy!LifeInit
  BY DEF Init, Policy!LifeInit, LifePhase, PhaseAt, LifeUp, Alive, Proc
<1>4. TypeOK /\ ProcessesFollowStarts /\ RestartsCounted /\ [Next]_vars
        => [Policy!LifeNext]_<<LifePhase, starts, LifeUp>>
  BY PolicyStep
<1> QED
  BY <1>1, <1>2, <1>3, <1>4, TypeCorrect, PTL
  DEF Spec, ImplementsPolicy, Policy!LifeSpec, Policy!lifeVars
=============================================================================
