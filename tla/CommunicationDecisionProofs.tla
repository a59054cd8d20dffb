-------------------- MODULE CommunicationDecisionProofs --------------------
(***************************************************************************)
(* The safety of the communication decision, for any number of restarted   *)
(* supervisors and any deadline.                                           *)
(*                                                                         *)
(* The properties are not inductive alone: that a supervisor is recovering *)
(* says nothing of the result unless the locks are tied to the steps       *)
(* (LocksHeld), and the result to the steps that follow a claim            *)
(* (ClaimDurable, CommitRecorded).                                         *)
(***************************************************************************)
EXTENDS CommunicationDecision, TLAPS

\* The decision mutex is held exactly in the locked steps and the runner lock
\* in the running ones; it is dropped with the process or in close.
LocksHeld == /\ \A p \in Procs : mutex = p <=> pc[p] \in LockedAt
             /\ \A p \in Supervisors : pc[p] \in RunningAt => runner = p
             /\ \A p \in Supervisors : runner = p => pc[p] \in RunningAt \cup {"close"}

\* A claim is published before the mutex is given up, and stays until settled.
ClaimDurable ==
    \A p \in Supervisors :
        /\ pc[p] = "publish_started" => result = "wait" /\ marker = "window1"
        /\ pc[p] = "claimed" \/ Recovering(p) => result = "started" /\ marker = "window1"
        /\ pc[p] = "exclusive" => pc[Worker] = "dead"

\* The worker replaces the result only from WAIT, and leaves with it replaced.
CommitRecorded == /\ pc[Worker] = "commit" => result = "wait"
                  /\ pc[Worker] = "won" => result = "committed"
                  /\ marker = "past" => result = "committed"

IInv == TypeOK /\ LocksHeld /\ ClaimDurable /\ CommitRecorded

USE DecisionAssumption

\* The initial state satisfies the inductive invariant.
LEMMA InitIInv == Init => IInv
  BY DEF Init, IInv, TypeOK, LocksHeld, ClaimDurable, CommitRecorded, Recovering,
         Markers, Phases, Terminals, Procs, Supervisors, LockedAt, RunningAt,
         WorkerSteps, SupervisorSteps

\* Every step of the worker, of a supervisor, of a crash or of the clock keeps
\* the inductive invariant.
LEMMA StepIInv == IInv /\ [Next]_vars => IInv'
<1> SUFFICES ASSUME IInv, [Next]_vars PROVE IInv'
  OBVIOUS
<1> USE DEF IInv, TypeOK, LocksHeld, ClaimDurable, CommitRecorded, Recovering,
            Markers, Phases, Terminals, Procs, Supervisors, LockedAt, RunningAt,
            WorkerSteps, SupervisorSteps, Goto
<1>1. CASE PublishWindow1 BY <1>1 DEF PublishWindow1
<1>2. CASE WorkerOpen BY <1>2 DEF WorkerOpen
<1>3. CASE WorkerOpenTimeout BY <1>3 DEF WorkerOpenTimeout
<1>4. CASE WorkerCheck BY <1>4 DEF WorkerCheck, CommitAllowed
<1>5. CASE WorkerCommit BY <1>5 DEF WorkerCommit
<1>6. CASE LeaveWindow1 BY <1>6 DEF LeaveWindow1
<1>7. ASSUME NEW b \in Boots, BootStart(b) PROVE IInv'
  BY <1>7 DEF BootStart
<1>8. ASSUME NEW p \in Supervisors, SupervisorNext(p) PROVE IInv'
  <2>1. CASE SupervisorOpen(p) BY <2>1 DEF SupervisorOpen
  <2>2. CASE SupervisorBegin(p) BY <2>2 DEF SupervisorBegin, BeginAllowed
  <2>3. CASE PublishStarted(p) BY <2>3 DEF PublishStarted
  <2>4. CASE ReleaseMutex(p) BY <2>4 DEF ReleaseMutex
  <2>5. CASE WorkerExit(p) BY <2>5 DEF WorkerExit
  <2>6. CASE RecoveryEnds(p) BY <2>6 DEF RecoveryEnds
  <2>7. CASE Relock(p) BY <2>7 DEF Relock
  <2>8. CASE RelockTimeout(p) BY <2>8 DEF RelockTimeout
  <2>9. CASE SupervisorFinish(p) BY <2>9 DEF SupervisorFinish, SettleAllowed
  <2>10. CASE PublishFinal(p) BY <2>10 DEF PublishFinal
  <2>11. CASE SupervisorClose(p) BY <2>11 DEF SupervisorClose
  <2> QED BY <1>8, <2>1, <2>2, <2>3, <2>4, <2>5, <2>6, <2>7, <2>8, <2>9, <2>10, <2>11
          DEF SupervisorNext
<1>9. ASSUME NEW p \in Procs, Crash(p) PROVE IInv'
  BY <1>9 DEF Crash, Live
<1>10. CASE PowerLoss BY <1>10 DEF PowerLoss, Live
<1>11. CASE ClockSet BY <1>11 DEF ClockSet
<1>12. CASE UNCHANGED vars BY <1>12 DEF vars
<1> QED BY <1>1, <1>2, <1>3, <1>4, <1>5, <1>6, <1>7, <1>8, <1>9, <1>10, <1>11, <1>12
        DEF Next, WorkerNext

\* The inductive invariant holds throughout.
LEMMA Inductive == Spec => []IInv
<1> QED BY InitIInv, StepIInv, PTL DEF Spec

\* Every variable of the decision protocol stays in its set.
THEOREM TypeCorrect == Spec => []TypeOK
<1>1. IInv => TypeOK BY DEF IInv
<1> QED BY <1>1, Inductive, PTL

\* Behind a commit the worker relies on no supervisor stops or restores a service, for
\* any number of supervisor restarts and any clock.
THEOREM CommitSafe == Spec => []CommitExcludesRecovery
<1>1. IInv => CommitExcludesRecovery
  BY DEF IInv, ClaimDurable, CommitRecorded, CommitExcludesRecovery
<1> QED BY <1>1, Inductive, PTL

\* A recovery that touches services runs alone, on a dead worker, behind a
\* durable STARTED.
THEOREM RecoverySafe == Spec => []ExclusiveRecovery
<1>1. IInv => ExclusiveRecovery
  BY DEF IInv, TypeOK, LocksHeld, ClaimDurable, ExclusiveRecovery, Recovering, RunningAt, Supervisors
<1> QED BY <1>1, Inductive, PTL

\* Leaving window 1 presupposes the worker's commit.
THEOREM WindowSafe == Spec => []PastWindow1IsCommitted
<1>1. IInv => PastWindow1IsCommitted
  BY DEF IInv, CommitRecorded, PastWindow1IsCommitted
<1> QED BY <1>1, Inductive, PTL

\* The lock files and the result file together implement the arbiter: each
\* step of the protocol is one step of the arbiter or leaves it alone.
THEOREM Implements == Spec => ImplementsArbiter
<1>1. Init => Decision!Init
  BY DEF Init, Decision!Init
<1>2. IInv /\ [Next]_vars => [Decision!Next]_(Decision!vars)
  <2> SUFFICES ASSUME IInv, [Next]_vars
               PROVE [Decision!Next]_(Decision!vars)
    OBVIOUS
  <2> USE DEF IInv, TypeOK, LocksHeld, ClaimDurable, CommitRecorded, Recovering,
              Procs, Supervisors, LockedAt, RunningAt, Terminals,
              Decision!Next, Decision!vars, Decision!Claim, Decision!Begin,
              Decision!Settle, Decision!Release, Decision!Commit
  <2>1. CASE WorkerNext
    BY <2>1 DEF WorkerNext, PublishWindow1, WorkerOpen, WorkerOpenTimeout,
                WorkerCheck, WorkerCommit, LeaveWindow1
  <2>2. ASSUME NEW b \in Boots, BootStart(b) PROVE [Decision!Next]_(Decision!vars)
    BY <2>2 DEF BootStart
  <2>3. ASSUME NEW p \in Supervisors, SupervisorNext(p)
        PROVE [Decision!Next]_(Decision!vars)
    <3>1. CASE SupervisorBegin(p) BY <3>1 DEF SupervisorBegin, BeginAllowed
    <3>2. CASE PublishStarted(p) BY <3>2 DEF PublishStarted
    <3>3. CASE PublishFinal(p) BY <3>3 DEF PublishFinal
    <3>4. CASE RelockTimeout(p) BY <3>4 DEF RelockTimeout
    <3>5. CASE SupervisorClose(p) BY <3>5 DEF SupervisorClose
    <3>6. CASE \/ SupervisorOpen(p) \/ ReleaseMutex(p) \/ WorkerExit(p)
               \/ RecoveryEnds(p) \/ Relock(p) \/ SupervisorFinish(p)
      BY <3>6 DEF SupervisorOpen, ReleaseMutex, WorkerExit, RecoveryEnds, Relock,
                  SupervisorFinish
    <3> QED BY <2>3, <3>1, <3>2, <3>3, <3>4, <3>5, <3>6 DEF SupervisorNext
  <2>4. ASSUME NEW p \in Procs, Crash(p) PROVE [Decision!Next]_(Decision!vars)
    BY <2>4 DEF Crash
  <2>5. CASE PowerLoss BY <2>5 DEF PowerLoss
  <2>6. CASE ClockSet BY <2>6 DEF ClockSet
  <2>7. CASE UNCHANGED vars BY <2>7 DEF vars
  <2> QED BY <2>1, <2>2, <2>3, <2>4, <2>5, <2>6, <2>7 DEF Next
<1> QED BY <1>1, <1>2, Inductive, PTL DEF Spec, ImplementsArbiter, Decision!Spec
=============================================================================
