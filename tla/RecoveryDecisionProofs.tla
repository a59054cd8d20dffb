----------------------- MODULE RecoveryDecisionProofs -----------------------
(***************************************************************************)
(* The safety of the supervisor decision, for any number of helper runs    *)
(* and any deadline.                                                       *)
(*                                                                         *)
(* The helper drops the mutex between its two looks at the decision, so    *)
(* nothing about the result can be carried from the first look: the        *)
(* invariant says only what holds from the second one on (ClaimDurable),   *)
(* and that a verdict RESTORED is about a marker nobody can move any more  *)
(* (VerdictTrue).                                                          *)
(***************************************************************************)
EXTENDS RecoveryDecision, TLAPS

\* Steps of a helper that hold the decision mutex.
LockedAt == {"look", "recheck", "begin", "publish_started", "claimed", "finish",
             "publish_final", "settled"}
\* Steps of a helper that hold the runner lock.
RunningAt == {"relock", "recheck", "begin", "publish_started", "claimed",
              "terminate", "want_deploy", "restore", "relock2", "finish",
              "publish_final", "settled"}

LocksHeld == /\ mutex = Worker <=> pc[Worker] \in {"check", "commit"}
             /\ \A h \in Helpers : pc[h] \in LockedAt => mutex = h
             /\ \A h \in Helpers : mutex = h => pc[h] \in LockedAt \cup {"close"}
             /\ \A h \in Helpers : pc[h] \in RunningAt => runner = h
             /\ \A h \in Helpers : runner = h => pc[h] \in RunningAt \cup {"close"}
             /\ runner = BootSup <=> pc[BootSup] \in {"watching", "recovering"}

ClaimDurable ==
    \A h \in Helpers :
        /\ pc[h] = "publish_started" => result = "wait"
        /\ Claimed(h) => result = "started"
        /\ pc[h] \in {"want_deploy", "restore"} => pc[Worker] = "dead"

VerdictTrue ==
    /\ \A h \in Helpers :
          pc[h] \in {"relock2", "finish", "publish_final"} /\ verdict[h] = "restored" =>
              marker = "window2" /\ pc[Worker] = "dead"
    /\ result = "restored" => marker = "window2" /\ pc[Worker] = "dead"

CommitRecorded == /\ pc[Worker] = "commit" => result = "wait"
                  /\ pc[Worker] = "won" => result = "committed"
                  /\ marker = "clear" => result = "committed"

IInv == TypeOK /\ LocksHeld /\ ClaimDurable /\ VerdictTrue /\ CommitRecorded

USE RecoveryAssumption

\* The initial state satisfies the inductive invariant.
LEMMA InitIInv == Init => IInv
  BY DEF Init, IInv, TypeOK, LocksHeld, ClaimDurable, VerdictTrue, CommitRecorded,
         Claimed, Markers, Phases, Terminals, Procs, LockedAt, RunningAt,
         WorkerSteps, BootSteps, HelperSteps

\* Every step of the worker, of the restarted supervisor, of a helper, of a
\* crash or of the clock keeps the inductive invariant.
LEMMA StepIInv == IInv /\ [Next]_vars => IInv'
<1> SUFFICES ASSUME IInv, [Next]_vars PROVE IInv'
  OBVIOUS
<1> USE DEF IInv, TypeOK, LocksHeld, ClaimDurable, VerdictTrue, CommitRecorded,
            Claimed, Markers, Phases, Terminals, Procs, LockedAt, RunningAt,
            WorkerSteps, BootSteps, HelperSteps, Goto, Dropped
<1>1. CASE WorkerNext
  <2>1. CASE EnterWindow2 BY <2>1 DEF EnterWindow2
  <2>2. CASE WorkerOpen BY <2>2 DEF WorkerOpen
  <2>3. CASE WorkerCheck BY <2>3 DEF WorkerCheck, CommitAllowed
  <2>4. CASE WorkerCommit BY <2>4 DEF WorkerCommit
  <2>5. CASE ClearMarker BY <2>5 DEF ClearMarker
  <2> QED BY <1>1, <2>1, <2>2, <2>3, <2>4, <2>5 DEF WorkerNext
<1>2. CASE BootSupNext
  <2>1. CASE BootSupOpen BY <2>1 DEF BootSupOpen
  <2>2. CASE BootSupRecover BY <2>2 DEF BootSupRecover
  <2>3. CASE BootSupClose BY <2>3 DEF BootSupClose
  <2> QED BY <1>2, <2>1, <2>2, <2>3 DEF BootSupNext
<1>3. ASSUME NEW h \in Helpers, HelperNext(h) PROVE IInv'
  <2>1. CASE HelperOpen(h) BY <2>1 DEF HelperOpen
  <2>2. CASE HelperLook(h) BY <2>2 DEF HelperLook
  <2>3. CASE TakeRunner(h) BY <2>3 DEF TakeRunner
  <2>4. CASE HelperRelock(h) BY <2>4 DEF HelperRelock
  <2>5. CASE HelperRecheck(h) BY <2>5 DEF HelperRecheck
  <2>6. CASE HelperBegin(h) BY <2>6 DEF HelperBegin, Required
  <2>7. CASE HelperPublishStarted(h) BY <2>7 DEF HelperPublishStarted
  <2>8. CASE HelperRelease(h) BY <2>8 DEF HelperRelease
  <2>9. CASE RollbackWorker(h) BY <2>9 DEF RollbackWorker
  <2>10. CASE TakeDeploy(h) BY <2>10 DEF TakeDeploy
  <2>11. CASE RollbackSupervisor(h) BY <2>11 DEF RollbackSupervisor
  <2>12. CASE HelperFails(h) BY <2>12 DEF HelperFails
  <2>13. CASE HelperRelock2(h) BY <2>13 DEF HelperRelock2
  <2>14. CASE HelperFinish(h) BY <2>14 DEF HelperFinish
  <2>15. CASE HelperPublishFinal(h) BY <2>15 DEF HelperPublishFinal
  <2>16. CASE HelperClose(h) BY <2>16 DEF HelperClose
  <2> QED BY <1>3, <2>1, <2>2, <2>3, <2>4, <2>5, <2>6, <2>7, <2>8, <2>9, <2>10, <2>11,
             <2>12, <2>13, <2>14, <2>15, <2>16 DEF HelperNext
<1>4. ASSUME NEW h \in Helpers, HelperTimeout(h) PROVE IInv'
  BY <1>4 DEF HelperTimeout
<1>5. ASSUME NEW p \in Procs, Crash(p) PROVE IInv'
  <2>1. CASE p = Worker BY <1>5, <2>1 DEF Crash, Live
  <2>2. CASE p = BootSup BY <1>5, <2>2 DEF Crash, Live
  <2>3. CASE p \in Helpers BY <1>5, <2>3 DEF Crash, Live
  <2> QED BY <2>1, <2>2, <2>3
<1>6. CASE PowerLoss BY <1>6 DEF PowerLoss, Live
<1>7. CASE ClockSet BY <1>7 DEF ClockSet
<1>8. CASE UNCHANGED vars BY <1>8 DEF vars
<1> QED BY <1>1, <1>2, <1>3, <1>4, <1>5, <1>6, <1>7, <1>8 DEF Next

\* The inductive invariant holds throughout.
LEMMA Inductive == Spec => []IInv
<1> QED BY InitIInv, StepIInv, PTL DEF Spec

\* Every variable of the helper's protocol stays in its set.
THEOREM TypeCorrect == Spec => []TypeOK
<1>1. IInv => TypeOK BY DEF IInv
<1> QED BY <1>1, Inductive, PTL

\* No helper is past its claim once the worker's commit is recorded.
THEOREM CommitSafe == Spec => []CommitExcludesRecovery
<1>1. IInv => CommitExcludesRecovery
  BY DEF IInv, ClaimDurable, CommitRecorded, CommitExcludesRecovery
<1> QED BY <1>1, Inductive, PTL

\* A helper replaces the supervisor alone, over a dead worker.
THEOREM RestoreSafe == Spec => []ExclusiveRestore
<1>1. IInv => ExclusiveRestore
  BY DEF IInv, TypeOK, LocksHeld, ClaimDurable, ExclusiveRestore, Claimed, RunningAt
<1> QED BY <1>1, Inductive, PTL

\* RESTORED is only ever recorded under, and kept under, the window-2 marker.
THEOREM RestoredSafe == Spec => []RestoredMeansWindow2
<1>1. IInv => RestoredMeansWindow2
  BY DEF IInv, VerdictTrue, RestoredMeansWindow2
<1> QED BY <1>1, Inductive, PTL

\* A clear marker presupposes the worker's commit of the helper's decision.
THEOREM ClearSafe == Spec => []ClearIsCommitted
<1>1. IInv => ClearIsCommitted
  BY DEF IInv, CommitRecorded, ClearIsCommitted
<1> QED BY <1>1, Inductive, PTL

\* A helper that holds a claim, in the terms of the arbiter.
Holding(h) == Claimed(h) \/ pc[h] \in {"publish_started", "settled"}

\* The claimant is the helper that holds the claim, and nobody otherwise.
LEMMA ClaimantIs == IInv => /\ \A h \in Helpers : Holding(h) => claimant = h
                            /\ (\A h \in Helpers : ~Holding(h)) => claimant = NoProc
  BY DEF IInv, LocksHeld, claimant, Holding, Claimed, RunningAt

\* supervisor.result and the runs of the helper implement the arbiter.
THEOREM Implements == Spec => ImplementsArbiter
<1>1. Init => Decision!Init
  BY DEF Init, Decision!Init, claimant, Claimed, Procs
<1>2. IInv /\ IInv' /\ [Next]_vars => [Decision!Next]_(Decision!vars)
  <2> SUFFICES ASSUME IInv, IInv', [Next]_vars
               PROVE [Decision!Next]_(Decision!vars)
    OBVIOUS
  <2> DEFINE After == /\ \A h \in Helpers : Holding(h)' => claimant' = h
                      /\ (\A h \in Helpers : ~Holding(h)') => claimant' = NoProc
  <2>a. After
    BY DEF IInv, LocksHeld, claimant, Holding, Claimed, RunningAt
  <2>b. \A g, h \in Helpers : Holding(g) /\ Holding(h) => g = h
    BY DEF IInv, LocksHeld, Holding, Claimed, RunningAt
  <2> USE <2>a, <2>b, ClaimantIs
      DEF IInv, TypeOK, LocksHeld, ClaimDurable, CommitRecorded, Claimed, Holding,
          Procs, LockedAt, RunningAt, Terminals, Phases, Goto, Dropped,
          Decision!Next, Decision!vars, Decision!Claim, Decision!Begin,
          Decision!Settle, Decision!Release, Decision!Commit
  <2>1. CASE WorkerNext
    <3>1. CASE WorkerCommit BY <3>1 DEF WorkerCommit
    <3>2. CASE EnterWindow2 \/ WorkerOpen \/ WorkerCheck \/ ClearMarker
      BY <3>2 DEF EnterWindow2, WorkerOpen, WorkerCheck, ClearMarker
    <3> QED BY <2>1, <3>1, <3>2 DEF WorkerNext
  <2>2. CASE BootSupNext
    BY <2>2 DEF BootSupNext, BootSupOpen, BootSupRecover, BootSupClose
  <2>3. ASSUME NEW h \in Helpers, HelperNext(h)
        PROVE [Decision!Next]_(Decision!vars)
    <3>1. CASE HelperBegin(h) BY <3>1 DEF HelperBegin, Required
    <3>2. CASE HelperPublishStarted(h) BY <3>2 DEF HelperPublishStarted
    <3>3. CASE HelperPublishFinal(h) BY <3>3 DEF HelperPublishFinal
    <3>4. CASE HelperFinish(h) BY <3>4 DEF HelperFinish
    <3>5. CASE HelperClose(h) BY <3>5 DEF HelperClose
    <3>6. CASE \/ HelperOpen(h) \/ HelperLook(h) \/ TakeRunner(h) \/ HelperRelock(h)
               \/ HelperRecheck(h)
      BY <3>6 DEF HelperOpen, HelperLook, TakeRunner, HelperRelock, HelperRecheck
    <3>7. CASE \/ HelperRelease(h) \/ RollbackWorker(h) \/ TakeDeploy(h)
               \/ RollbackSupervisor(h) \/ HelperFails(h) \/ HelperRelock2(h)
      BY <3>7 DEF HelperRelease, RollbackWorker, TakeDeploy, RollbackSupervisor,
                  HelperFails, HelperRelock2
    <3> QED BY <2>3, <3>1, <3>2, <3>3, <3>4, <3>5, <3>6, <3>7 DEF HelperNext
  <2>4. ASSUME NEW h \in Helpers, HelperTimeout(h) PROVE [Decision!Next]_(Decision!vars)
    BY <2>4 DEF HelperTimeout
  <2>5. ASSUME NEW p \in Procs, Crash(p) PROVE [Decision!Next]_(Decision!vars)
    BY <2>5 DEF Crash, Live
  <2>6. CASE PowerLoss BY <2>6 DEF PowerLoss, Live
  <2>7. CASE ClockSet BY <2>7 DEF ClockSet
  <2>8. CASE UNCHANGED vars BY <2>8 DEF vars
  <2> QED BY <2>1, <2>2, <2>3, <2>4, <2>5, <2>6, <2>7, <2>8 DEF Next
<1> QED BY <1>1, <1>2, Inductive, PTL DEF Spec, ImplementsArbiter, Decision!Spec
=============================================================================
