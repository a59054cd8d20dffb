-------------------------- MODULE RecoveryDecision --------------------------
(***************************************************************************)
(* The supervisor decision of one update operation: tools/l4common/        *)
(* recovery_store.c and recovery_plan.c, driven by the update worker       *)
(* (remote_completion.c, remote_restore.c), by the frozen helper           *)
(* (tools/l4rollback/src/execute.c), started by the scheduler at the       *)
(* deadline and at every boot, and by the restarted supervisor that keeps  *)
(* the helper away (communication_boot.c).                                 *)
(*                                                                         *)
(* Locks: supervisor.decision.lock (mutex) around the result file,         *)
(* supervisor.runner.lock (runner) for one executor at a time, and         *)
(* deployment.lock (deploy), which the worker holds through its journal.   *)
(* Unlike the communication decision, the runner lock is taken without the *)
(* mutex, so the helper has to look at the decision a second time.         *)
(***************************************************************************)
EXTENDS Naturals, FiniteSets

CONSTANTS Worker,       \* the update worker
          Helpers,      \* runs of l4rollback
          BootHelpers,  \* the runs that were given --boot
          BootSup,      \* a supervisor restarted in window 1
          NoProc,       \* nobody
          Armed, Deadline, MaxUtc,
          MaxSettle     \* bound on the settlements one worker attempts

ASSUME RecoveryAssumption ==
    /\ BootHelpers \subseteq Helpers
    /\ Worker \notin Helpers /\ BootSup \notin Helpers /\ NoProc \notin Helpers
    /\ Worker # BootSup /\ Worker # NoProc /\ BootSup # NoProc
    /\ Armed \in Nat /\ Deadline \in Nat /\ MaxUtc \in Nat /\ MaxSettle \in Nat
    /\ Armed < Deadline /\ Deadline <= MaxUtc

Procs == Helpers \cup {Worker, BootSup}

VARIABLES marker,    \* window of update.state
          result,    \* phase in supervisor.result ("wait": no file)
          mutex, runner, deploy,  \* lock holders
          pc,        \* where each process is
          verdict,   \* the phase each helper is about to publish
          attempts,  \* settlements the worker has opened
          utc        \* wall clock

vars == <<marker, result, mutex, runner, deploy, pc, verdict, attempts, utc>>

Terminals == {"restored", "failed"}
Phases == {"wait", "started", "committed"} \cup Terminals
\* "early": clear before the operation, or window 1; "clear": after it.
Markers == {"early", "window2", "clear"}

WorkerSteps == {"idle", "check", "commit", "won", "lost", "dead"}
BootSteps == {"unborn", "watching", "recovering", "dead"}
HelperSteps == {"idle", "look", "want_runner", "relock", "recheck", "begin",
                "publish_started", "claimed", "terminate", "want_deploy",
                "restore", "relock2", "finish", "publish_final",
                "settled", "close", "done", "dead"}

Goto(p, step) == pc' = [pc EXCEPT ![p] = step]
\* An idle helper is one the scheduler has not started yet.
Live(p) == /\ pc[p] \notin {"unborn", "done", "dead"}
           /\ p \in Helpers => pc[p] # "idle"
Dropped(lock, p) == IF lock = p THEN NoProc ELSE lock

Init == /\ marker = "early"
        /\ result = "wait"
        /\ mutex = NoProc /\ runner = NoProc
        /\ deploy = Worker
        /\ pc = [p \in Procs |-> IF p = BootSup THEN "unborn" ELSE "idle"]
        /\ verdict = [h \in Helpers |-> "failed"]
        /\ attempts = 0
        /\ utc \in Armed .. MaxUtc

-----------------------------------------------------------------------------
(* l4_recovery_decide.                                                     *)

Required(h) == \/ result = "started"
               \/ result = "wait" /\ (h \in BootHelpers \/ utc >= Deadline)

-----------------------------------------------------------------------------
(* The worker.                                                             *)

\* Window 2 is published; the communication pair is already settled.
EnterWindow2 == /\ pc[Worker] = "idle"
                /\ marker = "early"
                /\ marker' = "window2"
                /\ UNCHANGED <<result, mutex, runner, deploy, pc, verdict, attempts, utc>>

\* l4_recovery_open by settle_recovery (completion) or recovery (restore).
WorkerOpen == /\ pc[Worker] \in {"idle", "lost", "won"}
              /\ marker # "clear"
              /\ attempts < MaxSettle
              /\ mutex = NoProc
              /\ mutex' = Worker
              /\ attempts' = attempts + 1
              /\ Goto(Worker, "check")
              /\ UNCHANGED <<marker, result, runner, deploy, verdict, utc>>

\* Mutant: only a settled recovery refuses the commit.
CommitAllowed_Started == /\ result \in {"wait", "started"}
                         /\ Armed <= utc /\ utc < Deadline

\* What l4_recovery_finish demands of COMMITTED.
CommitAllowed == result = "wait" /\ Armed <= utc /\ utc < Deadline

WorkerCheck == /\ pc[Worker] = "check"
               /\ \/ result = "committed" /\ Goto(Worker, "won") /\ mutex' = NoProc
                  \/ CommitAllowed /\ Goto(Worker, "commit") /\ UNCHANGED mutex
                  \/ /\ result # "committed" /\ ~CommitAllowed
                     /\ Goto(Worker, "lost") /\ mutex' = NoProc
               /\ UNCHANGED <<marker, result, runner, deploy, verdict, attempts, utc>>

\* publish(COMMITTED) replaces the file or fails; the guard is closed.
WorkerCommit == /\ pc[Worker] = "commit"
                /\ \/ result' = "committed" /\ Goto(Worker, "won")
                   \/ UNCHANGED result /\ Goto(Worker, "lost")
                /\ mutex' = NoProc
                /\ UNCHANGED <<marker, runner, deploy, verdict, attempts, utc>>

\* The clear marker is published only behind a recorded commit.
ClearMarker == /\ pc[Worker] = "won"
               /\ marker # "clear"
               /\ marker' = "clear"
               /\ UNCHANGED <<result, mutex, runner, deploy, pc, verdict, attempts, utc>>

-----------------------------------------------------------------------------
(* The restarted supervisor in window 1: it takes the helper's runner lock *)
(* without waiting, holds it through its own recovery and never writes     *)
(* supervisor.result.                                                      *)

BootSupOpen == /\ pc[BootSup] = "unborn"
               /\ marker = "early"
               /\ Armed <= utc /\ utc < Deadline
               /\ runner = NoProc
               /\ runner' = BootSup
               /\ Goto(BootSup, "watching")
               /\ UNCHANGED <<marker, result, mutex, deploy, verdict, attempts, utc>>

\* The worker's Job is gone, and the journal with deployment.lock is opened.
BootSupRecover == /\ pc[BootSup] = "watching"
                  /\ marker = "early"
                  /\ deploy \in {NoProc, Worker}
                  /\ pc' = [pc EXCEPT ![BootSup] = "recovering", ![Worker] = "dead"]
                  /\ deploy' = BootSup
                  /\ mutex' = Dropped(mutex, Worker)
                  /\ UNCHANGED <<marker, result, runner, verdict, attempts, utc>>

BootSupClose == /\ pc[BootSup] \in {"watching", "recovering"}
                /\ Goto(BootSup, "dead")
                /\ runner' = Dropped(runner, BootSup)
                /\ deploy' = Dropped(deploy, BootSup)
                /\ UNCHANGED <<marker, result, mutex, verdict, attempts, utc>>

-----------------------------------------------------------------------------
(* One run of rollback_execute.                                            *)

HelperOpen(h) == /\ pc[h] = "idle"
                 /\ mutex = NoProc
                 /\ mutex' = h
                 /\ Goto(h, "look")
                 /\ UNCHANGED <<marker, result, runner, deploy, verdict, attempts, utc>>

\* DONE and WAIT end the run, a clock before armed_utc and BLOCKED fail it;
\* the decision lock is given back before the runner lock is waited for.
HelperLook(h) == /\ pc[h] = "look"
                 /\ \/ Required(h) /\ Goto(h, "want_runner") /\ mutex' = NoProc
                    \/ ~Required(h) /\ Goto(h, "close") /\ UNCHANGED mutex
                 /\ UNCHANGED <<marker, result, runner, deploy, verdict, attempts, utc>>

\* rollback_runner: the exclusive open is retried until the lock is free.
TakeRunner(h) == /\ pc[h] = "want_runner"
                 /\ runner = NoProc
                 /\ runner' = h
                 /\ Goto(h, "relock")
                 /\ UNCHANGED <<marker, result, mutex, deploy, verdict, attempts, utc>>

\* Mutant: the decision is not looked at again under the runner lock.
HelperRelock_NoRecheck(h) == /\ pc[h] = "relock"
                             /\ mutex \in {NoProc, h}
                             /\ mutex' = h
                             /\ Goto(h, IF result = "wait" THEN "publish_started" ELSE "claimed")
                             /\ UNCHANGED <<marker, result, runner, deploy, verdict, attempts, utc>>

HelperRelock(h) == /\ pc[h] = "relock"
                   /\ mutex = NoProc
                   /\ mutex' = h
                   /\ Goto(h, "recheck")
                   /\ UNCHANGED <<marker, result, runner, deploy, verdict, attempts, utc>>

\* The second l4_recovery_action: another executor or the worker may have
\* settled the operation while this run waited.
HelperRecheck(h) == /\ pc[h] = "recheck"
                    /\ Goto(h, IF Required(h) THEN "begin" ELSE "close")
                    /\ UNCHANGED <<marker, result, mutex, runner, deploy, verdict, attempts, utc>>

\* l4_recovery_begin decides once more, with its own look at the clock.
HelperBegin(h) ==
    /\ pc[h] = "begin"
    /\ Goto(h, IF ~Required(h) THEN "close"
               ELSE IF result = "started" THEN "claimed" ELSE "publish_started")
    /\ UNCHANGED <<marker, result, mutex, runner, deploy, verdict, attempts, utc>>

HelperPublishStarted(h) ==
    /\ pc[h] = "publish_started"
    /\ \/ result' = "started" /\ Goto(h, "claimed")
       \/ UNCHANGED result /\ Goto(h, "close")
    /\ UNCHANGED <<marker, mutex, runner, deploy, verdict, attempts, utc>>

HelperRelease(h) == /\ pc[h] = "claimed"
                    /\ mutex' = NoProc
                    /\ Goto(h, "terminate")
                    /\ UNCHANGED <<marker, result, runner, deploy, verdict, attempts, utc>>

\* rollback_worker: the Job is terminated and its last exit observed.
RollbackWorker(h) == /\ pc[h] = "terminate"
                     /\ pc' = [pc EXCEPT ![h] = "want_deploy", ![Worker] = "dead"]
                     /\ mutex' = Dropped(mutex, Worker)
                     /\ deploy' = Dropped(deploy, Worker)
                     /\ UNCHANGED <<marker, result, runner, verdict, attempts, utc>>

TakeDeploy(h) == /\ pc[h] = "want_deploy"
                 /\ deploy = NoProc
                 /\ deploy' = h
                 /\ Goto(h, "restore")
                 /\ UNCHANGED <<marker, result, mutex, runner, verdict, attempts, utc>>

\* Mutant: the supervisor is restored whatever window the marker shows.
RollbackSupervisor_AnyWindow(h) ==
    /\ pc[h] = "restore"
    /\ verdict' = [verdict EXCEPT ![h] = "restored"]
    /\ Goto(h, "relock2")
    /\ UNCHANGED <<marker, result, mutex, runner, deploy, attempts, utc>>

\* rollback_supervisor: it succeeds only under the window-2 marker, unchanged
\* from its first step to its last.
RollbackSupervisor(h) ==
    /\ pc[h] = "restore"
    /\ marker = "window2"
    /\ verdict' = [verdict EXCEPT ![h] = "restored"]
    /\ Goto(h, "relock2")
    /\ UNCHANGED <<marker, result, mutex, runner, deploy, attempts, utc>>

\* Any step after the claim fails, the whole budget running out included:
\* FAILED will be recorded.
HelperFails(h) == /\ pc[h] \in {"terminate", "want_deploy", "restore"}
                  /\ verdict' = [verdict EXCEPT ![h] = "failed"]
                  /\ Goto(h, "relock2")
                  /\ UNCHANGED <<marker, result, mutex, runner, deploy, attempts, utc>>

HelperRelock2(h) == /\ pc[h] = "relock2"
                    /\ mutex = NoProc
                    /\ mutex' = h
                    /\ Goto(h, "finish")
                    /\ UNCHANGED <<marker, result, runner, deploy, verdict, attempts, utc>>

\* l4_recovery_finish(RESTORED or FAILED) wants STARTED, or the very phase.
HelperFinish(h) == /\ pc[h] = "finish"
                   /\ Goto(h, IF result = "started" THEN "publish_final" ELSE "close")
                   /\ UNCHANGED <<marker, result, mutex, runner, deploy, verdict, attempts, utc>>

HelperPublishFinal(h) == /\ pc[h] = "publish_final"
                         /\ result' \in {verdict[h], result}
                         /\ Goto(h, "settled")
                         /\ UNCHANGED <<marker, mutex, runner, deploy, verdict, attempts, utc>>

HelperClose(h) == /\ pc[h] \in {"settled", "close"}
                  /\ mutex' = Dropped(mutex, h)
                  /\ runner' = Dropped(runner, h)
                  /\ deploy' = Dropped(deploy, h)
                  /\ Goto(h, "done")
                  /\ UNCHANGED <<marker, result, verdict, attempts, utc>>

\* A bounded wait for any of the three locks ran out.
HelperTimeout(h) == /\ \/ pc[h] = "idle" /\ mutex # NoProc
                       \/ pc[h] = "want_runner" /\ runner # NoProc
                       \/ pc[h] \in {"relock", "relock2"} /\ mutex # NoProc
                    /\ Goto(h, "close")
                    /\ UNCHANGED <<marker, result, mutex, runner, deploy, verdict, attempts, utc>>

-----------------------------------------------------------------------------
(* The environment.                                                        *)

Crash(p) == /\ Live(p)
            /\ Goto(p, "dead")
            /\ mutex' = Dropped(mutex, p)
            /\ runner' = Dropped(runner, p)
            /\ deploy' = Dropped(deploy, p)
            /\ UNCHANGED <<marker, result, verdict, attempts, utc>>

PowerLoss == /\ \E p \in Procs : Live(p)
             /\ pc' = [p \in Procs |-> IF Live(p) THEN "dead" ELSE pc[p]]
             /\ mutex' = NoProc /\ runner' = NoProc /\ deploy' = NoProc
             /\ UNCHANGED <<marker, result, verdict, attempts, utc>>

ClockSet == /\ utc' \in 0 .. MaxUtc
            /\ UNCHANGED <<marker, result, mutex, runner, deploy, pc, verdict, attempts>>

WorkerNext == \/ EnterWindow2 \/ WorkerOpen \/ WorkerCheck \/ WorkerCommit
              \/ ClearMarker

BootSupNext == BootSupOpen \/ BootSupRecover \/ BootSupClose

HelperNext(h) == \/ HelperOpen(h) \/ HelperLook(h) \/ TakeRunner(h)
                 \/ HelperRelock(h) \/ HelperRecheck(h) \/ HelperBegin(h)
                 \/ HelperPublishStarted(h) \/ HelperRelease(h)
                 \/ RollbackWorker(h) \/ TakeDeploy(h)
                 \/ RollbackSupervisor(h) \/ HelperFails(h)
                 \/ HelperRelock2(h) \/ HelperFinish(h)
                 \/ HelperPublishFinal(h) \/ HelperClose(h)

Next == \/ WorkerNext
        \/ BootSupNext
        \/ \E h \in Helpers : HelperNext(h) \/ HelperTimeout(h)
        \/ \E p \in Procs : Crash(p)
        \/ PowerLoss
        \/ ClockSet

Spec == Init /\ [][Next]_vars

-----------------------------------------------------------------------------
(* Properties.                                                             *)

\* Every variable stays in its set.
TypeOK == /\ marker \in Markers
          /\ result \in Phases
          /\ mutex \in Helpers \cup {Worker, NoProc}
          /\ runner \in Helpers \cup {BootSup, NoProc}
          /\ deploy \in Procs \cup {NoProc}
          /\ pc \in [Procs -> WorkerSteps \cup BootSteps \cup HelperSteps]
          /\ pc[Worker] \in WorkerSteps
          /\ pc[BootSup] \in BootSteps
          /\ \A h \in Helpers : pc[h] \in HelperSteps
          /\ verdict \in [Helpers -> Terminals]
          /\ attempts \in 0 .. MaxSettle
          /\ utc \in 0 .. MaxUtc

\* Past the claim a helper may terminate the worker and replace L4Superv.
Claimed(h) == pc[h] \in {"claimed", "terminate", "want_deploy", "restore", "relock2",
                         "finish", "publish_final"}

\* Once COMMITTED is recorded, or the worker acted on it, no helper is past its
\* claim: one that was already waiting for the runner lock sees it and leaves
\* (rollback_execute against settle_recovery).
CommitExcludesRecovery ==
    (result = "committed" \/ pc[Worker] = "won" \/ marker = "clear") =>
        \A h \in Helpers : ~Claimed(h)

\* While a helper replaces the supervisor, the worker is dead, nobody else can
\* change services, and STARTED survives a power loss
\* (rollback_execute, runner and deployment locks).
ExclusiveRestore ==
    \A h \in Helpers : pc[h] = "restore" =>
        /\ pc[Worker] = "dead"
        /\ pc[BootSup] # "recovering"
        /\ result = "started"
        /\ \A g \in Helpers \ {h} : ~Claimed(g)

\* RESTORED is a statement about window 2 and stays true: the marker a helper
\* restored under is never changed by anybody afterwards.
RestoredMeansWindow2 == result = "restored" => marker = "window2"

\* The clear marker is never published over an operation that a helper may
\* still claim.
ClearIsCommitted == marker = "clear" => result = "committed"

\* The claim is the run that found the recovery required under both locks.
claimant == IF \E h \in Helpers : Claimed(h) \/ pc[h] \in {"publish_started", "settled"}
            THEN runner ELSE NoProc

\* The helper's protocol implements the same arbiter as the communication
\* decision, although its claim is made without holding the mutex throughout.
Decision == INSTANCE Arbiter WITH Recoverers <- Helpers, Terminals <- Terminals,
                                  NoProc <- NoProc, decision <- result, claimant <- claimant
ImplementsArbiter == Decision!Spec

=============================================================================
