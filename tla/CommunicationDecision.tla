----------------------- MODULE CommunicationDecision -----------------------
(***************************************************************************)
(* The communication decision of one update operation:                     *)
(* tools/l4common/communication_store.c, with the callers that drive it    *)
(* (link_done and remote_restore.c in the worker, communication_runtime.c  *)
(* in the supervisor).                                                     *)
(*                                                                         *)
(* Three files carry it: communication.decision.lock, a byte-range mutex   *)
(* held only while the result is read or replaced; communication.runner.   *)
(* lock, held by the supervisor for the whole recovery; and communication. *)
(* result, replaced atomically.  The operating system drops both locks of  *)
(* a process that dies.  A lookup of the result, the tests on it and the   *)
(* replacement are separate steps here, because a process can die, and the *)
(* clock can move, between any two of them.                                *)
(*                                                                         *)
(* The wall clock is arbitrary: ClockSet may move it to any value, forward *)
(* or back.  The safety properties do not rest on it.                      *)
(***************************************************************************)
EXTENDS Naturals, FiniteSets

CONSTANTS Worker,     \* the update worker (l4setup)
          Watchdog,   \* the supervisor process the plan names
          Boots,      \* supervisor processes started after Watchdog died
          NoProc,     \* nobody
          Armed,      \* armed_utc of the plan
          Deadline,   \* deadline_utc of the plan
          MaxUtc      \* bound on the wall clock

ASSUME DecisionAssumption ==
    /\ Watchdog \notin Boots
    /\ Worker \notin Boots \cup {Watchdog}
    /\ NoProc \notin Boots \cup {Worker, Watchdog}
    /\ Armed \in Nat /\ Deadline \in Nat /\ MaxUtc \in Nat
    /\ Armed < Deadline /\ Deadline <= MaxUtc

Supervisors == Boots \cup {Watchdog}
Procs == Supervisors \cup {Worker}

VARIABLES marker,   \* update.state as the plan sees it
          result,   \* phase in communication.result ("wait": no file)
          mutex,    \* holder of communication.decision.lock
          runner,   \* holder of communication.runner.lock
          pc,       \* where each process is
          verdict,  \* the phase each supervisor is about to publish
          utc       \* wall clock

vars == <<marker, result, mutex, runner, pc, verdict, utc>>

Terminals == {"restored", "unconfirmed", "failed"}
Phases == {"wait", "started", "committed"} \cup Terminals

\* "before": clear, one generation before the plan; "window1": exactly the
\* plan's owner, generation, sequence and deadline; "past": any later state.
Markers == {"before", "window1", "past"}

\* Steps taken with the decision mutex held.
LockedAt == {"check", "commit", "begin", "publish_started", "claimed",
             "finish", "publish_final", "close"}
\* Steps taken with the runner lock held.
RunningAt == {"publish_started", "claimed", "recover", "exclusive", "relock",
              "finish", "publish_final"}
WorkerSteps == {"idle", "ready", "check", "commit", "won", "lost", "dead"}
SupervisorSteps == {"unborn", "idle", "begin", "publish_started", "claimed",
                    "recover", "exclusive", "relock", "finish",
                    "publish_final", "close", "done", "dead"}

Live(p) == pc[p] \notin {"unborn", "dead"}

Goto(p, step) == pc' = [pc EXCEPT ![p] = step]

Init == /\ marker = "before"
        /\ result = "wait"
        /\ mutex = NoProc
        /\ runner = NoProc
        /\ pc = [p \in Procs |-> IF p \in Boots THEN "unborn" ELSE "idle"]
        /\ verdict = [p \in Supervisors |-> "failed"]
        /\ utc \in Armed .. MaxUtc

-----------------------------------------------------------------------------
(* The worker.                                                             *)

\* l4_update_state_publish of window 1: the deadline must be in the future.
PublishWindow1 == /\ pc[Worker] = "idle"
                  /\ marker = "before"
                  /\ utc < Deadline
                  /\ marker' = "window1"
                  /\ Goto(Worker, "ready")
                  /\ UNCHANGED <<result, mutex, runner, verdict, utc>>

\* l4_communication_decision_open by the worker; a refused settlement may be
\* tried again on the way back (remote_restore.c settles the same decision).
WorkerOpen == /\ pc[Worker] \in {"ready", "lost"}
              /\ mutex = NoProc
              /\ mutex' = Worker
              /\ Goto(Worker, "check")
              /\ UNCHANGED <<marker, result, runner, verdict, utc>>

\* The bounded wait for the mutex ran out.
WorkerOpenTimeout == /\ pc[Worker] = "ready"
                     /\ mutex # NoProc
                     /\ Goto(Worker, "lost")
                     /\ UNCHANGED <<marker, result, mutex, runner, verdict, utc>>

\* Mutant: the recorded phase is not looked at.
CommitAllowed_AnyPhase == /\ marker = "window1"
                          /\ Armed <= utc /\ utc < Deadline

\* What l4_communication_decision_finish demands of COMMITTED.
CommitAllowed == /\ result = "wait"
                 /\ marker = "window1"
                 /\ Armed <= utc /\ utc < Deadline

\* An equal phase is an idempotent success, marker or not; otherwise the
\* tests pass and the worker goes on to replace the file, or it is refused.
WorkerCheck == /\ pc[Worker] = "check"
               /\ \/ result = "committed" /\ Goto(Worker, "won") /\ mutex' = NoProc
                  \/ CommitAllowed /\ Goto(Worker, "commit") /\ UNCHANGED mutex
                  \/ /\ result # "committed" /\ ~CommitAllowed
                     /\ Goto(Worker, "lost") /\ mutex' = NoProc
               /\ UNCHANGED <<marker, result, runner, verdict, utc>>

\* decision_publish(COMMITTED): the replacement happens or fails.
WorkerCommit == /\ pc[Worker] = "commit"
                /\ \/ result' = "committed" /\ Goto(Worker, "won")
                   \/ UNCHANGED result /\ Goto(Worker, "lost")
                /\ mutex' = NoProc
                /\ UNCHANGED <<marker, runner, verdict, utc>>

\* Mutant: the outcome of the settlement is ignored.
LeaveWindow1_Unsettled == /\ pc[Worker] \in {"won", "lost"}
                          /\ marker = "window1"
                          /\ marker' = "past"
                          /\ UNCHANGED <<result, mutex, runner, pc, verdict, utc>>

\* The worker leaves window 1 (to window 2, or to clear after a verified
\* restore) only with its own commit recorded.
LeaveWindow1 == /\ pc[Worker] = "won"
                /\ marker = "window1"
                /\ marker' = "past"
                /\ UNCHANGED <<result, mutex, runner, pc, verdict, utc>>

-----------------------------------------------------------------------------
(* A supervisor: the watchdog the plan names, or a restarted one.           *)

\* SCM restarts L4Superv after its process is gone; one process at a time.
BootStart(b) == /\ pc[b] = "unborn"
                /\ \A s \in Supervisors : ~Live(s)
                /\ Goto(b, "idle")
                /\ UNCHANGED <<marker, result, mutex, runner, verdict, utc>>

SupervisorOpen(p) == /\ pc[p] = "idle"
                     /\ mutex = NoProc
                     /\ mutex' = p
                     /\ Goto(p, "begin")
                     /\ UNCHANGED <<marker, result, runner, verdict, utc>>

\* Mutant: a recorded decision does not stop a claim.
BeginAllowed_AnyPhase(p) == /\ marker = "window1"
                            /\ p \in Boots \/ utc >= Deadline
                            /\ runner = NoProc

\* What l4_communication_decision_begin demands.
BeginAllowed(p) == /\ marker = "window1"
                   /\ result = "wait" \/ (result = "started" /\ p \in Boots)
                   /\ p \in Boots \/ utc >= Deadline
                   /\ runner = NoProc

\* A recorded STARTED is kept by a boot recovery, otherwise it is published.
SupervisorBegin(p) ==
    /\ pc[p] = "begin"
    /\ \/ /\ BeginAllowed(p)
          /\ runner' = p
          /\ Goto(p, IF result = "started" THEN "claimed" ELSE "publish_started")
       \/ /\ ~BeginAllowed(p)
          /\ Goto(p, "close")
          /\ UNCHANGED runner
    /\ UNCHANGED <<marker, result, mutex, verdict, utc>>

\* decision_publish(STARTED); its failure gives the runner lock back.
PublishStarted(p) ==
    /\ pc[p] = "publish_started"
    /\ \/ result' = "started" /\ Goto(p, "claimed") /\ UNCHANGED runner
       \/ UNCHANGED result /\ Goto(p, "close") /\ runner' = NoProc
    /\ UNCHANGED <<marker, mutex, verdict, utc>>

\* The mutex is not held while services are stopped, restored and probed.
ReleaseMutex(p) == /\ pc[p] = "claimed"
                   /\ mutex' = NoProc
                   /\ Goto(p, "recover")
                   /\ UNCHANGED <<marker, result, runner, verdict, utc>>

\* Mutant: the Job is not waited for.
WorkerExit_NoWait(p) == /\ pc[p] = "recover"
                        /\ Goto(p, "exclusive")
                        /\ UNCHANGED <<marker, result, mutex, runner, verdict, utc>>

\* l4_communication_worker_exit: the worker's Job is terminated and its exit
\* observed before the first service is touched; the system drops its locks.
WorkerExit(p) ==
    /\ pc[p] = "recover"
    /\ pc' = [pc EXCEPT ![p] = "exclusive", ![Worker] = "dead"]
    /\ mutex' = IF mutex = Worker THEN NoProc ELSE mutex
    /\ UNCHANGED <<marker, result, runner, verdict, utc>>

\* The recovery ends: verified, unconfirmed at the final barrier, or failed at
\* some step; before the worker's exit is observed it can only fail.
RecoveryEnds(p) ==
    /\ pc[p] \in {"recover", "exclusive"}
    /\ \E t \in Terminals :
          /\ pc[p] = "recover" => t = "failed"
          /\ verdict' = [verdict EXCEPT ![p] = t]
    /\ Goto(p, "relock")
    /\ UNCHANGED <<marker, result, mutex, runner, utc>>

\* l4_communication_decision_relock within what is left of the budget.
Relock(p) == /\ pc[p] = "relock"
             /\ mutex = NoProc
             /\ mutex' = p
             /\ Goto(p, "finish")
             /\ UNCHANGED <<marker, result, runner, verdict, utc>>

\* The budget ran out first: no terminal phase is ever published by this run.
RelockTimeout(p) == /\ pc[p] = "relock"
                    /\ Goto(p, "done")
                    /\ runner' = NoProc
                    /\ UNCHANGED <<marker, result, mutex, verdict, utc>>

\* What l4_communication_decision_finish demands of the other phases; the
\* caller holds the runner lock (d->running) at this point.
SettleAllowed(p) == marker = "window1" /\ result = "started" /\ runner = p

SupervisorFinish(p) ==
    /\ pc[p] = "finish"
    /\ \/ SettleAllowed(p) /\ Goto(p, "publish_final")
       \/ ~SettleAllowed(p) /\ Goto(p, "close")
    /\ UNCHANGED <<marker, result, mutex, runner, verdict, utc>>

PublishFinal(p) ==
    /\ pc[p] = "publish_final"
    /\ \/ result' = verdict[p]
       \/ UNCHANGED result
    /\ Goto(p, "close")
    /\ UNCHANGED <<marker, mutex, runner, verdict, utc>>

\* l4_communication_decision_close drops whatever is still held.
SupervisorClose(p) == /\ pc[p] = "close"
                      /\ mutex' = NoProc
                      /\ runner' = IF runner = p THEN NoProc ELSE runner
                      /\ Goto(p, "done")
                      /\ UNCHANGED <<marker, result, verdict, utc>>

-----------------------------------------------------------------------------
(* The environment.                                                        *)

\* A process dies; the operating system drops its byte-range locks.
Crash(p) == /\ Live(p)
            /\ Goto(p, "dead")
            /\ mutex' = IF mutex = p THEN NoProc ELSE mutex
            /\ runner' = IF runner = p THEN NoProc ELSE runner
            /\ UNCHANGED <<marker, result, verdict, utc>>

\* Power loss: every process dies at once.
PowerLoss == /\ \E p \in Procs : Live(p)
             /\ pc' = [p \in Procs |-> IF Live(p) THEN "dead" ELSE pc[p]]
             /\ mutex' = NoProc
             /\ runner' = NoProc
             /\ UNCHANGED <<marker, result, verdict, utc>>

ClockSet == /\ utc' \in 0 .. MaxUtc
            /\ UNCHANGED <<marker, result, mutex, runner, pc, verdict>>

WorkerNext == \/ PublishWindow1 \/ WorkerOpen \/ WorkerOpenTimeout
              \/ WorkerCheck \/ WorkerCommit \/ LeaveWindow1

SupervisorNext(p) == \/ SupervisorOpen(p) \/ SupervisorBegin(p)
                     \/ PublishStarted(p) \/ ReleaseMutex(p) \/ WorkerExit(p)
                     \/ RecoveryEnds(p) \/ Relock(p) \/ RelockTimeout(p)
                     \/ SupervisorFinish(p) \/ PublishFinal(p)
                     \/ SupervisorClose(p)

Next == \/ WorkerNext
        \/ \E b \in Boots : BootStart(b)
        \/ \E p \in Supervisors : SupervisorNext(p)
        \/ \E p \in Procs : Crash(p)
        \/ PowerLoss
        \/ ClockSet

Spec == Init /\ [][Next]_vars

-----------------------------------------------------------------------------
(* Properties.                                                             *)

\* Every variable stays in its set.
TypeOK == /\ marker \in Markers
          /\ result \in Phases
          /\ mutex \in Procs \cup {NoProc}
          /\ runner \in Supervisors \cup {NoProc}
          /\ pc \in [Procs -> WorkerSteps \cup SupervisorSteps]
          /\ pc[Worker] \in WorkerSteps
          /\ \A s \in Supervisors : pc[s] \in SupervisorSteps
          /\ verdict \in [Supervisors -> Terminals]
          /\ utc \in 0 .. MaxUtc

\* Past the claim a supervisor may stop, restore and start services.
Recovering(p) == pc[p] \in {"recover", "exclusive", "relock", "finish", "publish_final"}

\* Once the worker was told its commit won, or acted on it, no supervisor is
\* anywhere in its recovery, whatever crashed and however the clock moved
\* (l4_communication_decision_begin against finish(COMMITTED)).
CommitExcludesRecovery ==
    (result = "committed" \/ pc[Worker] = "won" \/ marker = "past") =>
        \A p \in Supervisors : ~Recovering(p)

\* A supervisor that observed the worker's exit is the only one recovering,
\* the worker is dead and can no longer act, and its claim is durable, so a
\* power loss now leaves STARTED for the next boot (communication_runtime.c).
ExclusiveRecovery ==
    \A p \in Supervisors : pc[p] = "exclusive" =>
        /\ pc[Worker] = "dead"
        /\ result = "started"
        /\ marker = "window1"
        /\ \A q \in Supervisors \ {p} : ~Recovering(q)

\* The marker leaves window 1 only behind the worker's commit, so the recovery
\* plan of a later window never races the communication watchdog.
PastWindow1IsCommitted == marker = "past" => result = "committed"

\* The lock-level protocol implements the arbiter: the runner lock is the
\* claim, communication.result is the decision.
Decision == INSTANCE Arbiter WITH Recoverers <- Supervisors, Terminals <- Terminals,
                                  NoProc <- NoProc, decision <- result, claimant <- runner
ImplementsArbiter == Decision!Spec
=============================================================================
