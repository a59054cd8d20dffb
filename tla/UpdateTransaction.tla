-------------------------- MODULE UpdateTransaction --------------------------
(***************************************************************************)
(* One update operation from the publication of window 1 to the cleared    *)
(* marker: the update worker (tools/l4setup/src/remote_executor.c and the  *)
(* transaction, completion and restore modules it drives), the supervisor  *)
(* that recovers the communication pair (tools/l4common/communication_     *)
(* runtime.c, communication_recovery.c, communication_boot.c) and the      *)
(* frozen helper that recovers the supervisor (tools/l4rollback).          *)
(*                                                                         *)
(* The two decision files are taken from module Arbiter, which modules     *)
(* CommunicationDecision and RecoveryDecision implement.  Their clocks may *)
(* be set to anything, so a deadline test passes or fails here at any      *)
(* time; likewise every probe, wait and native call may fail.  A journal   *)
(* that fails to append is poisoned: nothing more can be recorded, which   *)
(* is what the death of the worker at that point looks like.               *)
(***************************************************************************)
EXTENDS Naturals, Sequences, FiniteSets

CONSTANTS Worker, Watchdog,  \* the update worker; the supervisor of the plan
          Boots,             \* supervisors started after Watchdog is gone
          Helpers,           \* runs of l4rollback
          NoProc,
          Faults,            \* may a process die alone, a decision file fail?
          MaxLoss            \* bound on power losses

Sups == Boots \cup {Watchdog}
Recoverers == Sups \cup Helpers

ASSUME TransactionAssumption ==
    /\ Watchdog \notin Boots
    /\ Sups \cap Helpers = {}
    /\ Worker \notin Recoverers /\ NoProc \notin Recoverers /\ Worker # NoProc
    /\ Faults \in BOOLEAN /\ MaxLoss \in Nat

Services == {"proxy", "broker", "con", "superv"}
Groups == {"broker.cfg", "superv.cfg", "rest.cfg"}

VARIABLES svc, cfg,          \* the terminal: services and settings files
          marker, wal,       \* update.state; the last intent in the journal
          cdec, cclaim,      \* communication.result and who claims it
          hdec, hclaim,      \* supervisor.result and who claims it
          hold,              \* boot supervisor with supervisor.runner.lock
          deploy,            \* holder of deployment.lock
          wpc, at, pending,  \* the worker: place, step of its plan, open intent
          attempted, retried,  \* settlement_attempted; completion tried twice
          proof, outcome,    \* journal records 102 or 108, and 103
          pc, step,          \* the recoverers: place and step of their plans
          losses

world == <<svc, cfg>>
marks == <<marker, wal>>
link == <<cdec, cclaim>>
help == <<hdec, hclaim>>
locks == <<hold, deploy>>
work == <<wpc, at, pending>>
tries == <<attempted, retried>>
report == <<proof, outcome>>
recs == <<pc, step>>
vars == <<world, marks, link, help, locks, work, tries, report, recs, losses>>

Link == INSTANCE Arbiter WITH Recoverers <- Sups, NoProc <- NoProc,
            Terminals <- {"restored", "unconfirmed", "failed"},
            decision <- cdec, claimant <- cclaim
Help == INSTANCE Arbiter WITH Recoverers <- Helpers, NoProc <- NoProc,
            Terminals <- {"restored", "failed"}, decision <- hdec, claimant <- hclaim

-----------------------------------------------------------------------------
(* The terminal.                                                           *)

OldPhases == {"stopped_old", "running_old"}
NewPhases == {"stopped_new", "running_new"}
ServicePhases == OldPhases \cup NewPhases

\* What stop, switch (forwards or back) and start do to a service.
Stopped(p) == IF p \in OldPhases THEN "stopped_old" ELSE "stopped_new"
Started(p) == IF p \in OldPhases THEN "running_old" ELSE "running_new"
After(op, p) == CASE op = "stop" -> Stopped(p)
                  [] op = "forward" -> "stopped_new"
                  [] op = "switch" -> "stopped_old"
                  [] op = "start" -> Started(p)

\* The phase from which setup_service_transaction_execute does an action, and
\* the phases from which setup_service_transaction_restore does it.
Ready(op) == CASE op = "stop" -> {"running_old"}
               [] op = "forward" -> {"stopped_old"}
               [] op = "start" -> {"stopped_new"}
ReadyBack(op) == CASE op = "stop" -> {"stopped_old", "stopped_new", "running_new"}
                   [] op = "switch" -> {"stopped_old", "stopped_new"}
                   [] op = "start" -> {"stopped_old"}

AllNew == /\ \A s \in Services : svc[s] = "running_new"
          /\ \A g \in Groups : cfg[g] = "new"
AllOld == /\ \A s \in Services : svc[s] = "running_old"
          /\ \A g \in Groups : cfg[g] = "old"

\* execute and pair_service: the order of the forward steps.
Forward == << <<"stop", "proxy">>, <<"forward", "proxy">>, <<"start", "proxy">>,
              <<"stop", "broker">>, <<"config", "broker.cfg">>,
              <<"forward", "broker">>, <<"start", "broker">>,
              <<"link_done", "">>, <<"window2", "">>,
              <<"stop", "con">>, <<"forward", "con">>, <<"start", "con">>,
              <<"stop", "superv">>, <<"config", "superv.cfg">>,
              <<"forward", "superv">>, <<"start", "superv">>,
              <<"config", "rest.cfg">>, <<"finish", "">> >>
\* rollback: the order of the restore steps; the last one goes over every file.
Back == << <<"stop", "proxy">>, <<"switch", "proxy">>, <<"start", "proxy">>,
           <<"stop", "broker">>, <<"config", "broker.cfg">>,
           <<"switch", "broker">>, <<"start", "broker">>,
           <<"stop", "con">>, <<"switch", "con">>, <<"start", "con">>,
           <<"stop", "superv">>, <<"config", "superv.cfg">>,
           <<"switch", "superv">>, <<"start", "superv">>, <<"configs", "">> >>
\* Where rollback goes on after a service it finds running the old image.
Skip == [proxy |-> 4, broker |-> 8, con |-> 11, superv |-> 15]
\* l4_communication_recover and rollback_supervisor.
LinkPlan == << <<"stop", "proxy">>, <<"switch", "proxy">>, <<"start", "proxy">>,
               <<"stop", "broker">>, <<"config", "broker.cfg">>,
               <<"switch", "broker">>, <<"start", "broker">>, <<"barrier", "">> >>
HelperPlan == << <<"stop", "superv">>, <<"config", "superv.cfg">>,
                 <<"switch", "superv">>, <<"start", "superv">>, <<"barrier", "">> >>

Windows == {"window1", "window2"}
NoStep == <<"none", "">>
WorkerPlaces == {"prepare", "forward", "native", "back", "restore", "settle_link",
                 "settle_helper", "prove", "report_back", "clear_back", "finish",
                 "seal", "report", "clear", "unfinished", "failed", "dead"}
RecovererPlaces == {"unborn", "idle", "claim", "kill", "lock", "mutate", "good",
                    "unconfirmed", "bad", "release", "dead"}
Live(p) == pc[p] \notin {"unborn", "dead"} /\ (p \in Helpers => pc[p] # "idle")
Free(lock, p) == IF lock = p THEN NoProc ELSE lock
Goto(p, place) == pc' = [pc EXCEPT ![p] = place]

Init == /\ svc = [s \in Services |-> "running_old"]
        /\ cfg = [g \in Groups |-> "old"]
        /\ marker = "before" /\ wal = "before"
        /\ cdec = "wait" /\ cclaim = NoProc /\ hdec = "wait" /\ hclaim = NoProc
        /\ hold = NoProc /\ deploy = Worker
        /\ wpc = "prepare" /\ at = 1 /\ pending = NoStep
        /\ attempted = FALSE /\ retried = FALSE
        /\ proof = "none" /\ outcome = "none"
        /\ pc = [p \in Recoverers |-> IF p \in Boots THEN "unborn" ELSE "idle"]
        /\ step = [p \in Recoverers |-> 1]
        /\ losses = 0

-----------------------------------------------------------------------------
(* The worker going forward.                                               *)

\* l4_update_state_publish of window 1: the intent, then the file.  Without
\* the file the operation has not begun and the worker leaves.
PublishWindow1 ==
    /\ wpc = "prepare"
    /\ wal' = "window1"
    /\ \/ marker' = "window1" /\ wpc' = "forward" /\ UNCHANGED locks
       \/ /\ wpc' = "dead" /\ deploy' = NoProc
          /\ UNCHANGED <<marker, hold>>
    /\ UNCHANGED <<world, link, help, at, pending, tries, report, recs, losses>>

\* The window the worker believes in (e.state) at each step.
Window == IF at <= 9 THEN "window1" ELSE "window2"

\* l4_worker_recheck_active: the marker is the last one the journal announced,
\* and under its lock the supervisor decision is still open.
Checked == /\ marker \in Windows
           /\ wal = marker
           /\ hdec = "wait" /\ hclaim = NoProc

\* Steps that execute and pair_service take without a checkpoint before them.
Unchecked == {<<"start", "broker">>, <<"forward", "superv">>, <<"start", "superv">>}

\* The intent record (100 for a service, 21 for a file), behind its tests.
Intend == /\ wpc = "forward"
          /\ Forward[at][1] \in {"stop", "forward", "start", "config"}
          /\ Forward[at] \in Unchecked \/ Checked
          /\ marker = Window
          /\ Forward[at][1] # "config" => svc[Forward[at][2]] \in Ready(Forward[at][1])
          /\ pending' = Forward[at] /\ wpc' = "native"
          /\ UNCHANGED <<world, marks, link, help, locks, at, tries, report, recs, losses>>

\* The native change and its completion record (101 or 22).  Nobody's
\* decision is looked at here: what the intent was checked against may be
\* stale.  A failure leaves the change done, half done, or not done, and the
\* intent open unless the completion record was written.
Native ==
    /\ wpc = "native"
    /\ \/ /\ pending[1] = "config"
          /\ \E v \in {"part", "new"} :
                /\ cfg' = [cfg EXCEPT ![pending[2]] = v]
                /\ \/ v = "new" /\ pending' = NoStep /\ at' = at + 1 /\ wpc' = "forward"
                   \/ pending' \in {pending, NoStep} /\ wpc' = "back" /\ UNCHANGED at
          /\ UNCHANGED svc
       \/ /\ pending[1] # "config"
          /\ svc' = [svc EXCEPT ![pending[2]] = After(pending[1], @)]
          /\ \/ pending' = NoStep /\ at' = at + 1 /\ wpc' = "forward"
             \/ pending' \in {pending, NoStep} /\ wpc' = "back" /\ UNCHANGED at
          /\ UNCHANGED cfg
       \/ wpc' = "back" /\ UNCHANGED <<world, at, pending>>
    /\ UNCHANGED <<marks, link, help, locks, tries, report, recs, losses>>

\* A checkpoint, a probe or a budget failed.
ForwardFails == /\ wpc = "forward"
                /\ wpc' = "back"
                /\ UNCHANGED <<world, marks, link, help, locks, at, pending, tries, report,
                               recs, losses>>

\* link_done: COMMITTED is recorded, or was.
LinkDone == /\ wpc = "forward" /\ Forward[at][1] = "link_done"
            /\ marker = "window1"
            /\ \/ cdec = "committed" /\ UNCHANGED link
               \/ Link!Commit
            /\ at' = at + 1
            /\ UNCHANGED <<world, marks, help, locks, wpc, pending, tries, report, recs,
                           losses>>

\* l4_update_state_publish of window 2.  If the file is not replaced, the
\* journal already announces it and no later recheck can pass.
PublishWindow2 == /\ wpc = "forward" /\ Forward[at][1] = "window2"
                  /\ marker = "window1"
                  /\ wal' = "window2"
                  /\ \/ marker' = "window2" /\ at' = at + 1 /\ UNCHANGED wpc
                     \/ wpc' = "back" /\ UNCHANGED <<marker, at>>
                  /\ UNCHANGED <<world, link, help, locks, pending, tries, report, recs,
                                 losses>>

-----------------------------------------------------------------------------
(* setup_remote_completion_finish, tried at most twice.                    *)

FinishBegins == /\ wpc = "forward" /\ Forward[at][1] = "finish"
                /\ Checked
                /\ wpc' = "finish"
                /\ UNCHANGED <<world, marks, link, help, locks, at, pending, tries, report,
                               recs, losses>>

\* Mutant: success is sealed without winning the helper's decision.
FinishSettle_Unsettled == /\ wpc = "finish"
                          /\ marker = "window2" /\ AllNew /\ cdec = "committed"
                          /\ attempted' = TRUE /\ wpc' = "seal"
                          /\ UNCHANGED <<world, marks, link, help, locks, at, pending,
                                         retried, report, recs, losses>>

\* commit: everything runs the target, the pair is settled, and then the
\* helper decision must be won before the receipt is written.
FinishSettle == /\ wpc = "finish"
                /\ marker = "window2"
                /\ AllNew /\ pending = NoStep
                /\ cdec = "committed"
                /\ attempted' = TRUE
                /\ \/ hdec = "committed" /\ wpc' = "seal" /\ UNCHANGED help
                   \/ Help!Commit /\ wpc' = "seal"
                   \/ wpc' = "unfinished" /\ UNCHANGED help
                /\ UNCHANGED <<world, marks, link, locks, at, pending, retried, report,
                               recs, losses>>

\* Record 102; a second try finds its own.
Seal == /\ wpc = "seal"
        /\ proof' = "commit" /\ wpc' = "report"
        /\ UNCHANGED <<world, marks, link, help, locks, at, pending, tries, outcome, recs,
                       losses>>

\* Record 103 SUCCESS; a second try finds its own.
ReportSuccess == /\ wpc = "report"
                 /\ outcome' = "success" /\ wpc' = "clear"
                 /\ UNCHANGED <<world, marks, link, help, locks, at, pending, tries, proof,
                                recs, losses>>

\* Terminal, settled recovery and marker are compared once more, then the
\* clear marker is published: intent, file.
ClearSuccess == /\ wpc = "clear"
                /\ AllNew /\ cdec = "committed" /\ hdec = "committed"
                /\ wal' = "clear"
                /\ \/ marker' = "clear" /\ wpc' = "dead" /\ deploy' = NoProc /\ UNCHANGED hold
                   \/ wpc' = "unfinished" /\ UNCHANGED <<marker, locks>>
                /\ UNCHANGED <<world, link, help, at, pending, tries, report, recs, losses>>

FinishFails == /\ wpc \in {"finish", "seal", "report", "clear"}
               /\ wpc' = "unfinished"
               /\ UNCHANGED <<world, marks, link, help, locks, at, pending, tries, report,
                              recs, losses>>

\* One retry, if the budget has any left.  After that a terminal record ends
\* the run, a settlement that may have been published forbids the rollback.
Unfinished ==
    /\ wpc = "unfinished"
    /\ \/ ~retried /\ retried' = TRUE /\ wpc' = "finish" /\ UNCHANGED locks
       \/ /\ proof # "none"
          /\ wpc' = "dead" /\ deploy' = NoProc /\ UNCHANGED <<retried, hold>>
       \/ proof = "none" /\ attempted /\ wpc' = "failed" /\ UNCHANGED <<retried, locks>>
       \/ proof = "none" /\ ~attempted /\ wpc' = "back" /\ UNCHANGED <<retried, locks>>
    /\ UNCHANGED <<world, marks, link, help, at, pending, attempted, report, recs, losses>>

-----------------------------------------------------------------------------
(* The worker going back: rollback and setup_remote_restore_finish.        *)

\* The open intent is abandoned (106 or 107) under the helper's lock.
Abandon == /\ wpc = "back"
           /\ pending # NoStep => Checked
           /\ pending' = NoStep
           /\ wpc' = "restore" /\ at' = 1
           /\ UNCHANGED <<world, marks, link, help, locks, tries, report, recs, losses>>

\* setup_service_transaction_restore: 104, the native change, 105.  The helper
\* cannot claim in between, because its decision lock is held.
RestoreService ==
    /\ wpc = "restore" /\ Back[at][1] \in {"stop", "switch", "start"}
    /\ Checked
    /\ \/ /\ Back[at][1] = "stop" /\ svc[Back[at][2]] = "running_old"
          /\ at' = Skip[Back[at][2]]
          /\ UNCHANGED <<svc, wpc>>
       \/ /\ svc[Back[at][2]] \in ReadyBack(Back[at][1])
          /\ svc' = [svc EXCEPT ![Back[at][2]] = After(Back[at][1], @)]
          /\ \/ at' = at + 1 /\ UNCHANGED wpc
             \/ wpc' = "failed" /\ UNCHANGED at
    /\ UNCHANGED <<cfg, marks, link, help, locks, pending, tries, report, recs, losses>>

\* l4_config_rollback, without a look at any decision.
RestoreConfig == /\ wpc = "restore" /\ Back[at][1] = "config"
                 /\ \/ /\ cfg' = [cfg EXCEPT ![Back[at][2]] = "old"]
                       /\ at' = at + 1 /\ UNCHANGED wpc
                    \/ /\ cfg' = [cfg EXCEPT ![Back[at][2]] = IF @ = "old" THEN @ ELSE "part"]
                       /\ wpc' = "failed" /\ UNCHANGED at
                 /\ UNCHANGED <<svc, marks, link, help, locks, pending, tries, report, recs,
                                losses>>

\* Every file is verified or rolled back.
RestoreConfigs == /\ wpc = "restore" /\ Back[at][1] = "configs"
                  /\ \/ cfg' = [g \in Groups |-> "old"] /\ wpc' = "settle_link"
                     \/ wpc' = "failed" /\ UNCHANGED cfg
                  /\ UNCHANGED <<svc, marks, link, help, locks, at, pending, tries, report,
                                 recs, losses>>

\* setup_remote_restore_finish: the terminal is the old one; then both
\* decisions are settled, the communication decision first.
SettleLink == /\ wpc = "settle_link"
              /\ AllOld /\ Checked
              /\ \/ cdec = "committed" /\ UNCHANGED link
                 \/ marker = "window1" /\ Link!Commit
              /\ wpc' = "settle_helper"
              /\ UNCHANGED <<world, marks, help, locks, at, pending, tries, report, recs,
                             losses>>

SettleHelper == /\ wpc = "settle_helper"
                /\ \/ hdec = "committed" /\ UNCHANGED help
                   \/ Help!Commit
                /\ wpc' = "prove"
                /\ UNCHANGED <<world, marks, link, locks, at, pending, tries, report, recs,
                               losses>>

\* Record 108, behind one more comparison of the terminal.
Prove == /\ wpc = "prove"
         /\ AllOld
         /\ proof' = "restore" /\ wpc' = "report_back"
         /\ UNCHANGED <<world, marks, link, help, locks, at, pending, tries, outcome, recs,
                        losses>>

\* Record 103 RESTORED.
ReportRestored == /\ wpc = "report_back"
                  /\ outcome' = "restored" /\ wpc' = "clear_back"
                  /\ UNCHANGED <<world, marks, link, help, locks, at, pending, tries, proof,
                                 recs, losses>>

ClearRestored == /\ wpc = "clear_back"
                 /\ AllOld /\ cdec = "committed" /\ hdec = "committed"
                 /\ wal' = "clear"
                 /\ \/ marker' = "clear" /\ wpc' = "dead" /\ deploy' = NoProc /\ UNCHANGED hold
                    \/ wpc' = "failed" /\ UNCHANGED <<marker, locks>>
                 /\ UNCHANGED <<world, link, help, at, pending, tries, report, recs, losses>>

RestoreFails == /\ wpc \in {"back", "restore", "settle_link", "settle_helper", "prove",
                            "report_back", "clear_back"}
                /\ wpc' = "failed"
                /\ UNCHANGED <<world, marks, link, help, locks, at, pending, tries, report,
                               recs, losses>>

\* Mutant: an earlier outcome is overwritten.
ReportRequired_Overwrites == /\ wpc = "failed"
                             /\ outcome' = "required"
                             /\ wpc' = "dead" /\ deploy' = NoProc
                             /\ UNCHANGED <<world, marks, link, help, hold, at, pending,
                                            tries, proof, recs, losses>>

\* 103 RECOVERY_REQUIRED, which append_bound refuses behind a proof; the
\* worker exits and its journal, with deployment.lock, is closed.
ReportRequired == /\ wpc = "failed"
                  /\ outcome' = IF proof = "none" /\ outcome = "none"
                                THEN "required" ELSE outcome
                  /\ wpc' = "dead" /\ deploy' = NoProc
                  /\ UNCHANGED <<world, marks, link, help, hold, at, pending, tries, proof,
                                 recs, losses>>

-----------------------------------------------------------------------------
(* What both recoverers do.                                                *)

\* Mutant: the worker is not waited for.
Kill_NoWait(p) == /\ pc[p] = "kill"
                  /\ deploy' = Free(deploy, Worker)
                  /\ Goto(p, "lock")
                  /\ UNCHANGED <<world, marks, link, help, hold, work, tries, report, step,
                                 losses>>

\* The worker's Job is terminated and its last exit observed.
Kill(p) == /\ pc[p] = "kill"
           /\ wpc' = "dead" /\ deploy' = Free(deploy, Worker)
           /\ Goto(p, "lock")
           /\ UNCHANGED <<world, marks, link, help, hold, at, pending, tries, report, step,
                          losses>>

Lock(p, window) == /\ pc[p] = "lock"
                   /\ marker = window
                   /\ deploy = NoProc
                   /\ deploy' = p
                   /\ step' = [step EXCEPT ![p] = 1]
                   /\ Goto(p, "mutate")
                   /\ UNCHANGED <<world, marks, link, help, hold, work, tries, report, losses>>

\* One step of a recovery plan; a failed one may have had its effect.
Mutate(p, plan, window) ==
    LET op == plan[step[p]][1]
        on == plan[step[p]][2]
    IN /\ pc[p] = "mutate"
       /\ marker = window
       /\ \/ /\ op = "config"
             /\ cfg' = [cfg EXCEPT ![on] = "old"]
             /\ UNCHANGED svc
          \/ /\ op \in {"stop", "switch", "start"}
             /\ svc' = [svc EXCEPT ![on] = After(op, @)]
             /\ UNCHANGED cfg
       /\ \/ step' = [step EXCEPT ![p] = @ + 1] /\ UNCHANGED pc
          \/ Goto(p, "bad") /\ UNCHANGED step
       /\ UNCHANGED <<marks, link, help, locks, work, tries, report, losses>>

\* A failure without effect, a timeout, or a marker that is not the expected one.
Fails(p) == /\ pc[p] \in {"kill", "lock", "mutate"}
            /\ Goto(p, "bad")
            /\ UNCHANGED <<world, marks, link, help, locks, work, tries, report, step, losses>>

\* A group of files rolled back in part.
FailsInFiles(p, plan) == /\ pc[p] = "mutate" /\ plan[step[p]][1] = "config"
                         /\ cfg[plan[step[p]][2]] = "new"
                         /\ cfg' = [cfg EXCEPT ![plan[step[p]][2]] = "part"]
                         /\ Goto(p, "bad")
                         /\ UNCHANGED <<svc, marks, link, help, locks, work, tries, report,
                                        step, losses>>

-----------------------------------------------------------------------------
(* The supervisor: l4_communication_execute and its boot form.             *)

\* l4_communication_boot_open: the original supervisor is gone, and the
\* helper's runner lock is taken without waiting and kept.
BootStart(r) == /\ pc[r] = "unborn"
                /\ marker = "window1"
                /\ \A q \in Sups : ~Live(q)
                /\ hold = NoProc /\ hclaim = NoProc
                /\ hold' = r
                /\ Goto(r, "idle")
                /\ UNCHANGED <<world, marks, link, help, deploy, work, tries, report, step,
                               losses>>

\* The helper's boot run has that lock.  A supervisor process looks once, at
\* its start (startup_reconcile), so this one will not recover the pair.
BootRefused(r) == /\ pc[r] = "unborn"
                  /\ marker = "window1"
                  /\ \A q \in Sups : ~Live(q)
                  /\ hclaim # NoProc
                  /\ Goto(r, "dead")
                  /\ UNCHANGED <<world, marks, link, help, locks, work, tries, report, step,
                                 losses>>

LinkClaim(r) == /\ pc[r] = "idle"
                /\ marker = "window1"
                /\ Link!Claim(r)
                /\ Goto(r, "claim")
                /\ UNCHANGED <<world, marks, help, locks, work, tries, report, step, losses>>

LinkBegin(r) == /\ pc[r] = "claim"
                /\ \/ Link!Begin(r) /\ Goto(r, "kill")
                   \/ cdec = "started" /\ Goto(r, "kill") /\ UNCHANGED link
                   \/ Faults /\ Goto(r, "release") /\ UNCHANGED link
                /\ UNCHANGED <<world, marks, help, locks, work, tries, report, step, losses>>

\* Mutant: the barrier does not ask whether every step was done.
LinkBarrier_AnyStep(r) == /\ pc[r] = "mutate"
                          /\ marker = "window1"
                          /\ \E v \in {"good", "unconfirmed"} : Goto(r, v)
                          /\ UNCHANGED <<world, marks, link, help, locks, work, tries,
                                         report, step, losses>>

\* Probes of the restored pair, fresh round trips and the settings files.
LinkBarrier(r) == /\ pc[r] = "mutate" /\ LinkPlan[step[r]][1] = "barrier"
                  /\ marker = "window1"
                  /\ \E v \in {"good", "unconfirmed"} : Goto(r, v)
                  /\ UNCHANGED <<world, marks, link, help, locks, work, tries, report, step,
                                 losses>>

\* deployment.lock is given back, then the verdict is published, or it is not.
LinkFinish(r) == /\ pc[r] \in {"good", "unconfirmed", "bad"}
                 /\ deploy' = Free(deploy, r)
                 /\ \/ /\ Link!Settle(r)
                       /\ cdec' = CASE pc[r] = "good" -> "restored"
                                    [] pc[r] = "unconfirmed" -> "unconfirmed"
                                    [] OTHER -> "failed"
                    \/ Faults /\ UNCHANGED link
                 /\ Goto(r, "release")
                 /\ UNCHANGED <<world, marks, help, hold, work, tries, report, step, losses>>

LinkRelease(r) == /\ pc[r] = "release"
                  /\ cclaim' = Free(cclaim, r) /\ hold' = Free(hold, r)
                  /\ Goto(r, "dead")
                  /\ UNCHANGED <<world, marks, cdec, help, deploy, work, tries, report,
                                 step, losses>>

\* A supervisor that has nothing to claim closes its permit.
BootLeaves(r) == /\ pc[r] = "idle" /\ hold = r
                 /\ marker # "window1" \/ cdec \notin {"wait", "started"}
                 /\ Goto(r, "release")
                 /\ UNCHANGED <<world, marks, link, help, locks, work, tries, report, step,
                                losses>>

-----------------------------------------------------------------------------
(* The helper: rollback_execute and rollback_supervisor.                   *)

HelperClaim(h) == /\ pc[h] = "idle"
                  /\ hold = NoProc
                  /\ Help!Claim(h)
                  /\ Goto(h, "claim")
                  /\ UNCHANGED <<world, marks, link, locks, work, tries, report, step, losses>>

HelperBegin(h) == /\ pc[h] = "claim"
                  /\ \/ Help!Begin(h) /\ Goto(h, "kill")
                     \/ hdec = "started" /\ Goto(h, "kill") /\ UNCHANGED help
                     \/ Faults /\ Goto(h, "release") /\ UNCHANGED help
                  /\ UNCHANGED <<world, marks, link, locks, work, tries, report, step, losses>>

\* The new supervisor process answers, and the marker is the one it began with.
HelperBarrier(h) == /\ pc[h] = "mutate" /\ HelperPlan[step[h]][1] = "barrier"
                    /\ marker = "window2"
                    /\ Goto(h, "good")
                    /\ UNCHANGED <<world, marks, link, help, locks, work, tries, report,
                                   step, losses>>

HelperFinish(h) == /\ pc[h] \in {"good", "bad"}
                   /\ \/ /\ Help!Settle(h)
                         /\ hdec' = IF pc[h] = "good" THEN "restored" ELSE "failed"
                      \/ Faults /\ UNCHANGED help
                   /\ Goto(h, "release")
                   /\ UNCHANGED <<world, marks, link, locks, work, tries, report, step,
                                  losses>>

HelperRelease(h) == /\ pc[h] = "release"
                    /\ hclaim' = Free(hclaim, h) /\ deploy' = Free(deploy, h)
                    /\ Goto(h, "dead")
                    /\ UNCHANGED <<world, marks, link, hdec, hold, work, tries, report,
                                   step, losses>>

-----------------------------------------------------------------------------
(* The environment.                                                        *)

WorkerDies == /\ Faults /\ wpc # "dead"
              /\ wpc' = "dead" /\ deploy' = Free(deploy, Worker)
              /\ UNCHANGED <<world, marks, link, help, hold, at, pending, tries, report,
                             recs, losses>>

Dies(p) == /\ Faults /\ Live(p)
           /\ Goto(p, "dead")
           /\ cclaim' = Free(cclaim, p) /\ hclaim' = Free(hclaim, p)
           /\ hold' = Free(hold, p) /\ deploy' = Free(deploy, p)
           /\ UNCHANGED <<world, marks, cdec, hdec, work, tries, report, step, losses>>

\* Every process is gone; all four services are automatic and start again.
PowerLoss == /\ losses < MaxLoss
             /\ losses' = losses + 1
             /\ svc' = [s \in Services |-> Started(svc[s])]
             /\ wpc' = "dead"
             /\ pc' = [p \in Recoverers |-> IF Live(p) THEN "dead" ELSE pc[p]]
             /\ cclaim' = NoProc /\ hclaim' = NoProc /\ hold' = NoProc /\ deploy' = NoProc
             /\ UNCHANGED <<cfg, marks, cdec, hdec, at, pending, tries, report, step>>

WorkerNext == \/ PublishWindow1 \/ Intend \/ Native \/ ForwardFails \/ LinkDone
              \/ PublishWindow2 \/ FinishBegins \/ FinishSettle \/ Seal
              \/ ReportSuccess \/ ClearSuccess \/ FinishFails \/ Unfinished
              \/ Abandon \/ RestoreService \/ RestoreConfig \/ RestoreConfigs
              \/ SettleLink \/ SettleHelper \/ Prove \/ ReportRestored
              \/ ClearRestored \/ RestoreFails \/ ReportRequired

SupNext(r) == \/ BootStart(r) \/ BootRefused(r) \/ LinkClaim(r) \/ LinkBegin(r) \/ Kill(r)
              \/ Lock(r, "window1") \/ Mutate(r, LinkPlan, "window1")
              \/ LinkBarrier(r) \/ Fails(r) \/ FailsInFiles(r, LinkPlan) \/ LinkFinish(r) \/ LinkRelease(r)
              \/ BootLeaves(r)

HelperNext(h) == \/ HelperClaim(h) \/ HelperBegin(h) \/ Kill(h)
                 \/ Lock(h, "window2") \/ Mutate(h, HelperPlan, "window2")
                 \/ HelperBarrier(h) \/ Fails(h) \/ FailsInFiles(h, HelperPlan) \/ HelperFinish(h) \/ HelperRelease(h)

Next == \/ WorkerNext
        \/ \E r \in Sups : SupNext(r)
        \/ \E h \in Helpers : HelperNext(h)
        \/ WorkerDies \/ PowerLoss
        \/ \E p \in Recoverers : Dies(p)

Spec == Init /\ [][Next]_vars

\* The scheduler starts the helper at the deadline and at every boot, and a
\* process that is not killed goes on.  Nothing is assumed of the worker.
FairSpec == /\ Spec
            /\ \A r \in Sups : WF_vars(SupNext(r))
            /\ \A h \in Helpers : WF_vars(HelperNext(h))

-----------------------------------------------------------------------------
(* Properties.                                                             *)

\* Every variable stays in its set.
TypeOK == /\ svc \in [Services -> ServicePhases]
          /\ cfg \in [Groups -> {"old", "part", "new"}]
          /\ marker \in {"before", "clear"} \cup Windows
          /\ wal \in {"before", "clear"} \cup Windows
          /\ cdec \in {"wait", "started", "committed", "restored", "unconfirmed", "failed"}
          /\ hdec \in {"wait", "started", "committed", "restored", "failed"}
          /\ cclaim \in Sups \cup {NoProc} /\ hclaim \in Helpers \cup {NoProc}
          /\ hold \in Sups \cup {NoProc} /\ deploy \in Recoverers \cup {Worker, NoProc}
          /\ wpc \in WorkerPlaces /\ at \in 1 .. 18
          /\ pending \in {NoStep} \cup {Forward[i] : i \in 1 .. 17}
          /\ attempted \in BOOLEAN /\ retried \in BOOLEAN
          /\ proof \in {"none", "commit", "restore"}
          /\ outcome \in {"none", "success", "restored", "required"}
          /\ pc \in [Recoverers -> RecovererPlaces]
          /\ step \in [Recoverers -> 1 .. 8]
          /\ losses \in 0 .. MaxLoss

\* What was reported is what the terminal runs, from the moment it is recorded
\* and through every later crash and recovery attempt
\* (setup_remote_outcome_append_bound behind settle_recovery).
OutcomeHonest == /\ outcome = "success" => \A s \in Services : svc[s] \in NewPhases
                 /\ outcome = "restored" => \A s \in Services : svc[s] \in OldPhases

\* A pair recorded RESTORED by a supervisor stays on the old images and files:
\* neither the worker nor the helper touches it any more
\* (l4_communication_recover).
RestoredPairStays ==
    cdec = "restored" => /\ svc["proxy"] = "running_old" /\ svc["broker"] = "running_old"
                         /\ cfg["broker.cfg"] = "old"

\* The same for the supervisor and its settings (rollback_supervisor).
RestoredSupervisorStays ==
    hdec = "restored" => svc["superv"] = "running_old" /\ cfg["superv.cfg"] = "old"

\* The supervisor that watches the pair is never stopped while the pair may
\* still need it: in window 1 neither direction of the worker touches L4Con
\* or L4Superv (observe, rollback's VERIFY of an unchanged service).
WatchdogKept == marker = "window1" => /\ svc["con"] = "running_old"
                                      /\ svc["superv"] = "running_old"
                                      /\ cfg["superv.cfg"] = "old"

\* At most one process changes services and files, and a recoverer only after
\* the worker is gone (deployment.lock, the Job of the worker).
OneMutator == \A p \in Recoverers : pc[p] = "mutate" =>
                 /\ wpc = "dead"
                 /\ \A q \in Recoverers \ {p} : pc[q] # "mutate"

\* The terminal as the rest of the system sees it.
Version(p) == IF p \in Groups THEN cfg[p] ELSE IF svc[p] \in OldPhases THEN "old" ELSE "new"
phase == CASE marker = "before" -> "idle" [] marker = "clear" -> "closed" [] OTHER -> "open"
Update == INSTANCE AtomicUpdate WITH Parts <- Services \cup Groups, phase <- phase,
              version <- [p \in Services \cup Groups |-> Version(p)], outcome <- outcome

\* The operation is atomic to everyone who respects the marker: it is cleared
\* only over a whole old or a whole new terminal that is reported as such, and
\* nothing changes afterwards (remote_completion.c, remote_restore.c).
ImplementsAtomicUpdate == Update!Spec

\* "After boot it finds the unfinished marker and performs the same rollback"
\* (docs/term_arch-l4update-flow.md, of L4Superv): a pair that was abandoned in
\* window 1 gets a verdict.
BootRestoresPair == (marker = "window1" /\ wpc = "dead" /\ cdec \in {"wait", "started"})
                        ~> cdec \notin {"wait", "started"}

=============================================================================
