------------------------------ MODULE ConFiles ------------------------------
(***************************************************************************)
(* The file manager of the console agent (l4con): the parent's side of the *)
(* owned child process (fm_process.c), the child's main loop, and the      *)
(* worker thread that runs sessions, listings and transfers                *)
(* (file_manager.c). The parent may end the child between any two steps    *)
(* of the worker: what survives is the disk and what ProcessingBackend     *)
(* (PB) was told.                                                          *)
(*                                                                         *)
(* A lease is a session; an operation is one upload to the terminal. A     *)
(* download changes nothing here and has no operation of its own.          *)
(***************************************************************************)
EXTENDS Integers, FiniteSets

CONSTANTS
  Kinds,             \* the kinds of command in play
  Leases, Ops,       \* positive numbers; receipts are found in the order of their operations
  LeaseTime,         \* what PB grants
  Results,           \* FM_RESULTS, the slots of the result ring
  MaxTime, MaxCommands, MaxFaults, MaxWindows   \* bounds

NoCmd == [kind |-> "none", lease |-> 0, op |-> 0]
Commands == [kind : Kinds \ {"upload"}, lease : Leases, op : {0}] \cup [kind : Kinds \cap {"upload"}, lease : Leases, op : Ops]
Control(c) == c.kind \in {"start", "renew"}

VARIABLES
  connected, child, hlease, hdead,   \* the parent: host.connected, the process, host.lease, host.deadline
  ipc,                               \* the shared mapping
  main,                              \* the child's main loop
  lease, ldead, gen, fpend,          \* fm.lease, fm.deadline, fm.generation, fm.pending with fm.command
  w,                                 \* the worker thread
  disk,                              \* per operation: the partial file, the receipt, the published file
  pb,                                \* PB: end of each lease (0: none or stopped), state of each operation
  stopped,                           \* leases whose stop was confirmed
  window, drained,                   \* the update marker; the window the parent called quiet
  now, sent, faults, windows
parent == <<connected, child, hlease, hdead>>
session == <<lease, ldead, gen, fpend>>
bounds == <<sent, faults, windows>>
vars == <<parent, ipc, main, session, w, disk, pb, stopped, window, drained, now, bounds>>

FreshIpc == [pend |-> NoCmd, busy |-> FALSE, quiet |-> 0, ring |-> 0]
FreshMain == [pc |-> "tick", cmd |-> NoCmd]
NoOuter == [pc |-> "idle", cmd |-> NoCmd]
Idle == [pc |-> "idle", cmd |-> NoCmd, match |-> FALSE, gen |-> 0, at |-> 0, ok |-> FALSE, outer |-> NoOuter]

WorkerPcs == {"idle", "background", "list", "ticket", "open", "stage", "receipt", "commit", "rename", "settle", "source", "result", "exit"}
TypeOK ==
  /\ connected \in BOOLEAN /\ child \in {"none", "run", "dying"} /\ hlease \in Leases \cup {0} /\ hdead \in 0..MaxTime
  /\ ipc \in [pend : Commands \cup {NoCmd}, busy : BOOLEAN, quiet : 0..MaxWindows, ring : 0..Results]
  /\ main \in [pc : {"tick", "take", "enqueue", "quiet"}, cmd : Commands \cup {NoCmd}]
  /\ lease \in Leases \cup {0} /\ ldead \in 0..MaxTime /\ gen \in 0..MaxTime /\ fpend \in Commands \cup {NoCmd}
  /\ w.pc \in WorkerPcs /\ w.cmd \in Commands \cup {NoCmd} /\ w.match \in BOOLEAN /\ w.at \in 0..MaxTime /\ w.ok \in BOOLEAN
  /\ w.outer \in [pc : WorkerPcs, cmd : Commands \cup {NoCmd}]
  /\ disk \in [Ops -> [partial : BOOLEAN, receipt : {"none", "open", "done", "failed"}, published : BOOLEAN]]
  /\ pb.end \in [Leases -> 0..MaxTime] /\ pb.state \in [Ops -> {"none", "running", "committing", "completed", "failed", "cancelled"}]
  /\ stopped \subseteq Leases /\ window \in 0..MaxWindows /\ drained \in 0..MaxWindows /\ now \in 0..MaxTime

Init ==
  /\ connected = FALSE /\ child = "none" /\ hlease = 0 /\ hdead = 0
  /\ ipc = FreshIpc /\ main = FreshMain /\ lease = 0 /\ ldead = 0 /\ gen = 0 /\ fpend = NoCmd /\ w = Idle
  /\ disk = [o \in Ops |-> [partial |-> FALSE, receipt |-> "none", published |-> FALSE]]
  /\ pb = [end |-> [l \in Leases |-> 0], state |-> [o \in Ops |-> "none"]]
  /\ stopped = {} /\ window = 0 /\ drained = 0 /\ now = 0 /\ sent = 0 /\ faults = 0 /\ windows = 0

\* api: an answer is heard only to a request that arrived; a request may arrive and nothing be heard
ApiOutcome(arrives, heard) == heard => arrives
\* valid_path and checked_directory: the path and its ancestors are held, or the work is refused
PathChecked == BOOLEAN

-----------------------------------------------------------------------------
(* The parent *)

\* The child's memory is gone with its process
ChildGone == ipc' = FreshIpc /\ main' = FreshMain /\ lease' = 0 /\ ldead' = 0 /\ gen' = 0 /\ fpend' = NoCmd /\ w' = Idle
\* close_child: the Job is terminated; only when the process is seen to end does the parent let go
CloseChild(ends) ==
  /\ ChildGone
  /\ IF ends THEN child' = "none" /\ hlease' = 0 /\ hdead' = 0
             ELSE child' = "dying" /\ UNCHANGED <<hlease, hdead>>
\* Whether the process ends within two seconds; that it does not is a fault
Ends(ends) == IF ends THEN UNCHANGED faults ELSE faults < MaxFaults /\ faults' = faults + 1
\* start_child: never inside a window
StartChild == window = 0 /\ child' = "run" /\ ChildGone /\ UNCHANGED <<hlease, hdead>>
Same == UNCHANGED <<ipc, main, session, w>>

FmConnect ==
  /\ ~connected /\ connected' = TRUE
  /\ IF child = "none" THEN StartChild \/ (UNCHANGED <<child, hlease, hdead>> /\ Same)
                       ELSE UNCHANGED <<child, hlease, hdead>> /\ Same
  /\ UNCHANGED <<disk, pb, stopped, window, drained, now, bounds>>
FmDisconnect(ends) ==
  /\ connected /\ faults < MaxFaults /\ faults' = faults + 1 /\ connected' = FALSE
  /\ IF child = "none" THEN UNCHANGED <<child, hlease, hdead>> /\ Same ELSE CloseChild(ends)
  /\ UNCHANGED <<disk, pb, stopped, window, drained, now, sent, windows>>

\* The lease's deadline as the parent knows it
Overdue == hdead # 0 /\ now >= hdead
\* fm_tick: an old process, no process, a process that ended or is overdue; otherwise one result is taken
FmTick(ends) ==
  /\ connected
  /\ \/ child = "dying" /\ CloseChild(ends) /\ Ends(ends)
     \/ child = "none" /\ StartChild /\ UNCHANGED faults
     \/ child = "run" /\ (Overdue \/ w.pc = "exit") /\ CloseChild(ends) /\ Ends(ends)
     \/ /\ child = "run" /\ ~Overdue /\ w.pc # "exit" /\ UNCHANGED <<child, main, session, w, faults>>
        /\ IF ~ipc.busy /\ ipc.pend = NoCmd THEN hlease' = 0 /\ hdead' = 0 ELSE UNCHANGED <<hlease, hdead>>
        /\ ipc' = [ipc EXCEPT !.ring = IF @ > 0 THEN @ - 1 ELSE 0]
  /\ UNCHANGED <<connected, disk, pb, stopped, window, drained, now, sent, windows>>
\* No heartbeat for five seconds
Stalled(ends) ==
  /\ child = "run" /\ connected /\ faults < MaxFaults /\ faults' = faults + 1 /\ CloseChild(ends)
  /\ UNCHANGED <<connected, disk, pb, stopped, window, drained, now, sent, windows>>

\* PB creates an operation once, and none beside an unfinished one
PbCreates(o) ==
  IF o = 0 THEN UNCHANGED pb
  ELSE /\ pb.state[o] = "none" /\ \A p \in Ops : pb.state[p] \notin {"running", "committing"}
       /\ pb' = [pb EXCEPT !.state[o] = "running"]
\* fm_enqueue, with the refusals of handle_incoming_publish before it; the server has extended the
\* lease it sends a start or a renewal for
FmEnqueue(c) ==
  /\ sent < MaxCommands /\ sent' = sent + 1 /\ child = "run" /\ window = 0
  /\ c.kind # "list" /\ (hlease = 0 \/ hlease = c.lease) /\ (c.kind = "renew" => hlease # 0)
  /\ ipc.pend = NoCmd /\ ipc' = [ipc EXCEPT !.pend = c]
  /\ IF Control(c)
     THEN /\ c.lease \notin stopped /\ now + LeaseTime <= MaxTime
          /\ hlease' = c.lease /\ hdead' = now + LeaseTime
          /\ pb' = [pb EXCEPT !.end[c.lease] = now + LeaseTime]
     ELSE UNCHANGED <<hlease, hdead>> /\ PbCreates(c.op)
  /\ UNCHANGED <<connected, child, main, session, w, disk, stopped, window, drained, now, faults, windows>>
\* fm_navigation with action=list
FmList(c) ==
  /\ c.kind = "list" /\ sent < MaxCommands /\ sent' = sent + 1 /\ child = "run" /\ window = 0
  /\ ipc.pend = NoCmd /\ ipc' = [ipc EXCEPT !.pend = c]
  /\ UNCHANGED <<parent, main, session, w, disk, pb, stopped, window, drained, now, faults, windows>>
\* The child is ended before the answer
StopEnds(ends) == IF child = "none" THEN UNCHANGED <<child, hlease, hdead>> /\ Same ELSE CloseChild(ends)
\* fm_navigation with action=stop: the server has closed the lease, the answer says that the child is gone
FmStop(l, ends) ==
  /\ sent < MaxCommands /\ sent' = sent + 1 /\ child # "dying" /\ connected /\ window = 0
  /\ hlease \in {0, l} /\ StopEnds(ends) /\ Ends(ends)
  /\ pb' = [pb EXCEPT !.end[l] = 0] /\ stopped' = IF ends THEN stopped \cup {l} ELSE stopped
  /\ UNCHANGED <<connected, disk, window, drained, now, windows>>

FmBusy == child = "dying" \/ (child = "run" /\ (ipc.busy \/ ipc.pend # NoCmd \/ ipc.ring > 0))
\* fm_update_quiet
FmQuiet == child = "none" \/ (child = "run" /\ ipc.quiet = window /\ ~FmBusy)
Drain ==
  /\ window # 0 /\ drained # window /\ ~FmBusy /\ FmQuiet /\ drained' = window
  /\ UNCHANGED <<parent, ipc, main, session, w, disk, pb, stopped, window, now, bounds>>

-----------------------------------------------------------------------------
(* The child's main loop *)

AliveNow == lease # 0 /\ now < ldead
\* fm_child_tick: at the deadline the lease and what was queued for it are dropped
ChildTick ==
  /\ child = "run" /\ main.pc = "tick" /\ main' = [main EXCEPT !.pc = "take"]
  /\ IF lease # 0 /\ now >= ldead THEN lease' = 0 /\ ldead' = 0 /\ fpend' = NoCmd /\ gen' = gen + 1
                                  ELSE UNCHANGED session
  /\ UNCHANGED <<parent, ipc, w, disk, pb, stopped, window, drained, now, bounds>>
Processing == w.cmd # NoCmd
MainBusy(c) == c # NoCmd \/ fpend # NoCmd \/ Processing \/ AliveNow
\* The slot is emptied, the heartbeat set, and busy covers the command on its way; alive() may drop the lease
ChildTake ==
  /\ child = "run" /\ main.pc = "take"
  /\ ipc' = [ipc EXCEPT !.pend = NoCmd, !.quiet = 0, !.busy = MainBusy(ipc.pend)]
  /\ main' = [pc |-> IF ipc.pend = NoCmd THEN "quiet" ELSE "enqueue", cmd |-> ipc.pend]
  /\ IF fpend = NoCmd /\ ~Processing /\ ~AliveNow THEN lease' = 0 /\ ldead' = 0 ELSE UNCHANGED <<lease, ldead>>
  /\ UNCHANGED <<parent, gen, fpend, w, disk, pb, stopped, window, drained, now, bounds>>
\* child_result: a free slot; without one the child ends
RingHas(n) == n < Results
\* fm_child_enqueue; a refused command is answered, a refused listing is not
ChildEnqueue ==
  /\ child = "run" /\ main.pc = "enqueue" /\ main' = FreshMain
  /\ IF fpend = NoCmd /\ ~(main.cmd.kind = "start" /\ lease # 0 /\ lease # main.cmd.lease)
     THEN fpend' = main.cmd /\ UNCHANGED <<ipc, w>>
     ELSE /\ UNCHANGED fpend
          /\ IF main.cmd.kind = "list" \/ RingHas(ipc.ring)
             THEN ipc' = [ipc EXCEPT !.ring = IF main.cmd.kind = "list" THEN @ ELSE @ + 1] /\ UNCHANGED w
             ELSE w' = [Idle EXCEPT !.pc = "exit"] /\ UNCHANGED ipc
  /\ UNCHANGED <<parent, lease, ldead, gen, disk, pb, stopped, window, drained, now, bounds>>
BackgroundHeld == w.pc = "background"
\* fm_child_update_quiet, and its result under the mutex
ChildQuiet ==
  /\ child = "run" /\ main.pc = "quiet" /\ main' = FreshMain
  /\ ipc' = [ipc EXCEPT !.quiet = IF ~BackgroundHeld /\ window # 0 /\ fpend = NoCmd /\ ~Processing /\ ~AliveNow
                                     /\ ipc.pend = NoCmd /\ ~ipc.busy
                                  THEN window ELSE 0]
  /\ UNCHANGED <<parent, session, w, disk, pb, stopped, window, drained, now, bounds>>

-----------------------------------------------------------------------------
(* The worker thread *)

\* background_begin: hello and the receipts, with the shared lock, never inside a window
BackgroundBegin ==
  /\ child = "run" /\ w.pc = "idle" /\ window = 0 /\ w' = [w EXCEPT !.pc = "background"]
  /\ UNCHANGED <<parent, ipc, main, session, disk, pb, stopped, window, drained, now, bounds>>
\* PB takes a receipt for an unknown commit, or one that agrees with what it knows
PbReconciles(o, what) == pb.state[o] \in {"committing", what}
Receipts == {o \in Ops : disk[o].receipt # "none"}
\* The first receipt of the directory is looked at, and no other
Head == CHOOSE o \in Receipts : \A p \in Receipts : o <= p
\* A failure is known; a success only when the file is there with the identity of the receipt
Settled(o) == disk[o].receipt = "failed" \/ disk[o].published
Said(o) == IF disk[o].receipt = "failed" THEN "failed" ELSE "completed"
Forget(answered) == answered /\ PbReconciles(Head, Said(Head))
\* reconcile_receipts_at: PB is told the outcome, the receipt goes when PB has answered
BackgroundEnd(arrives, answered) ==
  /\ child = "run" /\ w.pc = "background" /\ w' = Idle /\ ApiOutcome(arrives, answered)
  /\ IF fpend = NoCmd /\ ~AliveNow /\ Receipts # {} /\ Settled(Head)
     THEN /\ pb' = IF arrives /\ PbReconciles(Head, Said(Head)) THEN [pb EXCEPT !.state[Head] = Said(Head)] ELSE pb
          /\ disk' = IF Forget(answered) THEN [disk EXCEPT ![Head].receipt = "none"] ELSE disk
     ELSE UNCHANGED <<pb, disk>>
  /\ UNCHANGED <<parent, ipc, main, session, stopped, window, drained, now, bounds>>

\* The command leaves the queue; session and generation are noted
Begin(c, outer) ==
  [pc |-> IF c.kind = "list" THEN "list" ELSE IF lease # c.lease /\ c.kind # "start" THEN "result" ELSE "ticket",
   cmd |-> c, match |-> lease = c.lease, gen |-> gen, at |-> now, ok |-> FALSE, outer |-> outer]
Take ==
  /\ child = "run" /\ w.pc = "idle" /\ fpend # NoCmd /\ w' = Begin(fpend, NoOuter) /\ fpend' = NoCmd
  /\ UNCHANGED <<parent, ipc, main, lease, ldead, gen, disk, pb, stopped, window, drained, now, bounds>>
\* transfer_alive: a renewal that waits is served inside the transfer
NestedRenew ==
  /\ child = "run" /\ w.pc \in {"stage", "commit", "source"} /\ w.outer = NoOuter /\ fpend.kind = "renew"
  /\ w' = Begin(fpend, [pc |-> w.pc, cmd |-> w.cmd]) /\ fpend' = NoCmd
  /\ UNCHANGED <<parent, ipc, main, lease, ldead, gen, disk, pb, stopped, window, drained, now, bounds>>

\* list_directory and the answer over fmr
List ==
  /\ child = "run" /\ w.pc = "list"
  /\ IF RingHas(ipc.ring) THEN w' = Idle /\ ipc' = [ipc EXCEPT !.ring = @ + 1]
                           ELSE w' = [Idle EXCEPT !.pc = "exit"] /\ UNCHANGED ipc
  /\ UNCHANGED <<parent, main, session, disk, pb, stopped, window, drained, now, bounds>>

\* PB answers a ticket for a live lease and an operation that is not over
PbAllows(c) == pb.end[c.lease] > now /\ (c.op # 0 => pb.state[c.op] = "running")
\* requested_at plus the remaining time PB saw at some time t since
Deadline(c, t) == w.at + (pb.end[c.lease] - t)
Fail == [w EXCEPT !.pc = "result", !.ok = FALSE]
\* execute up to its result: the ticket, and for a session the local lease, if nothing intervened
Ticket(answered, t) ==
  /\ child = "run" /\ w.pc = "ticket" /\ t \in w.at..now
  /\ IF ~(answered /\ PbAllows(w.cmd)) THEN w' = Fail /\ UNCHANGED <<lease, ldead>>
     ELSE IF Control(w.cmd)
          THEN IF gen = w.gen /\ Deadline(w.cmd, t) > now
               THEN lease' = w.cmd.lease /\ ldead' = Deadline(w.cmd, t) /\ w' = [w EXCEPT !.pc = "result", !.ok = TRUE]
               ELSE w' = Fail /\ UNCHANGED <<lease, ldead>>
          ELSE /\ w' = IF AliveNow THEN [w EXCEPT !.pc = IF w.cmd.kind = "upload" THEN "open" ELSE "source"] ELSE Fail
               /\ UNCHANGED <<lease, ldead>>
  /\ UNCHANGED <<parent, ipc, main, gen, fpend, disk, pb, stopped, window, drained, now, bounds>>

Op == w.cmd.op
To(pc) == w' = [w EXCEPT !.pc = pc]
Failed == w' = [w EXCEPT !.pc = "settle", !.ok = FALSE]
TransferFrame == UNCHANGED <<parent, ipc, main, session, stopped, window, drained, now, bounds>>
\* The target must not exist, the partial file is created new
Open(ok) ==
  /\ child = "run" /\ w.pc = "open"
  /\ IF ok /\ ~disk[Op].published /\ ~disk[Op].partial THEN To("stage") /\ disk' = [disk EXCEPT ![Op].partial = TRUE]
                                                      ELSE w' = Fail /\ UNCHANGED disk
  /\ UNCHANGED pb /\ TransferFrame
\* storage_io and hash_file
Stage(ok) ==
  /\ child = "run" /\ w.pc = "stage" /\ (IF ok /\ AliveNow THEN To("receipt") ELSE Failed)
  /\ UNCHANGED <<disk, pb>> /\ TransferFrame
\* save_receipt
SaveReceipt(ok) ==
  /\ child = "run" /\ w.pc = "receipt"
  /\ IF ok /\ disk[Op].receipt = "none" THEN To("commit") /\ disk' = [disk EXCEPT ![Op].receipt = "open"]
                                        ELSE Failed /\ UNCHANGED disk
  /\ UNCHANGED pb /\ TransferFrame
MayRename(heard) == heard /\ PbAllows(w.cmd) /\ AliveNow
\* The commit: PB may have noted it although the agent hears nothing
Commit(arrives, heard) ==
  /\ child = "run" /\ w.pc = "commit" /\ ApiOutcome(arrives, heard)
  /\ IF ~AliveNow THEN Failed /\ UNCHANGED pb
     ELSE /\ pb' = IF arrives /\ PbAllows(w.cmd) THEN [pb EXCEPT !.state[Op] = "committing"] ELSE pb
          /\ IF MayRename(heard) THEN To("rename") ELSE Failed
  /\ UNCHANGED disk /\ TransferFrame
\* The rename never replaces; alive() and the user's session are asked once more
Rename(ok) ==
  /\ child = "run" /\ w.pc = "rename"
  /\ IF ok /\ AliveNow
     THEN disk' = [disk EXCEPT ![Op].published = TRUE, ![Op].partial = FALSE] /\ w' = [w EXCEPT !.pc = "settle", !.ok = TRUE]
     ELSE Failed /\ UNCHANGED disk
  /\ UNCHANGED pb /\ TransferFrame
\* Mutant: every receipt that is settled is a failure
Outcome_Failed == "failed"
Outcome == IF w.ok THEN "done" ELSE "failed"
\* The partial file is deleted and receipt_outcome written; each may fail
Settle(deletes, writes) ==
  /\ child = "run" /\ w.pc = "settle" /\ To("result")
  /\ disk' = [disk EXCEPT ![Op].partial = @ /\ ~deletes,
                          ![Op].receipt = IF @ # "none" /\ writes THEN Outcome ELSE @]
  /\ UNCHANGED pb /\ TransferFrame
\* A download: manifest, storage_io and source-complete; its success is answered without a result
Source(ok) ==
  /\ child = "run" /\ w.pc = "source" /\ w' = [w EXCEPT !.pc = "result", !.ok = ok /\ AliveNow]
  /\ UNCHANGED <<disk, pb>> /\ TransferFrame

\* PB takes a result for a live lease that its state allows
PbAccepts(c, ok) ==
  /\ pb.end[c.lease] > now
  /\ c.op # 0 => IF ok THEN pb.state[c.op] \in {"committing", "completed"} ELSE pb.state[c.op] \notin {"completed", "cancelled"}
\* The result for PB and the answer for the server; without both the lease is given up
Result(arrives, heard) ==
  /\ child = "run" /\ w.pc = "result" /\ ApiOutcome(arrives, heard)
  /\ LET posts == w.match \/ w.cmd.kind = "start"
         taken == posts /\ arrives /\ PbAccepts(w.cmd, w.ok)
     IN  /\ pb' = IF taken /\ Op # 0 THEN [pb EXCEPT !.state[Op] = IF w.ok THEN "completed" ELSE "failed"] ELSE pb
         /\ IF ~posts \/ (w.ok /\ ((heard /\ taken) \/ w.cmd.kind = "download")) THEN UNCHANGED <<lease, ldead>>
                                                                             ELSE lease' = 0 /\ ldead' = 0
  /\ IF RingHas(ipc.ring)
     THEN /\ ipc' = [ipc EXCEPT !.ring = @ + 1]
          /\ w' = IF w.outer = NoOuter THEN Idle
                  ELSE [Idle EXCEPT !.pc = w.outer.pc, !.cmd = w.outer.cmd, !.match = TRUE]
     ELSE w' = [Idle EXCEPT !.pc = "exit"] /\ UNCHANGED ipc
  /\ UNCHANGED <<parent, main, gen, fpend, disk, stopped, window, drained, now, bounds>>

-----------------------------------------------------------------------------
(* The update controller and time *)

OpenWindow ==
  /\ window = 0 /\ windows < MaxWindows /\ windows' = windows + 1 /\ window' = windows + 1
  /\ UNCHANGED <<parent, ipc, main, session, w, disk, pb, stopped, drained, now, sent, faults>>
\* An operation whose lease is over is cancelled by the server
ServerCancels(o, l) ==
  /\ pb.state[o] = "running" /\ pb.end[l] <= now /\ (w.cmd.op = o => w.cmd.lease = l)
  /\ pb' = [pb EXCEPT !.state[o] = "cancelled"]
  /\ UNCHANGED <<parent, ipc, main, session, w, disk, stopped, window, drained, now, bounds>>
CloseWindow ==
  /\ window # 0 /\ window' = 0 /\ drained' = 0
  /\ UNCHANGED <<parent, ipc, main, session, w, disk, pb, stopped, now, bounds>>
Tock ==
  /\ now < MaxTime /\ now' = now + 1
  /\ UNCHANGED <<parent, ipc, main, session, w, disk, pb, stopped, window, drained, bounds>>

ParentTick == \E e \in BOOLEAN : FmTick(e)
ChildMain == ChildTick \/ ChildTake \/ ChildEnqueue \/ ChildQuiet
Worker ==
  \/ Take \/ NestedRenew \/ List \/ (\E a \in BOOLEAN, t \in 0..MaxTime : Ticket(a, t))
  \/ (\E ok \in PathChecked : Open(ok)) \/ (\E ok \in BOOLEAN : Stage(ok) \/ SaveReceipt(ok) \/ Rename(ok) \/ Source(ok))
  \/ (\E a, b \in BOOLEAN : Commit(a, b) \/ Settle(a, b) \/ Result(a, b))
Background == BackgroundBegin \/ (\E a, b \in BOOLEAN : BackgroundEnd(a, b))
Next ==
  \/ FmConnect \/ (\E e \in BOOLEAN : FmDisconnect(e) \/ Stalled(e)) \/ ParentTick
  \/ (\E c \in Commands : FmEnqueue(c) \/ FmList(c)) \/ (\E l \in Leases, e \in BOOLEAN : FmStop(l, e)) \/ Drain
  \/ ChildMain \/ Worker \/ Background
  \/ (\E o \in Ops, l \in Leases : ServerCancels(o, l)) \/ OpenWindow \/ CloseWindow \/ Tock
Spec == Init /\ [][Next]_vars

-----------------------------------------------------------------------------
(* Properties *)

\* What PB holds of an operation is what is on the disk, whenever the child was ended: a completed
\* one is published, and a published one has its commit and is never taken for failed or cancelled
\* (transfer, receipt_outcome, reconcile_receipts_at)
ToldTruth == \A o \in Ops : /\ pb.state[o] = "completed" => disk[o].published
                            /\ disk[o].published => pb.state[o] \in {"committing", "completed"}

=============================================================================
