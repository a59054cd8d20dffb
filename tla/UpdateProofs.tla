---------------------------- MODULE UpdateProofs ----------------------------
(***************************************************************************)
(* The update of the terminal and its operation journal, proved for every  *)
(* value of the constants.                                                 *)
(***************************************************************************)
EXTENDS UpdateTransaction, Journal, TLAPS

-----------------------------------------------------------------------------
(***************************************************************************)
(* The safety of a whole update operation, for any number of restarted     *)
(* supervisors, of runs of the helper and of power losses.                 *)
(*                                                                         *)
(* The properties are not inductive: a verdict RESTORED stays true only    *)
(* because whoever could still touch the pair is gone, and a report stays  *)
(* true only because both decisions were won before it.  The invariant     *)
(* therefore says who holds deployment.lock (Deploying) and the two claims *)
(* (Claims), how far a recovery plan has come (LinkProgress and            *)
(* HelperProgress), what the window of the marker allows (Windowed) and    *)
(* what the records of the journal stand for (Recorded, Sealed, Proved).   *)
(***************************************************************************)

\* A recoverer between its durable claim and its verdict.
Recovering == {"kill", "lock", "mutate", "good", "unconfirmed", "bad"}

\* The worker has deployment.lock while it lives; who changes services has it.
Deploying == /\ deploy = Worker <=> wpc # "dead"
             /\ \A p \in Recoverers : pc[p] = "mutate" => deploy = p

\* A recoverer that goes on has its claim, and from the record on it is durable.
Claims == /\ \A r \in Sups : /\ pc[r] = "claim" => cclaim = r
                             /\ pc[r] \in Recovering => cclaim = r /\ cdec = "started"
          /\ \A h \in Helpers : /\ pc[h] = "claim" => hclaim = h
                                /\ pc[h] \in Recovering => hclaim = h /\ hdec = "started"

\* Past the end of the Job, and behind a verdict RESTORED, there is no worker.
WorkerGone ==
    /\ \A p \in Recoverers : pc[p] \in {"lock", "mutate", "good", "unconfirmed"} => wpc = "dead"
    /\ cdec = "restored" \/ hdec = "restored" => wpc = "dead"

\* How far a supervisor's plan has come is what it has restored of the pair.
LinkProgress ==
    \A r \in Sups :
        /\ pc[r] = "mutate" =>
              /\ marker = "window1"
              /\ step[r] >= 3 => svc["proxy"] \in OldPhases
              /\ step[r] >= 4 => svc["proxy"] = "running_old"
              /\ step[r] >= 6 => cfg["broker.cfg"] = "old"
              /\ step[r] >= 7 => svc["broker"] \in OldPhases
              /\ step[r] >= 8 => svc["broker"] = "running_old"
        /\ pc[r] = "good" => /\ svc["proxy"] = "running_old"
                             /\ svc["broker"] = "running_old"
                             /\ cfg["broker.cfg"] = "old"

\* The same for the helper and the supervisor's service.
HelperProgress ==
    \A h \in Helpers :
        /\ step[h] \in 1 .. 5
        /\ pc[h] = "mutate" =>
              /\ marker = "window2"
              /\ step[h] >= 3 => cfg["superv.cfg"] = "old"
              /\ step[h] >= 4 => svc["superv"] \in OldPhases
              /\ step[h] >= 5 => svc["superv"] = "running_old"
        /\ pc[h] = "good" => svc["superv"] = "running_old" /\ cfg["superv.cfg"] = "old"

\* What the marker allows the worker to be doing.
Windowed == /\ wpc = "prepare" => marker = "before"
            /\ marker = "before" => wpc \in {"prepare", "dead"} /\ AllOld
            /\ wpc \notin {"prepare", "dead"} => marker \in Windows
            /\ wpc = "native" => /\ pending = Forward[at] /\ marker = Window
                                 /\ pending[1] \in {"stop", "forward", "start", "config"}
            /\ wpc = "restore" =>
                  /\ at \in 1 .. 15
                  /\ marker = "window1" => at \notin {9, 10, 12, 13, 14}

\* What each place of the worker has put in the journal.
Recorded == /\ wpc \in {"prepare", "forward", "native", "back", "restore", "settle_link",
                        "settle_helper", "prove"} => proof = "none" /\ outcome = "none"
            /\ wpc \in {"finish", "seal", "report", "clear", "unfinished"} =>
                  proof # "restore" /\ outcome \in {"none", "success"}
            /\ wpc = "report" => proof = "commit"
            /\ wpc = "clear" => outcome = "success"
            /\ wpc = "report_back" => proof = "restore" /\ outcome = "none"
            /\ wpc = "clear_back" => outcome = "restored"
            /\ wpc = "failed" => proof # "commit" /\ outcome \in {"none", "restored"}
            /\ outcome = "success" => proof = "commit"
            /\ outcome = "restored" => proof = "restore"
            /\ marker = "clear" => outcome \in {"success", "restored"}

\* A sealed operation has won both decisions over a terminal that is new.
Sealed == wpc \in {"seal", "report", "clear"} \/ proof = "commit" =>
              cdec = "committed" /\ hdec = "committed" /\ AllNew

\* A proved restore has settled both decisions over a terminal that is old.
Proved == /\ wpc = "settle_helper" => cdec = "committed"
          /\ wpc = "prove" => cdec = "committed" /\ hdec = "committed"
          /\ proof = "restore" => cdec = "committed" /\ hdec = "committed" /\ AllOld

IInv == /\ TypeOK /\ Deploying /\ Claims /\ WorkerGone /\ LinkProgress /\ HelperProgress
        /\ Windowed /\ Recorded /\ Sealed /\ Proved
        /\ RestoredPairStays /\ RestoredSupervisorStays /\ WatchdogKept

-----------------------------------------------------------------------------
(* The four plans, step by step.                                           *)

\* What each step of the worker's plan is, by its number
LEMMA ForwardTable ==
    /\ Forward[1][1] = "stop" /\ Forward[1][2] = "proxy"
    /\ Forward[2][1] = "forward" /\ Forward[2][2] = "proxy"
    /\ Forward[3][1] = "start" /\ Forward[3][2] = "proxy"
    /\ Forward[4][1] = "stop" /\ Forward[4][2] = "broker"
    /\ Forward[5][1] = "config" /\ Forward[5][2] = "broker.cfg"
    /\ Forward[6][1] = "forward" /\ Forward[6][2] = "broker"
    /\ Forward[7][1] = "start" /\ Forward[7][2] = "broker"
    /\ Forward[8][1] = "link_done" /\ Forward[8][2] = ""
    /\ Forward[9][1] = "window2" /\ Forward[9][2] = ""
    /\ Forward[10][1] = "stop" /\ Forward[10][2] = "con"
    /\ Forward[11][1] = "forward" /\ Forward[11][2] = "con"
    /\ Forward[12][1] = "start" /\ Forward[12][2] = "con"
    /\ Forward[13][1] = "stop" /\ Forward[13][2] = "superv"
    /\ Forward[14][1] = "config" /\ Forward[14][2] = "superv.cfg"
    /\ Forward[15][1] = "forward" /\ Forward[15][2] = "superv"
    /\ Forward[16][1] = "start" /\ Forward[16][2] = "superv"
    /\ Forward[17][1] = "config" /\ Forward[17][2] = "rest.cfg"
    /\ Forward[18][1] = "finish" /\ Forward[18][2] = ""
  BY DEF Forward

\* What each step of the way back is, by its number
LEMMA BackTable ==
    /\ Back[1][1] = "stop" /\ Back[1][2] = "proxy"
    /\ Back[2][1] = "switch" /\ Back[2][2] = "proxy"
    /\ Back[3][1] = "start" /\ Back[3][2] = "proxy"
    /\ Back[4][1] = "stop" /\ Back[4][2] = "broker"
    /\ Back[5][1] = "config" /\ Back[5][2] = "broker.cfg"
    /\ Back[6][1] = "switch" /\ Back[6][2] = "broker"
    /\ Back[7][1] = "start" /\ Back[7][2] = "broker"
    /\ Back[8][1] = "stop" /\ Back[8][2] = "con"
    /\ Back[9][1] = "switch" /\ Back[9][2] = "con"
    /\ Back[10][1] = "start" /\ Back[10][2] = "con"
    /\ Back[11][1] = "stop" /\ Back[11][2] = "superv"
    /\ Back[12][1] = "config" /\ Back[12][2] = "superv.cfg"
    /\ Back[13][1] = "switch" /\ Back[13][2] = "superv"
    /\ Back[14][1] = "start" /\ Back[14][2] = "superv"
    /\ Back[15][1] = "configs" /\ Back[15][2] = ""
  BY DEF Back

\* What each step of the local link's recovery is, by its number
LEMMA LinkTable ==
    /\ LinkPlan[1][1] = "stop" /\ LinkPlan[1][2] = "proxy"
    /\ LinkPlan[2][1] = "switch" /\ LinkPlan[2][2] = "proxy"
    /\ LinkPlan[3][1] = "start" /\ LinkPlan[3][2] = "proxy"
    /\ LinkPlan[4][1] = "stop" /\ LinkPlan[4][2] = "broker"
    /\ LinkPlan[5][1] = "config" /\ LinkPlan[5][2] = "broker.cfg"
    /\ LinkPlan[6][1] = "switch" /\ LinkPlan[6][2] = "broker"
    /\ LinkPlan[7][1] = "start" /\ LinkPlan[7][2] = "broker"
    /\ LinkPlan[8][1] = "barrier" /\ LinkPlan[8][2] = ""
  BY DEF LinkPlan

\* What each step of the helper is, by its number
LEMMA HelperTable ==
    /\ HelperPlan[1][1] = "stop" /\ HelperPlan[1][2] = "superv"
    /\ HelperPlan[2][1] = "config" /\ HelperPlan[2][2] = "superv.cfg"
    /\ HelperPlan[3][1] = "switch" /\ HelperPlan[3][2] = "superv"
    /\ HelperPlan[4][1] = "start" /\ HelperPlan[4][2] = "superv"
    /\ HelperPlan[5][1] = "barrier" /\ HelperPlan[5][2] = ""
  BY DEF HelperPlan

\* What a step forward acts on; in window 1 only the pair.
LEMMA ForwardSteps ==
    ASSUME NEW i \in 1 .. 18, Forward[i][1] \in {"stop", "forward", "start", "config"}
    PROVE  /\ i \in 1 .. 17
           /\ Forward[i] # NoStep
           /\ Forward[i][1] = "config" => Forward[i][2] \in Groups
           /\ Forward[i][1] # "config" => Forward[i][2] \in Services
           /\ i <= 9 => Forward[i][2] \in {"proxy", "broker", "broker.cfg"}
<1>1. i \in {1, 2, 3, 4, 5, 6, 7, 8, 9, 10, 11, 12, 13, 14, 15, 16, 17, 18}
  OBVIOUS
<1>2. i # 18 BY ForwardTable
<1>3. Forward[i] # NoStep
  <2>1. NoStep[1] = "none" BY DEF NoStep
  <2> QED BY <2>1
<1>4. Forward[i][1] = "config" => Forward[i][2] \in Groups
  BY <1>1, ForwardTable DEF Groups
<1>5. Forward[i][1] # "config" => Forward[i][2] \in Services
  BY <1>1, ForwardTable, ZenonT(60) DEF Services
<1>6. i <= 9 => Forward[i][2] \in {"proxy", "broker", "broker.cfg"}
  <2>1. CASE i \in 1 .. 7
    <3>1. i \in {1, 2, 3, 4, 5, 6, 7} BY <2>1
    <3> QED BY <3>1, ForwardTable, ZenonT(60)
  <2>2. i # 8 /\ i # 9 BY ForwardTable
  <2> QED BY <2>1, <2>2
<1> QED BY <1>1, <1>2, <1>3, <1>4, <1>5, <1>6

\* Where the forward plan settles the pair and enters window 2.
LEMMA ForwardMarks ==
    ASSUME NEW i \in 1 .. 18
    PROVE  /\ Forward[i][1] = "link_done" => i = 8
           /\ Forward[i][1] = "window2" => i = 9
<1>1. i \in {1, 2, 3, 4, 5, 6, 7, 8, 9, 10, 11, 12, 13, 14, 15, 16, 17, 18}
  OBVIOUS
<1>2. Forward[i][1] = "link_done" => i = 8 BY <1>1, ForwardTable
<1>3. Forward[i][1] = "window2" => i = 9 BY <1>1, ForwardTable
<1> QED BY <1>2, <1>3

\* What a step back acts on, and where the services of window 2 come.
LEMMA BackSteps ==
    ASSUME NEW i \in 1 .. 15
    PROVE  /\ Back[i][1] \in {"stop", "switch", "start"} =>
                 /\ Back[i][2] \in Services /\ i # 15
                 /\ Back[i][2] = "con" => i \in {8, 9, 10}
                 /\ Back[i][2] = "superv" => i \in {11, 13, 14}
           /\ Back[i][1] = "stop" =>
                 /\ Skip[Back[i][2]] \in {4, 8, 11, 15} /\ i \in {1, 4, 8, 11}
                 /\ i = 8 => Back[i][2] = "con"
                 /\ i = 11 => Back[i][2] = "superv"
           /\ Back[i][1] = "config" =>
                 /\ Back[i][2] \in Groups /\ i \in {5, 12}
                 /\ Back[i][2] = "superv.cfg" => i = 12
<1>1. i \in {1, 2, 3, 4, 5, 6, 7, 8, 9, 10, 11, 12, 13, 14, 15}
  OBVIOUS
<1>2. Back[i][1] \in {"stop", "switch", "start"} => Back[i][2] \in Services /\ i # 15
  BY <1>1, BackTable, ZenonT(60) DEF Services
<1>3. Back[i][2] = "con" => i \in {8, 9, 10} BY <1>1, BackTable
<1>4. Back[i][2] = "superv" => i \in {11, 13, 14} BY <1>1, BackTable
<1>5. Back[i][1] = "stop" => i \in {1, 4, 8, 11} BY <1>1, BackTable
<1>6. i \in {1, 4, 8, 11} => Skip[Back[i][2]] \in {4, 8, 11, 15}
  <2>1. /\ Skip["proxy"] = 4 /\ Skip["broker"] = 8 /\ Skip["con"] = 11
        /\ Skip["superv"] = 15
    BY DEF Skip
  <2> QED BY <2>1, BackTable, ZenonT(60)
<1>7. Back[i][1] = "config" => i \in {5, 12} BY <1>1, BackTable
<1>8. i \in {5, 12} => /\ Back[i][2] \in Groups
                       /\ Back[i][2] = "superv.cfg" => i = 12
  BY BackTable DEF Groups
<1> QED BY <1>2, <1>3, <1>4, <1>5, <1>6, <1>7, <1>8, BackTable

-----------------------------------------------------------------------------
(* The inductive invariant.                                                *)

USE TransactionAssumption

\* The terminal before the update satisfies the invariant
LEMMA InitIInv == Init => IInv
<1> SUFFICES ASSUME Init PROVE IInv
  OBVIOUS
<1> USE DEF Init
<1>1. TypeOK
  <2>1. pc \in [Recoverers -> RecovererPlaces] BY DEF RecovererPlaces
  <2>2. /\ svc \in [Services -> ServicePhases]
        /\ cfg \in [Groups -> {"old", "part", "new"}]
    BY DEF OldPhases, NewPhases, ServicePhases
  <2>3. step \in [Recoverers -> 1 .. 8] /\ losses \in 0 .. MaxLoss OBVIOUS
  <2>4. wpc \in WorkerPlaces BY DEF WorkerPlaces
  <2>5. pending \in {NoStep} \cup {Forward[i] : i \in 1 .. 17} OBVIOUS
  <2>6. marker \in {"before", "clear"} \cup Windows /\ wal \in {"before", "clear"} \cup Windows
    OBVIOUS
  <2>7. at \in 1 .. 18 OBVIOUS
  <2> QED BY <2>1, <2>2, <2>3, <2>4, <2>5, <2>6, <2>7 DEF TypeOK
<1> USE DEF Sups, Recoverers, Services, Groups
<1>2. Deploying /\ Claims /\ WorkerGone
  BY DEF Deploying, Claims, WorkerGone, Recovering
<1>3. LinkProgress /\ HelperProgress BY DEF LinkProgress, HelperProgress
<1>4. Windowed /\ Recorded /\ Sealed /\ Proved
  BY DEF Windowed, Recorded, Sealed, Proved, AllOld, Windows
<1>5. RestoredPairStays /\ RestoredSupervisorStays /\ WatchdogKept
  BY DEF RestoredPairStays, RestoredSupervisorStays, WatchdogKept
<1> QED BY <1>1, <1>2, <1>3, <1>4, <1>5 DEF IInv

-----------------------------------------------------------------------------
(* One step of a recovery plan.                                            *)

\* What the plan of a supervisor acts on.
LEMMA LinkSteps ==
    ASSUME NEW i \in 1 .. 8
    PROVE  /\ LinkPlan[i][1] \in {"stop", "switch", "start"} =>
                 i # 8 /\ LinkPlan[i][2] \in {"proxy", "broker"}
           /\ LinkPlan[i][1] = "config" => i = 5 /\ LinkPlan[i][2] = "broker.cfg"
           /\ LinkPlan[i][1] = "barrier" => i = 8
<1>1. i \in {1, 2, 3, 4, 5, 6, 7, 8} OBVIOUS
<1> QED BY <1>1, LinkTable

\* What the plan of the helper acts on.
LEMMA HelperSteps ==
    ASSUME NEW i \in 1 .. 5
    PROVE  /\ HelperPlan[i][1] \in {"stop", "switch", "start"} =>
                 i # 5 /\ HelperPlan[i][2] = "superv"
           /\ HelperPlan[i][1] = "config" => i = 2 /\ HelperPlan[i][2] = "superv.cfg"
           /\ HelperPlan[i][1] = "barrier" => i = 5
<1>1. i \in {1, 2, 3, 4, 5} OBVIOUS
<1> QED BY <1>1, HelperTable

\* What stop, switch and start leave of any service.
LEMMA AfterIs ==
    ASSUME NEW p \in ServicePhases
    PROVE  /\ After("forward", p) = "stopped_new"
           /\ After("switch", p) = "stopped_old"
           /\ p \in OldPhases => After("start", p) = "running_old"
           /\ \A op \in {"stop", "switch", "start"} : After(op, p) \in ServicePhases
  BY DEF After, Stopped, Started, ServicePhases, OldPhases, NewPhases

USE DEF world, marks, link, help, locks, work, tries, report, recs

\* A step of the plan: one service or one group of files is changed, and only
\* the recoverer p itself and the terminal see it.
Touch(p, op, on) ==
    /\ UNCHANGED <<marks, link, help, locks, work, tries, report, losses>>
    /\ pc[p] = "mutate" /\ pc'[p] \in {"mutate", "bad"}
    /\ pc'[p] = "mutate" => step'[p] = step[p] + 1
    /\ \A q \in Recoverers \ {p} : pc'[q] = pc[q] /\ step'[q] = step[q]
    /\ \/ /\ op \in {"stop", "switch", "start"}
          /\ svc' = [svc EXCEPT ![on] = After(op, svc[on])] /\ cfg' = cfg
       \/ /\ op = "config" /\ svc' = svc
          /\ \E v \in {"old", "part"} : /\ cfg' = [cfg EXCEPT ![on] = v]
                                        /\ pc'[p] = "mutate" => v = "old"

\* A supervisor changes the pair and its settings, in the order of its plan.
LEMMA LinkChange ==
    ASSUME IInv, NEW r \in Sups,
           Mutate(r, LinkPlan, "window1") \/ FailsInFiles(r, LinkPlan)
    PROVE  /\ Touch(r, LinkPlan[step[r]][1], LinkPlan[step[r]][2])
           /\ LinkPlan[step[r]][2] \in {"proxy", "broker", "broker.cfg"}
           /\ TypeOK' /\ LinkProgress'
<1> DEFINE op == LinkPlan[step[r]][1]
           on == LinkPlan[step[r]][2]
<1> USE DEF IInv, TypeOK, Recoverers, Goto
<1>1. Touch(r, op, on) BY DEF Touch, Mutate, FailsInFiles
<1>2. /\ op \in {"stop", "switch", "start"} => on \in {"proxy", "broker"}
      /\ op = "config" => on = "broker.cfg"
      /\ op # "barrier"
  BY LinkSteps DEF Mutate, FailsInFiles
<1>3. TypeOK'
  <2>1. svc' \in [Services -> ServicePhases] BY <1>1, <1>2, AfterIs DEF Touch, Services
  <2>2. cfg' \in [Groups -> {"old", "part", "new"}] BY <1>1, <1>2 DEF Touch, Groups
  <2>3. step' \in [Recoverers -> 1 .. 8] BY LinkSteps DEF Mutate, FailsInFiles
  <2>4. pc' \in [Recoverers -> RecovererPlaces]
    BY DEF Mutate, FailsInFiles, RecovererPlaces
  <2> QED BY <1>1, <2>1, <2>2, <2>3, <2>4 DEF Touch
<1>4. LinkProgress'
  <2>1. \A q \in Sups \ {r} : pc'[q] \notin {"mutate", "good"}
    BY <1>1 DEF Touch, Claims, Recovering
  <2> SUFFICES ASSUME pc'[r] = "mutate"
               PROVE  /\ marker' = "window1"
                      /\ step'[r] >= 3 => svc'["proxy"] \in OldPhases
                      /\ step'[r] >= 4 => svc'["proxy"] = "running_old"
                      /\ step'[r] >= 6 => cfg'["broker.cfg"] = "old"
                      /\ step'[r] >= 7 => svc'["broker"] \in OldPhases
                      /\ step'[r] >= 8 => svc'["broker"] = "running_old"
    BY <1>1, <2>1 DEF Touch, LinkProgress
  <2> HIDE DEF op, on
  <2> USE <1>1, AfterIs DEF Touch, LinkProgress, Services, Groups
  <2>2. CASE step[r] = 1
    <3>1. op = "stop" /\ on = "proxy" BY <2>2, LinkTable DEF op, on
    <3> QED BY <2>2, <3>1 DEF OldPhases
  <2>3. CASE step[r] = 2
    <3>1. op = "switch" /\ on = "proxy" BY <2>3, LinkTable DEF op, on
    <3> QED BY <2>3, <3>1 DEF OldPhases
  <2>4. CASE step[r] = 3
    <3>1. op = "start" /\ on = "proxy" BY <2>4, LinkTable DEF op, on
    <3> QED BY <2>4, <3>1 DEF OldPhases
  <2>5. CASE step[r] = 4
    <3>1. op = "stop" /\ on = "broker" BY <2>5, LinkTable DEF op, on
    <3> QED BY <2>5, <3>1 DEF OldPhases
  <2>6. CASE step[r] = 5
    <3>1. op = "config" /\ on = "broker.cfg" BY <2>6, LinkTable, ZenonT(60) DEF op, on
    <3> QED BY <2>6, <3>1 DEF OldPhases
  <2>7. CASE step[r] = 6
    <3>1. op = "switch" /\ on = "broker" BY <2>7, LinkTable DEF op, on
    <3> QED BY <2>7, <3>1 DEF OldPhases
  <2>8. CASE step[r] = 7
    <3>1. op = "start" /\ on = "broker" BY <2>8, LinkTable DEF op, on
    <3> QED BY <2>8, <3>1 DEF OldPhases
  <2>9. step[r] \in 1 .. 8 /\ step[r] # 8 BY <1>2, LinkTable DEF op
  <2> QED BY <2>2, <2>3, <2>4, <2>5, <2>6, <2>7, <2>8, <2>9
<1> QED BY <1>1, <1>2, <1>3, <1>4 DEF Touch

\* The helper changes the supervisor and its settings, in the order of its plan.
LEMMA HelperChange ==
    ASSUME IInv, NEW h \in Helpers,
           Mutate(h, HelperPlan, "window2") \/ FailsInFiles(h, HelperPlan)
    PROVE  /\ Touch(h, HelperPlan[step[h]][1], HelperPlan[step[h]][2])
           /\ HelperPlan[step[h]][2] \in {"superv", "superv.cfg"}
           /\ TypeOK' /\ HelperProgress'
<1> DEFINE op == HelperPlan[step[h]][1]
           on == HelperPlan[step[h]][2]
<1> USE DEF IInv, TypeOK, HelperProgress, Recoverers, Goto
<1>1. Touch(h, op, on) BY DEF Touch, Mutate, FailsInFiles
<1>2. /\ op \in {"stop", "switch", "start"} => on = "superv"
      /\ op = "config" => on = "superv.cfg"
      /\ op # "barrier"
  BY HelperSteps DEF Mutate, FailsInFiles
<1>3. TypeOK'
  <2>1. svc' \in [Services -> ServicePhases] BY <1>1, <1>2, AfterIs DEF Touch, Services
  <2>2. cfg' \in [Groups -> {"old", "part", "new"}] BY <1>1, <1>2 DEF Touch, Groups
  <2>3. step' \in [Recoverers -> 1 .. 8] BY HelperSteps DEF Mutate, FailsInFiles
  <2>4. pc' \in [Recoverers -> RecovererPlaces]
    BY DEF Mutate, FailsInFiles, RecovererPlaces
  <2> QED BY <1>1, <2>1, <2>2, <2>3, <2>4 DEF Touch
<1>4. HelperProgress'
  <2>1. \A g \in Helpers \ {h} : pc'[g] \notin {"mutate", "good"}
    BY <1>1 DEF Touch, Claims, Recovering
  <2>2. step'[h] \in 1 .. 5 BY HelperSteps DEF Mutate, FailsInFiles
  <2>3. \A g \in Helpers \ {h} : step'[g] \in 1 .. 5 BY <1>1 DEF Touch
  <2> SUFFICES ASSUME pc'[h] = "mutate"
               PROVE  /\ marker' = "window2"
                      /\ step'[h] >= 3 => cfg'["superv.cfg"] = "old"
                      /\ step'[h] >= 4 => svc'["superv"] \in OldPhases
                      /\ step'[h] >= 5 => svc'["superv"] = "running_old"
    BY <1>1, <2>1, <2>2, <2>3 DEF Touch
  <2> HIDE DEF op, on
  <2> USE <1>1, AfterIs DEF Touch, Services, Groups
  <2>4. CASE step[h] = 1
    <3>1. op = "stop" /\ on = "superv" BY <2>4, HelperTable DEF op, on
    <3> QED BY <2>4, <3>1 DEF OldPhases
  <2>5. CASE step[h] = 2
    <3>1. op = "config" /\ on = "superv.cfg" BY <2>5, HelperTable DEF op, on
    <3> QED BY <2>5, <3>1 DEF OldPhases
  <2>6. CASE step[h] = 3
    <3>1. op = "switch" /\ on = "superv" BY <2>6, HelperTable DEF op, on
    <3> QED BY <2>6, <3>1 DEF OldPhases
  <2>7. CASE step[h] = 4
    <3>1. op = "start" /\ on = "superv" BY <2>7, HelperTable DEF op, on
    <3> QED BY <2>7, <3>1 DEF OldPhases
  <2>8. step[h] \in 1 .. 5 /\ step[h] # 5 BY <1>2, HelperTable DEF op
  <2> QED BY <2>4, <2>5, <2>6, <2>7, <2>8
<1> QED BY <1>1, <1>2, <1>3, <1>4 DEF Touch

\* The steps of the worker that end it, that settle a decision, that change the
\* terminal, and the others.
WorkerEnds == PublishWindow1 \/ ClearSuccess \/ Unfinished \/ ClearRestored \/ ReportRequired
WorkerSettles == LinkDone \/ FinishSettle \/ SettleLink \/ SettleHelper
WorkerChanges == Native \/ RestoreService \/ RestoreConfig \/ RestoreConfigs
WorkerMoves == \/ Intend \/ ForwardFails \/ PublishWindow2 \/ FinishBegins \/ FinishFails
               \/ Abandon \/ RestoreFails
WorkerRecords == Seal \/ ReportSuccess \/ Prove \/ ReportRestored

\* deployment.lock, the claims and the death of the worker are kept by every step.
LEMMA LockStep == IInv /\ [Next]_vars => (Deploying /\ Claims /\ WorkerGone)'
<1> SUFFICES ASSUME IInv, [Next]_vars PROVE (Deploying /\ Claims /\ WorkerGone)'
  OBVIOUS
<1> USE DEF IInv, TypeOK, Deploying, Claims, WorkerGone, Recoverers, Recovering, Goto, Free
<1>1. CASE WorkerEnds
  BY <1>1 DEF WorkerEnds, PublishWindow1, ClearSuccess, Unfinished, ClearRestored,
              ReportRequired
<1>2. CASE WorkerSettles
  BY <1>2 DEF WorkerSettles, LinkDone, FinishSettle, SettleLink, SettleHelper,
              Link!Commit, Help!Commit
<1>3. CASE WorkerChanges
  BY <1>3 DEF WorkerChanges, Native, RestoreService, RestoreConfig, RestoreConfigs
<1>4. CASE WorkerMoves \/ WorkerRecords
  BY <1>4 DEF WorkerMoves, Intend, ForwardFails, PublishWindow2, FinishBegins,
              FinishFails, Abandon, RestoreFails, WorkerRecords, Seal, ReportSuccess,
              Prove, ReportRestored
<1>5. ASSUME NEW r \in Sups, SupNext(r) PROVE (Deploying /\ Claims /\ WorkerGone)'
  <2>1. CASE BootStart(r) \/ BootRefused(r) \/ BootLeaves(r)
    BY <2>1 DEF BootStart, BootRefused, BootLeaves
  <2>2. CASE LinkClaim(r) BY <2>2 DEF LinkClaim, Link!Claim
  <2>3. CASE LinkBegin(r) BY <2>3 DEF LinkBegin, Link!Begin
  <2>4. CASE Kill(r) BY <2>4 DEF Kill
  <2>5. CASE Lock(r, "window1") BY <2>5 DEF Lock
  <2>6. CASE \/ Mutate(r, LinkPlan, "window1") \/ LinkBarrier(r) \/ Fails(r)
             \/ FailsInFiles(r, LinkPlan)
    BY <2>6 DEF Mutate, LinkBarrier, Fails, FailsInFiles
  <2>7. CASE LinkFinish(r) BY <2>7 DEF LinkFinish, Link!Settle
  <2>8. CASE LinkRelease(r) BY <2>8 DEF LinkRelease
  <2> QED BY <1>5, <2>1, <2>2, <2>3, <2>4, <2>5, <2>6, <2>7, <2>8 DEF SupNext
<1>6. ASSUME NEW h \in Helpers, HelperNext(h)
      PROVE (Deploying /\ Claims /\ WorkerGone)'
  <2>1. CASE HelperClaim(h) BY <2>1 DEF HelperClaim, Help!Claim
  <2>2. CASE HelperBegin(h) BY <2>2 DEF HelperBegin, Help!Begin
  <2>3. CASE Kill(h) BY <2>3 DEF Kill
  <2>4. CASE Lock(h, "window2") BY <2>4 DEF Lock
  <2>5. CASE \/ Mutate(h, HelperPlan, "window2") \/ HelperBarrier(h) \/ Fails(h)
             \/ FailsInFiles(h, HelperPlan)
    BY <2>5 DEF Mutate, HelperBarrier, Fails, FailsInFiles
  <2>6. CASE HelperFinish(h) BY <2>6 DEF HelperFinish, Help!Settle
  <2>7. CASE HelperRelease(h) BY <2>7 DEF HelperRelease
  <2> QED BY <1>6, <2>1, <2>2, <2>3, <2>4, <2>5, <2>6, <2>7 DEF HelperNext
<1>7. CASE WorkerDies BY <1>7 DEF WorkerDies
<1>8. CASE PowerLoss BY <1>8 DEF PowerLoss, Live
<1>9. ASSUME NEW p \in Recoverers, Dies(p) PROVE (Deploying /\ Claims /\ WorkerGone)'
  BY <1>9 DEF Dies, Live
<1>10. CASE UNCHANGED vars BY <1>10 DEF vars
<1> QED
  BY <1>1, <1>2, <1>3, <1>4, <1>5, <1>6, <1>7, <1>8, <1>9, <1>10
  DEF Next, WorkerNext, WorkerEnds, WorkerSettles, WorkerChanges, WorkerMoves, WorkerRecords

\* Every variable stays in its set.
LEMMA TypeStep == IInv /\ [Next]_vars => TypeOK'
<1> SUFFICES ASSUME IInv, [Next]_vars PROVE TypeOK'
  OBVIOUS
<1> USE DEF IInv, TypeOK, Recoverers, WorkerPlaces, RecovererPlaces, Windows, Goto, Free
<1>1. CASE WorkerEnds
  <2>1. CASE Unfinished
    <3>1. retried' \in BOOLEAN BY <2>1, Zenon DEF Unfinished
    <3> QED BY <2>1, <3>1 DEF Unfinished
  <2> QED
    BY <1>1, <2>1 DEF WorkerEnds, PublishWindow1, ClearSuccess, ClearRestored, ReportRequired
<1>2. CASE WorkerSettles
  <2>1. CASE LinkDone BY <2>1, ForwardMarks DEF LinkDone, Link!Commit
  <2>2. CASE FinishSettle BY <2>2 DEF FinishSettle, Help!Commit
  <2>3. CASE SettleLink \/ SettleHelper
    BY <2>3 DEF SettleLink, SettleHelper, Link!Commit, Help!Commit
  <2> QED BY <1>2, <2>1, <2>2, <2>3 DEF WorkerSettles
<1>3. CASE WorkerChanges
  <2> USE DEF ServicePhases, OldPhases, NewPhases, Windowed
  <2>1. CASE Native BY <2>1, ForwardSteps DEF Native, After, Stopped, Started
  <2>2. CASE RestoreService
    BY <2>2, BackSteps DEF RestoreService, After, Stopped, Started
  <2>3. CASE RestoreConfig \/ RestoreConfigs
    BY <2>3, BackSteps DEF RestoreConfig, RestoreConfigs
  <2> QED BY <1>3, <2>1, <2>2, <2>3 DEF WorkerChanges
<1>4. CASE WorkerMoves
  BY <1>4, ForwardSteps, ForwardMarks
  DEF WorkerMoves, Intend, ForwardFails, PublishWindow2, FinishBegins, FinishFails,
      Abandon, RestoreFails
<1>5. CASE WorkerRecords
  BY <1>5 DEF WorkerRecords, Seal, ReportSuccess, Prove, ReportRestored
<1>6. ASSUME NEW r \in Sups, SupNext(r) PROVE TypeOK'
  <2>1. CASE BootStart(r) \/ BootRefused(r) \/ BootLeaves(r) \/ Kill(r)
    BY <2>1 DEF BootStart, BootRefused, BootLeaves, Kill
  <2>2. CASE LinkClaim(r) \/ LinkBegin(r)
    BY <2>2 DEF LinkClaim, Link!Claim, LinkBegin, Link!Begin
  <2>3. CASE Lock(r, "window1") \/ LinkBarrier(r) \/ Fails(r)
    BY <2>3 DEF Lock, LinkBarrier, Fails
  <2>4. CASE Mutate(r, LinkPlan, "window1") \/ FailsInFiles(r, LinkPlan)
    BY <1>6, <2>4, LinkChange
  <2>5. CASE LinkFinish(r) BY <2>5 DEF LinkFinish, Link!Settle
  <2>6. CASE LinkRelease(r) BY <2>6 DEF LinkRelease
  <2> QED BY <1>6, <2>1, <2>2, <2>3, <2>4, <2>5, <2>6 DEF SupNext
<1>7. ASSUME NEW h \in Helpers, HelperNext(h) PROVE TypeOK'
  <2>1. CASE HelperClaim(h) \/ HelperBegin(h) \/ Kill(h)
    BY <2>1 DEF HelperClaim, Help!Claim, HelperBegin, Help!Begin, Kill
  <2>2. CASE Lock(h, "window2") \/ HelperBarrier(h) \/ Fails(h)
    BY <2>2 DEF Lock, HelperBarrier, Fails
  <2>3. CASE Mutate(h, HelperPlan, "window2") \/ FailsInFiles(h, HelperPlan)
    BY <1>7, <2>3, HelperChange
  <2>4. CASE HelperFinish(h) BY <2>4 DEF HelperFinish, Help!Settle
  <2>5. CASE HelperRelease(h) BY <2>5 DEF HelperRelease
  <2> QED BY <1>7, <2>1, <2>2, <2>3, <2>4, <2>5 DEF HelperNext
<1>8. CASE WorkerDies BY <1>8 DEF WorkerDies
<1>9. CASE PowerLoss
  BY <1>9 DEF PowerLoss, Live, Started, ServicePhases, OldPhases, NewPhases
<1>10. ASSUME NEW p \in Recoverers, Dies(p) PROVE TypeOK'
  BY <1>10 DEF Dies, Live
<1>11. CASE UNCHANGED vars BY <1>11 DEF vars
<1> QED
  BY <1>1, <1>2, <1>3, <1>4, <1>5, <1>6, <1>7, <1>8, <1>9, <1>10, <1>11
  DEF Next, WorkerNext, WorkerEnds, WorkerSettles, WorkerChanges, WorkerMoves, WorkerRecords

\* The records of the journal stand for what they say.
LEMMA RecordStep == IInv /\ [Next]_vars => (Recorded /\ Sealed /\ Proved)'
<1> SUFFICES ASSUME IInv, [Next]_vars PROVE (Recorded /\ Sealed /\ Proved)'
  OBVIOUS
<1> USE DEF IInv, TypeOK, Deploying, Claims, Windowed, Recorded, Sealed, Proved, AllOld,
            AllNew, Windows, Recoverers, Recovering, Goto, Free
<1>1. CASE WorkerEnds
  BY <1>1 DEF WorkerEnds, PublishWindow1, ClearSuccess, Unfinished, ClearRestored,
              ReportRequired
<1>2. CASE WorkerSettles
  BY <1>2 DEF WorkerSettles, LinkDone, FinishSettle, SettleLink, SettleHelper,
              Link!Commit, Help!Commit
<1>3. CASE WorkerChanges
  BY <1>3 DEF WorkerChanges, Native, RestoreService, RestoreConfig, RestoreConfigs
<1>4. CASE WorkerMoves
  BY <1>4 DEF WorkerMoves, Intend, ForwardFails, PublishWindow2, FinishBegins,
              FinishFails, Abandon, RestoreFails
<1>5. CASE WorkerRecords
  BY <1>5 DEF WorkerRecords, Seal, ReportSuccess, Prove, ReportRestored
<1>6. ASSUME NEW r \in Sups, SupNext(r) PROVE (Recorded /\ Sealed /\ Proved)'
  <2>1. CASE Mutate(r, LinkPlan, "window1") \/ FailsInFiles(r, LinkPlan)
    BY <2>1, LinkChange DEF Touch
  <2>2. CASE LinkBegin(r) \/ LinkFinish(r)
    BY <2>2 DEF LinkBegin, LinkFinish, Link!Begin, Link!Settle
  <2>3. CASE \/ BootStart(r) \/ BootRefused(r) \/ LinkClaim(r) \/ Kill(r)
             \/ Lock(r, "window1") \/ LinkBarrier(r) \/ Fails(r) \/ LinkRelease(r)
             \/ BootLeaves(r)
    BY <2>3 DEF BootStart, BootRefused, LinkClaim, Link!Claim, Kill, Lock, LinkBarrier,
                Fails, LinkRelease, BootLeaves
  <2> QED BY <1>6, <2>1, <2>2, <2>3 DEF SupNext
<1>7. ASSUME NEW h \in Helpers, HelperNext(h) PROVE (Recorded /\ Sealed /\ Proved)'
  <2>1. CASE Mutate(h, HelperPlan, "window2") \/ FailsInFiles(h, HelperPlan)
    BY <2>1, HelperChange DEF Touch
  <2>2. CASE HelperBegin(h) \/ HelperFinish(h)
    BY <2>2 DEF HelperBegin, HelperFinish, Help!Begin, Help!Settle
  <2>3. CASE \/ HelperClaim(h) \/ Kill(h) \/ Lock(h, "window2") \/ HelperBarrier(h)
             \/ Fails(h) \/ HelperRelease(h)
    BY <2>3 DEF HelperClaim, Help!Claim, Kill, Lock, HelperBarrier, Fails, HelperRelease
  <2> QED BY <1>7, <2>1, <2>2, <2>3 DEF HelperNext
<1>8. CASE WorkerDies BY <1>8 DEF WorkerDies
<1>9. CASE PowerLoss BY <1>9 DEF PowerLoss, Started, OldPhases
<1>10. ASSUME NEW p \in Recoverers, Dies(p) PROVE (Recorded /\ Sealed /\ Proved)'
  BY <1>10 DEF Dies
<1>11. CASE UNCHANGED vars BY <1>11 DEF vars
<1> QED
  BY <1>1, <1>2, <1>3, <1>4, <1>5, <1>6, <1>7, <1>8, <1>9, <1>10, <1>11
  DEF Next, WorkerNext, WorkerEnds, WorkerSettles, WorkerChanges, WorkerMoves, WorkerRecords

\* The window of the marker limits the worker, and what it may have touched.
LEMMA WindowStep == IInv /\ [Next]_vars => (Windowed /\ WatchdogKept)'
<1> SUFFICES ASSUME IInv, [Next]_vars PROVE (Windowed /\ WatchdogKept)'
  OBVIOUS
<1> USE DEF IInv, TypeOK, Windowed, WatchdogKept, AllOld, Window, Windows, Services, Groups
<1>1. CASE WorkerEnds
  BY <1>1 DEF WorkerEnds, PublishWindow1, ClearSuccess, Unfinished, ClearRestored,
              ReportRequired
<1>2. CASE WorkerSettles
  BY <1>2 DEF WorkerSettles, LinkDone, FinishSettle, SettleLink, SettleHelper
<1>3. CASE WorkerChanges
  <2>1. CASE Native BY <2>1, ForwardSteps DEF Native
  <2>2. CASE RestoreService
    <3>1. Back[at][2] \in Services /\ at # 15 BY <2>2, BackSteps DEF RestoreService
    <3>2. CASE marker # "window1"
      BY <2>2, <3>1, <3>2, BackSteps DEF RestoreService
    <3>3. CASE marker = "window1"
      <4>1. at \in {8, 11} => Back[at][1] = "stop" /\ svc[Back[at][2]] = "running_old"
        <5>1. Back[8][2] = "con" /\ Back[11][2] = "superv" BY BackTable
        <5>2. Back[8][1] = "stop" /\ Back[11][1] = "stop" BY BackTable
        <5> QED BY <3>3, <5>1, <5>2
      <4>2. svc'["con"] = "running_old" /\ svc'["superv"] = "running_old"
        BY <2>2, <3>1, <3>3, <4>1, BackSteps DEF RestoreService, ReadyBack
      <4>3. wpc' = "restore" => at' \in 1 .. 15 /\ at' \notin {9, 10, 12, 13, 14}
        BY <2>2, <3>1, <3>3, <4>1, BackSteps DEF RestoreService, ReadyBack
      <4> QED BY <2>2, <3>3, <4>2, <4>3 DEF RestoreService
    <3> QED BY <3>2, <3>3
  <2>3. CASE RestoreConfig BY <2>3, BackSteps DEF RestoreConfig
  <2>4. CASE RestoreConfigs BY <2>4 DEF RestoreConfigs
  <2> QED BY <1>3, <2>1, <2>2, <2>3, <2>4 DEF WorkerChanges
<1>4. CASE WorkerMoves
  BY <1>4, ForwardMarks DEF WorkerMoves, Intend, ForwardFails, PublishWindow2,
              FinishBegins, FinishFails, Abandon, RestoreFails
<1>5. CASE WorkerRecords
  BY <1>5 DEF WorkerRecords, Seal, ReportSuccess, Prove, ReportRestored
<1>6. ASSUME NEW r \in Sups, SupNext(r) PROVE (Windowed /\ WatchdogKept)'
  <2>1. CASE Mutate(r, LinkPlan, "window1") \/ FailsInFiles(r, LinkPlan)
    BY <2>1, LinkChange DEF Touch, LinkProgress
  <2>2. CASE \/ BootStart(r) \/ BootRefused(r) \/ LinkClaim(r) \/ LinkBegin(r) \/ Kill(r)
             \/ Lock(r, "window1") \/ LinkBarrier(r) \/ Fails(r) \/ LinkFinish(r)
             \/ LinkRelease(r) \/ BootLeaves(r)
    BY <2>2 DEF BootStart, BootRefused, LinkClaim, LinkBegin, Kill, Lock, LinkBarrier,
                Fails, LinkFinish, LinkRelease, BootLeaves
  <2> QED BY <1>6, <2>1, <2>2 DEF SupNext
<1>7. ASSUME NEW h \in Helpers, HelperNext(h) PROVE (Windowed /\ WatchdogKept)'
  <2>1. CASE Mutate(h, HelperPlan, "window2") \/ FailsInFiles(h, HelperPlan)
    BY <2>1, HelperChange DEF Touch, HelperProgress
  <2>2. CASE \/ HelperClaim(h) \/ HelperBegin(h) \/ Kill(h) \/ Lock(h, "window2")
             \/ HelperBarrier(h) \/ Fails(h) \/ HelperFinish(h) \/ HelperRelease(h)
    BY <2>2 DEF HelperClaim, HelperBegin, Kill, Lock, HelperBarrier, Fails, HelperFinish,
                HelperRelease
  <2> QED BY <1>7, <2>1, <2>2 DEF HelperNext
<1>8. CASE WorkerDies BY <1>8 DEF WorkerDies
<1>9. CASE PowerLoss BY <1>9 DEF PowerLoss, Started, OldPhases
<1>10. ASSUME NEW p \in Recoverers, Dies(p) PROVE (Windowed /\ WatchdogKept)'
  BY <1>10 DEF Dies
<1>11. CASE UNCHANGED vars BY <1>11 DEF vars
<1> QED
  BY <1>1, <1>2, <1>3, <1>4, <1>5, <1>6, <1>7, <1>8, <1>9, <1>10, <1>11
  DEF Next, WorkerNext, WorkerEnds, WorkerSettles, WorkerChanges, WorkerMoves, WorkerRecords

\* What a recovery has restored stays restored, while it runs and afterwards.
LEMMA WorldStep ==
    IInv /\ [Next]_vars => (/\ LinkProgress /\ HelperProgress
                            /\ RestoredPairStays /\ RestoredSupervisorStays)'
<1> DEFINE Kept == /\ LinkProgress /\ HelperProgress
                   /\ RestoredPairStays /\ RestoredSupervisorStays
<1> SUFFICES ASSUME IInv, [Next]_vars PROVE Kept'
  OBVIOUS
<1> USE DEF IInv, TypeOK, Deploying, Claims, WorkerGone, LinkProgress, HelperProgress,
            RestoredPairStays, RestoredSupervisorStays, Recoverers, Recovering, Services,
            Groups, Goto, Free
<1>1. CASE WorkerEnds
  BY <1>1 DEF WorkerEnds, PublishWindow1, ClearSuccess, Unfinished, ClearRestored,
              ReportRequired
<1>2. CASE WorkerSettles
  BY <1>2 DEF WorkerSettles, LinkDone, FinishSettle, SettleLink, SettleHelper,
              Link!Commit, Help!Commit
<1>3. CASE WorkerChanges
  BY <1>3 DEF WorkerChanges, Native, RestoreService, RestoreConfig, RestoreConfigs
<1>4. CASE WorkerMoves \/ WorkerRecords
  BY <1>4 DEF WorkerMoves, Intend, ForwardFails, PublishWindow2, FinishBegins,
              FinishFails, Abandon, RestoreFails, WorkerRecords, Seal, ReportSuccess,
              Prove, ReportRestored
<1>5. ASSUME NEW r \in Sups, SupNext(r) PROVE Kept'
  <2>1. CASE Mutate(r, LinkPlan, "window1") \/ FailsInFiles(r, LinkPlan)
    BY <2>1, LinkChange DEF Touch
  <2>2. CASE Lock(r, "window1") BY <2>2 DEF Lock
  <2>3. CASE LinkBarrier(r) BY <2>3, LinkSteps DEF LinkBarrier
  <2>4. CASE LinkFinish(r) BY <2>4 DEF LinkFinish, Link!Settle
  <2>5. CASE \/ BootStart(r) \/ BootRefused(r) \/ LinkClaim(r) \/ LinkBegin(r) \/ Kill(r)
             \/ Fails(r) \/ LinkRelease(r) \/ BootLeaves(r)
    BY <2>5 DEF BootStart, BootRefused, LinkClaim, Link!Claim, LinkBegin, Link!Begin,
                Kill, Fails, LinkRelease, BootLeaves
  <2> QED BY <1>5, <2>1, <2>2, <2>3, <2>4, <2>5 DEF SupNext
<1>6. ASSUME NEW h \in Helpers, HelperNext(h) PROVE Kept'
  <2>1. CASE Mutate(h, HelperPlan, "window2") \/ FailsInFiles(h, HelperPlan)
    BY <2>1, HelperChange DEF Touch
  <2>2. CASE Lock(h, "window2") BY <2>2 DEF Lock
  <2>3. CASE HelperBarrier(h) BY <2>3, HelperSteps DEF HelperBarrier
  <2>4. CASE HelperFinish(h) BY <2>4 DEF HelperFinish, Help!Settle
  <2>5. CASE HelperClaim(h) \/ HelperBegin(h) \/ Kill(h) \/ Fails(h) \/ HelperRelease(h)
    BY <2>5 DEF HelperClaim, Help!Claim, HelperBegin, Help!Begin, Kill, Fails,
                HelperRelease
  <2> QED BY <1>6, <2>1, <2>2, <2>3, <2>4, <2>5 DEF HelperNext
<1>7. CASE WorkerDies BY <1>7 DEF WorkerDies
<1>8. CASE PowerLoss BY <1>8 DEF PowerLoss, Live, Started, OldPhases
<1>9. ASSUME NEW p \in Recoverers, Dies(p) PROVE Kept'
  BY <1>9 DEF Dies, Live
<1>10. CASE UNCHANGED vars BY <1>10 DEF vars
<1> QED
  BY <1>1, <1>2, <1>3, <1>4, <1>5, <1>6, <1>7, <1>8, <1>9, <1>10
  DEF Next, WorkerNext, WorkerEnds, WorkerSettles, WorkerChanges, WorkerMoves, WorkerRecords

-----------------------------------------------------------------------------
(* The theorems.                                                           *)

\* The inductive invariant holds throughout.
LEMMA Inductive == Spec => []IInv
<1>1. IInv /\ [Next]_vars => IInv'
  BY LockStep, TypeStep, RecordStep, WindowStep, WorldStep DEF IInv
<1> QED BY InitIInv, <1>1, PTL DEF Spec

\* Every variable of the operation stays in its set.
THEOREM TypeCorrect == Spec => []TypeOK
<1>1. IInv => TypeOK BY DEF IInv
<1> QED BY <1>1, Inductive, PTL

\* However many helpers and restarted supervisors there are, one process at a
\* time changes the terminal, and a recoverer only over a dead worker.
THEOREM MutatorSafe == Spec => []OneMutator
<1>1. IInv => OneMutator BY DEF IInv, Deploying, WorkerGone, OneMutator
<1> QED BY <1>1, Inductive, PTL

\* A reported end state is the one the terminal is in, for good.
THEOREM OutcomeSafe == Spec => []OutcomeHonest
<1>1. IInv => OutcomeHonest
  BY DEF IInv, Recorded, Sealed, Proved, OutcomeHonest, AllOld, AllNew, OldPhases,
         NewPhases
<1> QED BY <1>1, Inductive, PTL

\* A pair that was recorded RESTORED is never touched again.
THEOREM RestoredPairSafe == Spec => []RestoredPairStays
<1>1. IInv => RestoredPairStays BY DEF IInv
<1> QED BY <1>1, Inductive, PTL

\* The same for a supervisor that was recorded RESTORED.
THEOREM RestoredSupervisorSafe == Spec => []RestoredSupervisorStays
<1>1. IInv => RestoredSupervisorStays BY DEF IInv
<1> QED BY <1>1, Inductive, PTL

\* In window 1 nobody touches the supervisor that watches the pair.
THEOREM WatchdogSafe == Spec => []WatchdogKept
<1>1. IInv => WatchdogKept BY DEF IInv
<1> QED BY <1>1, Inductive, PTL

-----------------------------------------------------------------------------
(* The refinement of AtomicUpdate.                                         *)

\* A terminal of one version is whole in the abstract specification.
LEMMA WholeIs == /\ AllOld => Update!Whole("old")
                 /\ AllNew => Update!Whole("new")
  BY DEF AllOld, AllNew, Update!Whole, Version, OldPhases, Services, Groups

\* A start after a power loss does not change what a service runs.
LEMMA VersionKept ==
    ASSUME IInv, cfg' = cfg,
           svc' = svc \/ svc' = [s \in Services |-> Started(svc[s])]
    PROVE  UNCHANGED [p \in Services \cup Groups |-> Version(p)]
  BY DEF IInv, TypeOK, Version, Started, ServicePhases, OldPhases, NewPhases

\* The marker is active: the abstract operation is open.
LEMMA OpenIs == /\ marker \in Windows => phase = "open"
                /\ marker = "before" => phase = "idle"
                /\ marker = "clear" => phase = "closed"
  BY DEF phase, Windows

\* The worker, the supervisors and the helpers together implement the atomic
\* update: whoever respects the marker sees the old or the new terminal, whole.
THEOREM Implements == Spec => ImplementsAtomicUpdate
<1>1. Init => Update!Init
  <2> SUFFICES ASSUME Init PROVE Update!Init
    OBVIOUS
  <2>1. AllOld BY DEF Init, AllOld, Services, Groups
  <2> QED BY <2>1, WholeIs DEF Init, Update!Init, phase
<1>2. IInv /\ IInv' /\ [Next]_vars => [Update!Next]_(Update!vars)
  <2> SUFFICES ASSUME IInv, IInv', [Next]_vars
               PROVE [Update!Next]_(Update!vars)
    OBVIOUS
  <2> DEFINE version == [p \in Services \cup Groups |-> Version(p)]
  <2>a. ASSUME phase = "open", UNCHANGED <<marker, outcome>>,
               outcome \in {"none", "required"}
        PROVE  Update!Next
    <3>1. version' \in [Services \cup Groups -> Update!Versions]
      BY DEF IInv, TypeOK, Version, Update!Versions
    <3>2. phase' = phase BY <2>a DEF phase
    <3> QED BY <2>a, <3>1, <3>2 DEF Update!Next, Update!Change
  <2>b. ASSUME UNCHANGED <<marker, outcome>>, cfg' = cfg,
               svc' = svc \/ svc' = [s \in Services |-> Started(svc[s])]
        PROVE  UNCHANGED Update!vars
    <3>1. phase' = phase BY <2>b DEF phase
    <3> QED BY <2>b, <3>1, VersionKept DEF Update!vars
  <2>1. CASE WorkerEnds
    <3>1. CASE PublishWindow1
      <4>1. version' = version BY <3>1, VersionKept DEF PublishWindow1
      <4>2. outcome' = outcome /\ phase = "idle" /\ phase' \in {"idle", "open"}
        BY <3>1 DEF PublishWindow1, IInv, Windowed, phase
      <4> QED BY <4>1, <4>2 DEF Update!Next, Update!Open, Update!vars
    <3>2. CASE ClearSuccess
      <4>1. version' = version BY <3>2, VersionKept DEF ClearSuccess
      <4>2. /\ outcome' = outcome /\ outcome = "success" /\ phase = "open"
            /\ phase' \in {"open", "closed"}
        BY <3>2 DEF ClearSuccess, IInv, Windowed, Windows, Recorded, phase
      <4>3. Update!Whole("new") BY <3>2, WholeIs DEF ClearSuccess
      <4> QED BY <4>1, <4>2, <4>3 DEF Update!Next, Update!Close, Update!vars
    <3>3. CASE ClearRestored
      <4>1. version' = version BY <3>3, VersionKept DEF ClearRestored
      <4>2. /\ outcome' = outcome /\ outcome = "restored" /\ phase = "open"
            /\ phase' \in {"open", "closed"}
        BY <3>3 DEF ClearRestored, IInv, Windowed, Windows, Recorded, phase
      <4>3. Update!Whole("old") BY <3>3, WholeIs DEF ClearRestored
      <4> QED BY <4>1, <4>2, <4>3 DEF Update!Next, Update!Close, Update!vars
    <3>4. CASE ReportRequired
      <4>1. version' = version BY <3>4, VersionKept DEF ReportRequired
      <4>2. phase' = phase /\ phase = "open"
        BY <3>4 DEF ReportRequired, IInv, Windowed, Windows, phase
      <4>3. outcome' = outcome \/ (outcome = "none" /\ outcome' = "required")
        BY <3>4 DEF ReportRequired
      <4> QED BY <4>1, <4>2, <4>3 DEF Update!Next, Update!Report, Update!vars
    <3>5. CASE Unfinished BY <3>5, <2>b DEF Unfinished
    <3> QED BY <2>1, <3>1, <3>2, <3>3, <3>4, <3>5 DEF WorkerEnds
  <2>2. CASE WorkerSettles
    BY <2>2, <2>b DEF WorkerSettles, LinkDone, FinishSettle, SettleLink, SettleHelper
  <2>3. CASE WorkerChanges
    <3>1. wpc \in {"native", "restore"} /\ UNCHANGED <<marker, outcome>>
      BY <2>3 DEF WorkerChanges, Native, RestoreService, RestoreConfig, RestoreConfigs
    <3>2. phase = "open" /\ outcome = "none"
      BY <3>1, OpenIs DEF IInv, Windowed, Recorded
    <3> QED BY <2>a, <3>1, <3>2
  <2>4. CASE WorkerMoves
    <3>1. CASE PublishWindow2
      <4>1. version' = version BY <3>1, VersionKept DEF PublishWindow2
      <4>2. outcome' = outcome /\ phase' = phase
        BY <3>1 DEF PublishWindow2, phase
      <4> QED BY <4>1, <4>2 DEF Update!vars
    <3> QED
      BY <2>4, <2>b, <3>1 DEF WorkerMoves, Intend, ForwardFails, FinishBegins,
                              FinishFails, Abandon, RestoreFails
  <2>5. CASE WorkerRecords
    <3>1. version' = version /\ phase' = phase
      <4>1. cfg' = cfg /\ svc' = svc /\ marker' = marker
        BY <2>5 DEF WorkerRecords, Seal, ReportSuccess, Prove, ReportRestored
      <4> QED BY <4>1, VersionKept DEF phase
    <3>2. phase = "open"
      BY <2>5, OpenIs DEF WorkerRecords, Seal, ReportSuccess, Prove, ReportRestored, IInv,
                          Windowed
    <3>3. CASE Seal \/ Prove BY <3>1, <3>3 DEF Seal, Prove, Update!vars
    <3>4. CASE ReportSuccess
      <4>1. Update!Whole("new") BY <3>4, WholeIs DEF ReportSuccess, IInv, Sealed
      <4>2. outcome' = "success" /\ outcome \in {"none", "success"}
        BY <3>4 DEF ReportSuccess, IInv, Recorded
      <4> QED BY <3>1, <3>2, <4>1, <4>2 DEF Update!Next, Update!Report, Update!vars
    <3>5. CASE ReportRestored
      <4>1. Update!Whole("old")
        BY <3>5, WholeIs DEF ReportRestored, IInv, Recorded, Proved
      <4>2. outcome' = "restored" /\ outcome = "none"
        BY <3>5 DEF ReportRestored, IInv, Recorded
      <4> QED BY <3>1, <3>2, <4>1, <4>2 DEF Update!Next, Update!Report
    <3> QED BY <2>5, <3>3, <3>4, <3>5 DEF WorkerRecords
  <2>c. ASSUME NEW p \in Recoverers, pc[p] = "mutate"
        PROVE  phase = "open" /\ outcome \in {"none", "required"}
    <3>1. marker \in Windows
      BY <2>c DEF IInv, LinkProgress, HelperProgress, Recoverers, Windows
    <3>2. cdec = "started" \/ hdec = "started"
      BY <2>c DEF IInv, Claims, Recovering, Recoverers
    <3> QED BY <3>1, <3>2, OpenIs DEF IInv, TypeOK, Recorded, Sealed, Proved
  <2>6. ASSUME NEW r \in Sups, SupNext(r) PROVE [Update!Next]_(Update!vars)
    <3>1. CASE Mutate(r, LinkPlan, "window1") \/ FailsInFiles(r, LinkPlan)
      BY <2>a, <2>c, <3>1 DEF Mutate, FailsInFiles, Recoverers
    <3>2. CASE \/ BootStart(r) \/ BootRefused(r) \/ LinkClaim(r) \/ LinkBegin(r)
               \/ Kill(r) \/ Lock(r, "window1") \/ LinkBarrier(r) \/ Fails(r)
               \/ LinkFinish(r) \/ LinkRelease(r) \/ BootLeaves(r)
      BY <3>2, <2>b DEF BootStart, BootRefused, LinkClaim, LinkBegin, Kill, Lock,
                        LinkBarrier, Fails, LinkFinish, LinkRelease, BootLeaves
    <3> QED BY <2>6, <3>1, <3>2 DEF SupNext
  <2>7. ASSUME NEW h \in Helpers, HelperNext(h) PROVE [Update!Next]_(Update!vars)
    <3>1. CASE Mutate(h, HelperPlan, "window2") \/ FailsInFiles(h, HelperPlan)
      BY <2>a, <2>c, <3>1 DEF Mutate, FailsInFiles, Recoverers
    <3>2. CASE \/ HelperClaim(h) \/ HelperBegin(h) \/ Kill(h) \/ Lock(h, "window2")
               \/ HelperBarrier(h) \/ Fails(h) \/ HelperFinish(h) \/ HelperRelease(h)
      BY <3>2, <2>b DEF HelperClaim, HelperBegin, Kill, Lock, HelperBarrier, Fails,
                        HelperFinish, HelperRelease
    <3> QED BY <2>7, <3>1, <3>2 DEF HelperNext
  <2>8. CASE WorkerDies BY <2>8, <2>b DEF WorkerDies
  <2>9. CASE PowerLoss BY <2>9, <2>b DEF PowerLoss
  <2>10. ASSUME NEW p \in Recoverers, Dies(p) PROVE [Update!Next]_(Update!vars)
    BY <2>10, <2>b DEF Dies
  <2>11. CASE UNCHANGED vars BY <2>11, <2>b DEF vars
  <2> QED
    BY <2>1, <2>2, <2>3, <2>4, <2>5, <2>6, <2>7, <2>8, <2>9, <2>10, <2>11
    DEF Next, WorkerNext, WorkerEnds, WorkerSettles, WorkerChanges, WorkerMoves,
        WorkerRecords
<1> QED BY <1>1, <1>2, Inductive, PTL DEF Spec, ImplementsAtomicUpdate, Update!Spec

-----------------------------------------------------------------------------
(***************************************************************************)
(* What a writer was told stays in the journal, for every limit, number of *)
(* records and number of power losses.                                     *)
(*                                                                         *)
(* AckedKept is not inductive: a record survives a power loss only because *)
(* a flush covered it before its writer was told (AckedSynced), and it is  *)
(* stored under the number it was told only because the handle's own count *)
(* agrees with the file until the handle is poisoned (HandleRight).        *)
(***************************************************************************)

\* The writer's handle agrees with the file until it is poisoned.
HandleRight ==
    /\ header # "whole" => frames = <<>> /\ writerPc = "none"
    /\ part > 0 => Len(frames) < Limit
    /\ writerPc \in {"payload", "marker", "flush"} => offered > 0 /\ ~poisoned
    /\ writerPc \in {"ready", "payload", "marker"} /\ ~poisoned => known = Len(frames)
    /\ writerPc \in {"payload", "marker"} => known < Limit
    /\ writerPc = "flush" => known + 1 = Len(frames) /\ frames[known + 1] = offered

\* A confirmed record is covered by a flush.
AckedSynced == \A a \in acked : a[1] <= synced /\ frames[a[1]] = a[2]

JournalIInv == JournalTypeOK /\ HandleRight /\ AckedSynced

USE JournalAssumption DEF file, writer, reader

\* A prefix of the file keeps the records it covers.
LEMMA Prefix ==
    ASSUME NEW S, NEW q \in Seq(S), NEW n \in 0 .. Len(q)
    PROVE  /\ SubSeq(q, 1, n) \in Seq(S) /\ Len(SubSeq(q, 1, n)) = n
           /\ \A i \in 1 .. n : SubSeq(q, 1, n)[i] = q[i]
  OBVIOUS

\* A new frame leaves the older ones where they are.
LEMMA Longer ==
    ASSUME NEW S, NEW q \in Seq(S), NEW e \in S
    PROVE  /\ Append(q, e) \in Seq(S) /\ Len(Append(q, e)) = Len(q) + 1
           /\ \A i \in 1 .. Len(q) : Append(q, e)[i] = q[i]
           /\ Append(q, e)[Len(q) + 1] = e
  OBVIOUS

\* The initial state satisfies the inductive invariant.
LEMMA JournalInitIInv == JournalInit => JournalIInv
<1> SUFFICES ASSUME JournalInit PROVE JournalIInv
  OBVIOUS
<1>1. JournalTypeOK
  <2>1. frames \in Seq(1 .. MaxRecords) /\ Len(frames) = 0 /\ seen \in Seq(1 .. MaxRecords)
    BY DEF JournalInit
  <2>2. poisoned \in BOOLEAN /\ damaged \in BOOLEAN /\ held \in BOOLEAN BY DEF JournalInit
  <2> QED BY <2>1, <2>2 DEF JournalInit, JournalTypeOK
<1>2. HandleRight BY DEF JournalInit, HandleRight
<1>3. AckedSynced BY DEF JournalInit, AckedSynced
<1> QED BY <1>1, <1>2, <1>3 DEF JournalIInv

\* Every step of the writer, of a reader and of a power loss keeps it.
LEMMA JournalStepIInv == JournalIInv /\ [JournalNext]_journalVars => JournalIInv'
<1> SUFFICES ASSUME JournalIInv, [JournalNext]_journalVars PROVE JournalIInv'
  OBVIOUS
<1> USE DEF JournalIInv, JournalTypeOK, HandleRight, AckedSynced
<1>1. CASE Create
  <2>1. JournalTypeOK'
    <3>1. UNCHANGED <<frames, part, damaged, synced, offered, acked, reader, powerLosses>>
      BY <1>1 DEF Create
    <3>2. /\ header' \in {"none", "part", "whole"} /\ writerPc' \in {"none", "ready"}
          /\ poisoned' = FALSE /\ known' = 0
      BY <1>1 DEF Create
    <3>3. known' \in 0 .. Limit BY <3>2
    <3>4. /\ frames' \in Seq(1 .. MaxRecords) /\ Len(frames') <= Limit
          /\ synced' \in 0 .. Len(frames')
      BY <3>1
    <3>5. poisoned' \in BOOLEAN BY <3>2, Zenon
    <3> QED BY <3>1, <3>2, <3>3, <3>4, <3>5
  <2>2. HandleRight' BY <1>1 DEF Create
  <2>3. AckedSynced' BY <1>1 DEF Create
  <2> QED BY <2>1, <2>2, <2>3
<1>2. CASE Open
  <2>1. JournalTypeOK'
    <3>1. UNCHANGED <<header, frames, damaged, offered, acked, reader, powerLosses>>
      BY <1>2 DEF Open
    <3>2. /\ part' \in 0 .. 2 /\ writerPc' \in {"none", "ready"} /\ poisoned' = FALSE
          /\ known' \in {known, Len(frames)} /\ synced' \in {synced, Len(frames)}
      BY <1>2 DEF Open
    <3>3. known' \in 0 .. Limit /\ synced' \in 0 .. Len(frames) BY <3>2
    <3> QED BY <3>1, <3>2, <3>3
  <2>2. HandleRight' BY <1>2 DEF Open, Scans
  <2>3. AckedSynced' BY <1>2 DEF Open, Scans
  <2> QED BY <2>1, <2>2, <2>3
<1>3. CASE AppendBegin BY <1>3 DEF AppendBegin
<1>4. CASE AppendPayload BY <1>4 DEF AppendPayload
<1>5. CASE AppendMarker
  <2>1. JournalTypeOK' BY <1>5, Longer DEF AppendMarker
  <2>2. HandleRight' BY <1>5, Longer DEF AppendMarker
  <2>3. AckedSynced' BY <1>5, Longer DEF AppendMarker
  <2> QED BY <2>1, <2>2, <2>3
<1>6. CASE AppendFlush BY <1>6 DEF AppendFlush
<1>7. CASE AppendFails BY <1>7 DEF AppendFails
<1>8. CASE WriterGone BY <1>8 DEF WriterGone
<1>9. CASE LiveSize BY <1>9 DEF LiveSize, Units
<1>10. CASE LiveRead
  <2>1. JournalTypeOK'
    <3>1. seen' \in Seq(1 .. MaxRecords)
      <4>1. CASE seen' = <<>> BY <4>1
      <4>2. CASE size <= Units /\ size % 3 = 0 /\ seen' = SubSeq(frames, 1, size \div 3)
        <5>1. size \div 3 \in 0 .. Len(frames) BY <4>2 DEF Units
        <5> QED BY <4>2, <5>1, Prefix
      <4> QED BY <1>10, <4>1, <4>2 DEF LiveRead
    <3> QED BY <1>10, <3>1 DEF LiveRead
  <2>2. HandleRight' BY <1>10, Prefix DEF LiveRead, Units
  <2>3. AckedSynced' BY <1>10, Prefix DEF LiveRead, Units
  <2> QED BY <2>1, <2>2, <2>3
<1>11. CASE LiveCompare \/ LiveClose
  <2>1. JournalTypeOK' BY <1>11 DEF LiveCompare, LiveClose
  <2>2. HandleRight' BY <1>11, SMTT(40) DEF LiveCompare, LiveClose
  <2>3. AckedSynced' BY <1>11 DEF LiveCompare, LiveClose
  <2> QED BY <2>1, <2>2, <2>3
<1>12. CASE HoldImmutable \/ ReleaseImmutable
  <2>1. JournalTypeOK' BY <1>12 DEF HoldImmutable, ReleaseImmutable
  <2>2. HandleRight' BY <1>12 DEF HoldImmutable, ReleaseImmutable
  <2>3. AckedSynced' BY <1>12 DEF HoldImmutable, ReleaseImmutable
  <2> QED BY <2>1, <2>2, <2>3
<1>13. CASE JournalPowerLoss
  <2>0. PICK n \in synced .. Len(frames) :
           /\ frames' = SubSeq(frames, 1, n)
           /\ \/ part' = 0 /\ UNCHANGED damaged
              \/ /\ n < Len(frames) \/ part > 0
                 /\ part' \in {1, 2} /\ damaged' \in {damaged, TRUE}
    BY <1>13 DEF JournalPowerLoss
  <2>a. frames' \in Seq(1 .. MaxRecords) /\ Len(frames') = n BY <2>0, Prefix, SMTT(40)
  <2>b. part' \in 0 .. 2 /\ (part' > 0 => n < Limit)
    <3>1. n < Len(frames) \/ part > 0 => n < Limit OBVIOUS
    <3>2. part' = 0 \/ (part' \in {1, 2} /\ (n < Len(frames) \/ part > 0))
      BY <2>0, Zenon
    <3> QED BY <3>1, <3>2
  <2>1. JournalTypeOK'
    <3>1. damaged' \in BOOLEAN BY <2>0
    <3>2. synced' \in 0 .. Len(frames') /\ Len(frames') <= Limit
      BY <1>13, <2>a DEF JournalPowerLoss
    <3>3. /\ UNCHANGED <<header, poisoned, known, offered, acked, size, seen>>
          /\ powerLosses' \in 0 .. MaxPowerLoss /\ writerPc' = "none" /\ live' = "idle" /\ held' = FALSE
      BY <1>13 DEF JournalPowerLoss
    <3> QED BY <2>a, <2>b, <3>1, <3>2, <3>3
  <2>2. HandleRight'
    <3>1. header # "whole" => frames' = <<>> BY <2>0, <2>a
    <3> QED BY <1>13, <2>a, <2>b, <3>1 DEF JournalPowerLoss
  <2>3. AckedSynced'
    <3>1. \A i \in 1 .. n : frames'[i] = frames[i] BY <2>0, Prefix
    <3> QED BY <1>13, <3>1 DEF JournalPowerLoss
  <2> QED BY <2>1, <2>2, <2>3
<1>14. CASE UNCHANGED journalVars BY <1>14 DEF journalVars
<1> QED
  BY <1>1, <1>2, <1>3, <1>4, <1>5, <1>6, <1>7, <1>8, <1>9, <1>10, <1>11, <1>12, <1>13,
     <1>14 DEF JournalNext

\* The inductive invariant holds throughout.
LEMMA JournalInductive == JournalSpec => []JournalIInv
<1> QED BY JournalInitIInv, JournalStepIInv, PTL DEF JournalSpec

\* Every variable of the journal stays in its set; in particular the file never
\* outgrows its limit.
THEOREM JournalTyped == JournalSpec => []JournalTypeOK
<1>1. JournalIInv => JournalTypeOK BY DEF JournalIInv
<1> QED BY <1>1, JournalInductive, PTL

\* A confirmed record is in the file under its number, whatever crashed since.
THEOREM AckedSafe == JournalSpec => []AckedKept
<1>1. JournalIInv => AckedKept BY DEF JournalIInv, JournalTypeOK, AckedSynced, AckedKept
<1> QED BY <1>1, JournalInductive, PTL
=============================================================================
