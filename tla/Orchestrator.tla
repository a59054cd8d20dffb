---------------------------- MODULE Orchestrator ----------------------------
(***************************************************************************)
(* The terminal supervisor (l4superv): the cycle that follows the device   *)
(* certificate from the store through Leo4Proxy to the broker's bridge     *)
(* configuration, keeps the services and the l4desk process running,       *)
(* redeems a pending PIN, resets a cloned disk, and stands still while an  *)
(* update window is open.                                                  *)
(*                                                                         *)
(* A cycle is a sequence of phases (pc) because each of them takes seconds *)
(* and the world moves meanwhile: the proxy polls the store, services die, *)
(* a certificate is installed, the supervisor itself is killed.            *)
(***************************************************************************)
EXTENDS Integers, FiniteSets

CONSTANTS
  Tp,          \* certificates, numbered by their NotAfter: a later one is a larger number
  Sn,          \* certificate -> device serial number
  Hosts,       \* hardware fingerprints the disk may run on
  Sessions,    \* console sessions (0 is "none")
  Prepared,    \* broker configurations set-up may have left behind
  MaxFail,     \* service operations and saves that fail
  MaxCrash,    \* crashes of the supervisor
  MaxMove,     \* times the disk is put into another machine
  MaxDown,     \* deaths of the proxy, the broker, L4Con or l4desk
  MaxCorrupt,  \* times mosquitto.conf is overwritten
  MaxPin,      \* pending PIN files
  MaxWindow    \* update windows

\* What the constants satisfy
TpAssumption == Tp \subseteq Nat \ {0}
SnAssumption == \A t \in Tp : Sn[t] \notin {"standby", "bad"}

VARIABLES
  store, newest, host, console,          \* LocalMachine\MY, the last certificate it has held, the machine, the logged-on session
  proxy, conf, broker, con, desk,        \* Leo4Proxy, mosquitto.conf, mosquitto, L4Con, l4desk
  pin, pinproc,                          \* pending_pin.json and an l4pin that outlived its wait
  window, drained,                       \* update.state and the acknowledged drain
  disk, mem, up, pc, q, cs,              \* state.json, L4State, the process and its cycle
  backoff,                               \* g_l4desk_backoff_sec
  fails, crashes, moves, downs, corrupts, pins, windows   \* what the bounds have left

world == <<store, newest, host, console>>
svcs  == <<proxy, conf, broker, con>>
upd   == <<pin, pinproc, window, drained>>
sup   == <<disk, mem, up, pc, q, cs, backoff>>
left  == <<fails, crashes, moves, downs, corrupts, pins, windows>>
vars  == <<world, svcs, desk, upd, sup, left>>

NoDesk == [sn |-> "none", session |-> 0]
Idle == <<"idle", "">>
SnOf(t) == IF t = 0 THEN "none" ELSE Sn[t]
cert_discover(s) == IF s = {} THEN 0 ELSE CHOOSE t \in s : \A u \in s : u <= t

Phases == {"idle", "query", "clean", "gen", "stack", "save", "pin", "health"}
Kinds == {"", "link", "renew", "repair", "off", "clone"}
States == [active : BOOLEAN, tp : Tp \cup {0}, fp : Hosts \cup {"none"}]
Blank(fp) == [active |-> FALSE, tp |-> 0, fp |-> fp]

(* Types and bounds of the whole state. *)
TypeOK ==
  /\ store \subseteq Tp /\ newest \in Tp \cup {0} /\ host \in Hosts /\ console \in Sessions \cup {0}
  /\ proxy \in [run : BOOLEAN, tp : Tp \cup {0}]
  /\ conf \in {"standby", "bad"} \cup {Sn[t] : t \in Tp}
  /\ broker \in [run : BOOLEAN, conf : {"standby", "bad"} \cup {Sn[t] : t \in Tp}]
  /\ con \in BOOLEAN /\ desk.session \in Sessions \cup {0}
  /\ pin \in {"none", "good", "bad"} /\ pinproc \in {"none", "owned", "orphan"}
  /\ window \in 0..2 /\ drained \in BOOLEAN
  /\ disk \in States /\ mem \in States /\ up \in BOOLEAN
  /\ pc[1] \in Phases /\ pc[2] \in Kinds /\ (~up => pc = Idle)
  /\ q \in Tp \cup {-1, 0} /\ cs \in Tp \cup {0} /\ backoff \in {0, 5, 10, 30, 300}

Init ==
  /\ store \in {{}, {1} \cap Tp} /\ newest = cert_discover(store)
  /\ host \in Hosts /\ console \in Sessions \cup {0}
  /\ proxy = [run |-> TRUE, tp |-> 0] /\ conf \in Prepared
  /\ broker = [run |-> TRUE, conf |-> conf] /\ con = TRUE /\ desk = NoDesk
  /\ pin = "none" /\ pinproc = "none" /\ window = 0 /\ drained = FALSE
  /\ disk = Blank("none") /\ mem = disk /\ up = TRUE /\ pc = Idle /\ q = 0 /\ cs = 0 /\ backoff = 5
  /\ fails = 0 /\ crashes = 0 /\ moves = 0 /\ downs = 0 /\ corrupts = 0 /\ pins = 0 /\ windows = 0

(***************************************************************************)
(* Operations on services.  Each gives the set of its outcomes; one that   *)
(* failed spends a failure.                                                *)
(***************************************************************************)
Outcome(ok, b, c) == [ok |-> ok, broker |-> b, con |-> c]
Up(c) == [run |-> TRUE, conf |-> c]
Down(b) == [b EXCEPT !.run = FALSE]
MayFail == fails < MaxFail

(* A service that is to be stopped and started: it runs anew, still runs, or is down. *)
svc_restart == {Outcome(TRUE, Up(conf), con)} \cup
  IF MayFail THEN {Outcome(FALSE, broker, con), Outcome(FALSE, Down(broker), FALSE)} ELSE {}

(* L4Con is stopped before the broker and comes back after it, if it ran.  The *)
(* failures: L4Con does not stop, or the broker does not (L4Con comes back);   *)
(* the broker does not start; L4Con does not start.                            *)
svc_restart_mqtt_stack == svc_restart \cup IF MayFail THEN {Outcome(FALSE, Up(conf), FALSE)} ELSE {}

Stepped(next) == pc' = next
Spend(ok) == fails' = IF ok THEN fails ELSE fails + 1
Rest(next) == Stepped(next) /\ UNCHANGED <<crashes, moves, downs, corrupts, pins, windows>>

(***************************************************************************)
(* The cycle.                                                              *)
(***************************************************************************)
(* A cycle starts under the shared admission lock, and only if no l4pin is left *)
(* over and update.state says that no window is open.                           *)
Admitted == pinproc # "owned" /\ window = 0

(* Certificate discovery and the fingerprint: another machine resets the disk. *)
orchestrator_step ==
  /\ up /\ pc = Idle /\ Admitted
  /\ cs' = cert_discover(store)
  /\ IF mem.fp \notin {"none", host}
       THEN Rest(<<"clean", "clone">>) /\ UNCHANGED <<mem, disk, fails>>
       ELSE /\ Rest(<<"query", "">>) /\ mem' = [mem EXCEPT !.fp = host]
            /\ \/ mem.fp = "none" /\ disk' = mem' /\ UNCHANGED fails
               \/ mem.fp = "none" /\ MayFail /\ Spend(FALSE) /\ UNCHANGED disk
               \/ mem.fp # "none" /\ UNCHANGED <<disk, fails>>
  /\ UNCHANGED <<world, svcs, desk, upd, up, q, backoff>>

\* Mutant: a damaged configuration is not looked for.
Transition_NoRepair(t) == IF ~mem.active \/ SnOf(mem.tp) # SnOf(t) THEN "link" ELSE IF t # mem.tp THEN "renew" ELSE ""
(* mosquitto.conf as its two readers see it. *)
mosquitto_conf_is_standby == conf = "standby"
mosquitto_conf_is_active_with_sn(t) == conf = SnOf(t)

(* What the proxy's answer asks for: the first link or another device, the same *)
(* device with a new certificate, a configuration that is not this device's.    *)
Transition(t) ==
  IF ~mem.active \/ SnOf(mem.tp) # SnOf(t) THEN "link"
  ELSE IF t # mem.tp THEN "renew"
  ELSE IF ~mosquitto_conf_is_active_with_sn(t) THEN "repair" ELSE ""

(* Set-up has already linked this device: nothing is to be restarted. *)
prepared_first_link(t) == mem.tp = 0 /\ cs = t /\ Cardinality(store) = 1 /\ mosquitto_conf_is_active_with_sn(t) /\ broker.run /\ con

(* One answer of the proxy decides the rest of the cycle.  No answer is no change. *)
proxy_client_query_info ==
  /\ pc = <<"query", "">>
  /\ IF ~proxy.run
       THEN q' = -1 /\ Rest(<<"health", "">>) /\ UNCHANGED <<proxy, fails, backoff>>
     ELSE IF proxy.tp # 0 /\ cs \notin {0, proxy.tp} /\ Cardinality(store) = 1
       \* the store and the proxy disagree: the proxy is restarted and the cycle ends
       THEN /\ q' = proxy.tp /\ Rest(Idle) /\ UNCHANGED backoff
            /\ \/ proxy' = [run |-> TRUE, tp |-> 0] /\ UNCHANGED fails
               \/ MayFail /\ Spend(FALSE) /\ proxy' \in {proxy, [run |-> FALSE, tp |-> 0]}
               \/ UNCHANGED <<proxy, fails>>   \* within g_proxy_identity_retry_ms of the last one
     ELSE /\ q' = proxy.tp /\ UNCHANGED <<proxy, fails>>
          /\ backoff' = IF proxy.tp # 0 /\ ~mem.active THEN 0 ELSE backoff
          /\ IF proxy.tp = 0
               THEN Rest(IF mem.active \/ ~mosquitto_conf_is_standby THEN <<"gen", "off">> ELSE <<"pin", "">>)
               ELSE LET k == Transition(proxy.tp) IN
                    Rest(IF k = "link" /\ prepared_first_link(proxy.tp) THEN <<"save", "link">>
                         ELSE IF k = "" THEN <<"health", "">>
                         ELSE IF k = "renew" THEN <<"stack", k>> ELSE <<"gen", k>>)
  /\ UNCHANGED <<world, conf, broker, con, desk, upd, disk, mem, up, cs>>

(* A transition that failed ends the cycle; a failed way to standby goes on to the services. *)
Failed(k) == IF k = "off" THEN <<"health", "">> ELSE IF k = "clone" THEN <<"stack", "clone">> ELSE Idle

(* What follows a new configuration. *)
Generated(k) == <<"stack", k>>

(* The profile that is written: the local one, or the bridge of the device. *)
write_profile(k) == IF k \in {"off", "clone"} THEN "standby" ELSE SnOf(q)

(* mosquitto_conf_generate_active / _standby: candidate, then an atomic replacement. *)
mosquitto_conf_generate ==
  /\ pc[1] = "gen"
  /\ \/ /\ conf' = write_profile(pc[2])
        /\ Rest(Generated(pc[2])) /\ UNCHANGED fails
     \/ MayFail /\ Spend(FALSE) /\ Rest(Failed(pc[2])) /\ UNCHANGED conf
  /\ UNCHANGED <<world, proxy, broker, con, desk, upd, disk, mem, up, q, cs, backoff>>

(* Where the restart leads. *)
Stacked(k, ok) == IF ~ok THEN Failed(k) ELSE IF k = "repair" THEN <<"health", "">> ELSE <<"save", k>>

restart_stack ==
  /\ pc[1] = "stack" /\ pc[2] # "clone"
  /\ \E o \in svc_restart_mqtt_stack :
       broker' = o.broker /\ con' = o.con /\ Spend(o.ok) /\ Rest(Stacked(pc[2], o.ok))
  /\ UNCHANGED <<world, proxy, conf, desk, upd, disk, mem, up, q, cs, backoff>>

\* Mutant: the desk agent is left running when the device changes.
sp_stop_Never(k) == desk
(* Another device: l4desk has cached the old serial number and is stopped first. *)
sp_stop(k) == IF k = "link" /\ SnOf(mem.tp) # SnOf(q) THEN NoDesk ELSE desk

(* The new identity is committed by replacing state.json; if that fails the old *)
(* one is restored in memory.  The standby state is kept in memory either way.  *)
state_save ==
  /\ pc[1] = "save" /\ pc[2] # "clone"
  /\ desk' = sp_stop(pc[2])
  /\ LET new == IF pc[2] = "off" THEN [mem EXCEPT !.active = FALSE, !.tp = 0] ELSE [mem EXCEPT !.active = TRUE, !.tp = q]
     IN \/ disk' = new /\ mem' = new /\ UNCHANGED fails /\ Rest(IF pc[2] = "off" THEN <<"pin", "">> ELSE <<"health", "">>)
        \/ /\ MayFail /\ Spend(FALSE) /\ UNCHANGED disk
           /\ mem' = IF pc[2] = "off" THEN new ELSE mem
           /\ Rest(IF pc[2] = "off" THEN <<"pin", "">> ELSE Idle)
  /\ UNCHANGED <<world, svcs, upd, up, q, cs, backoff>>

(* A PIN is redeemed by l4pin, awaited for a minute.  It succeeds (the certificate is *)
(* in the store, the file goes), is refused (the file goes), cannot reach the CA or   *)
(* fails otherwise (the file stays), or does not even end when it is terminated.      *)
Later == {t \in Tp : t > newest}
Install == Later # {} /\ newest' = (CHOOSE t \in Later : \A u \in Later : t <= u) /\ store' = {newest'}
(* Neither the local listener of the proxy nor the cloud answers: the file stays. *)
check_ca_reachability == pin = "good" /\ UNCHANGED <<pin, pinproc, store, newest>>
process_pending_pin ==
  /\ pc = <<"pin", "">> /\ Rest(<<"health", "">>)
  /\ \/ pin = "none" /\ UNCHANGED <<pin, pinproc, store, newest>>
     \/ pin = "bad" /\ pin' = "none" /\ UNCHANGED <<pinproc, store, newest>>
     \/ check_ca_reachability
     \/ pin = "good" /\ Install /\ pin' = "none" /\ UNCHANGED pinproc
     \/ pin = "good" /\ pinproc = "none" /\ pinproc' = "owned" /\ UNCHANGED <<pin, store, newest>>
  /\ UNCHANGED <<host, console, svcs, desk, window, drained, disk, mem, up, q, cs, backoff, fails>>

(* No token of the session is strong enough: a long wait. *)
sp_select_target_token == <<NoDesk, 300>>
(* A process in the session: it starts, has no token, or fails otherwise. *)
sp_start_in_session_ex(b) ==
  {<<[sn |-> "none", session |-> console], 5>>} \cup
  IF MayFail THEN {sp_select_target_token, <<NoDesk, IF b = 5 THEN 10 ELSE 30>>} ELSE {}

(* l4desk in the console session: stopped without one or in the wrong one, started    *)
(* after the back-off.                                                                *)
Desk(d, b) ==
  IF ~mem.active \/ console = 0 THEN {<<NoDesk, b>>}
  ELSE IF d # NoDesk /\ d.session = console THEN {<<d, b>>}
  ELSE {<<NoDesk, b>>} \cup sp_start_in_session_ex(b)

(* The watchdog: what is stopped is started, l4desk follows the session, state.json *)
(* is written once more.                                                            *)
service_health ==
  /\ pc = <<"health", "">> /\ Rest(Idle)
  /\ \E fp, fb, fc, fs \in (IF MayFail THEN BOOLEAN ELSE {FALSE}), d \in Desk(desk, backoff) :
       /\ Cardinality({x \in {<<1, fp>>, <<2, fb>>, <<3, fc>>, <<4, fs>>} : x[2]}) <= 1
       /\ (fp => ~proxy.run) /\ (fb => ~broker.run) /\ (fc => ~con)
       /\ proxy' = IF proxy.run \/ fp THEN proxy ELSE [run |-> TRUE, tp |-> 0]
       /\ broker' = IF broker.run \/ fb THEN broker ELSE Up(conf)
       /\ con' = (con \/ ~fc)
       /\ desk' = d[1] /\ backoff' = d[2]
       /\ disk' = IF fs THEN disk ELSE mem
       /\ Spend(~(fp \/ fb \/ fc \/ fs \/ d[2] \in {10, 30, 300} \ {backoff}))
  /\ UNCHANGED <<world, conf, upd, mem, up, q, cs>>

(* Another machine: the certificates are erased, the state is reset and saved, the broker  *)
(* is put on the local configuration, everything is restarted.  No result is looked at.    *)
clone_clean ==
  /\ pc = <<"clean", "clone">> /\ Rest(<<"save", "clone">>)
  /\ store' = {}
  /\ UNCHANGED <<newest, host, console, svcs, desk, upd, disk, mem, up, q, cs, backoff, fails>>

clone_save ==
  /\ pc = <<"save", "clone">> /\ Rest(<<"gen", "clone">>)
  /\ mem' = Blank(host)
  /\ \/ disk' = mem' /\ UNCHANGED fails
     \/ MayFail /\ Spend(FALSE) /\ UNCHANGED disk
  /\ UNCHANGED <<world, svcs, desk, upd, up, q, cs, backoff>>

clone_restart ==
  /\ pc = <<"stack", "clone">> /\ Rest(Idle)
  /\ \E o \in svc_restart_mqtt_stack, fp, fc \in (IF MayFail THEN BOOLEAN ELSE {FALSE}) :
       /\ Cardinality({x \in {<<1, ~o.ok>>, <<2, fp>>, <<3, fc>>} : x[2]}) <= 1
       /\ broker' = o.broker /\ con' = ~fc
       /\ proxy' = IF fp THEN proxy ELSE [run |-> TRUE, tp |-> 0]
       /\ Spend(o.ok /\ ~fp /\ ~fc)
  /\ desk' = NoDesk
  /\ UNCHANGED <<world, conf, upd, disk, mem, up, q, cs, backoff>>

Step == \/ orchestrator_step \/ proxy_client_query_info \/ mosquitto_conf_generate \/ restart_stack \/ state_save
        \/ process_pending_pin \/ service_health \/ clone_clean \/ clone_save \/ clone_restart

(***************************************************************************)
(* Updates.                                                                *)
(***************************************************************************)
(* The updater publishes window 1, then 2, then none. *)
l4_update_state_publish ==
  /\ window # 0 \/ windows < MaxWindow
  /\ window' = (window + 1) % 3 /\ drained' = FALSE
  /\ windows' = IF window = 0 THEN windows + 1 ELSE windows
  /\ UNCHANGED <<world, svcs, desk, pin, pinproc, sup, fails, crashes, moves, downs, corrupts, pins>>

(* The exclusive lock is free between two cycles only, and no l4pin may be left over. *)
Quiet == pc = Idle /\ pinproc # "owned"

l4_update_consumer_drain ==
  /\ up /\ window # 0 /\ ~drained /\ Quiet /\ drained' = TRUE
  /\ UNCHANGED <<world, svcs, desk, pin, pinproc, window, sup, left>>

(***************************************************************************)
(* The rest of the terminal.                                               *)
(***************************************************************************)
(* Leo4Proxy looks at the store: it loads, swaps or drops its certificate. *)
ProxyPoll ==
  /\ proxy.run /\ proxy.tp # cert_discover(store) /\ proxy' = [proxy EXCEPT !.tp = cert_discover(store)]
  /\ UNCHANGED <<world, conf, broker, con, desk, upd, sup, left>>

(* l4desk asks the proxy for its serial number until it has one, and keeps it. *)
DeskIdentifies ==
  /\ desk # NoDesk /\ desk.sn = "none" /\ proxy.tp # 0 /\ desk' = [desk EXCEPT !.sn = Sn[proxy.tp]]
  /\ UNCHANGED <<world, svcs, upd, sup, left>>

(* An l4pin that outlived its wait ends at last, with or without a certificate. *)
PinExits ==
  /\ pinproc # "none" /\ pinproc' = "none" /\ (Install \/ UNCHANGED <<store, newest>>)
  /\ UNCHANGED <<host, console, svcs, desk, pin, window, drained, sup, left>>

(* A newer certificate replaces the one in the store, or the last one goes. *)
Certificate ==
  /\ Install \/ (store # {} /\ store' = {} /\ UNCHANGED newest)
  /\ UNCHANGED <<host, console, svcs, desk, upd, sup, left>>

PinFile ==
  /\ pins < MaxPin /\ pin = "none" /\ pin' \in {"good", "bad"} /\ pins' = pins + 1
  /\ UNCHANGED <<world, svcs, desk, pinproc, window, drained, sup, fails, crashes, moves, downs, corrupts, windows>>

Logon ==
  /\ \E s \in Sessions \cup {0} : s # console /\ console' = s
  /\ downs < MaxDown /\ downs' = downs + 1
  /\ UNCHANGED <<store, newest, host, svcs, desk, upd, sup, fails, crashes, moves, corrupts, pins, windows>>

Dies ==
  /\ downs < MaxDown /\ downs' = downs + 1
  /\ \/ proxy.run /\ proxy' = [run |-> FALSE, tp |-> 0] /\ UNCHANGED <<broker, con, desk>>
     \/ broker.run /\ broker' = Down(broker) /\ UNCHANGED <<proxy, con, desk>>
     \/ con /\ con' = FALSE /\ UNCHANGED <<proxy, broker, desk>>
     \/ desk # NoDesk /\ desk' = NoDesk /\ UNCHANGED <<proxy, broker, con>>
  /\ UNCHANGED <<world, conf, upd, sup, fails, crashes, moves, corrupts, pins, windows>>

Corrupt ==
  /\ corrupts < MaxCorrupt /\ corrupts' = corrupts + 1 /\ conf # "bad" /\ conf' = "bad"
  /\ UNCHANGED <<world, proxy, broker, con, desk, upd, sup, fails, crashes, moves, downs, pins, windows>>

(* The supervisor is killed: its job object takes l4desk along, an l4pin it waited for *)
(* goes on without an owner.                                                          *)
Lost == up' = FALSE /\ pc' = Idle /\ desk' = NoDesk /\ q' = 0 /\ cs' = 0 /\ backoff' = 5 /\ mem' = disk
Crash ==
  /\ up /\ crashes < MaxCrash /\ crashes' = crashes + 1 /\ Lost
  /\ pinproc' = IF pinproc = "owned" \/ (pc = <<"pin", "">> /\ pin = "good") THEN "orphan" ELSE pinproc
  /\ UNCHANGED <<world, svcs, pin, window, drained, disk, fails, moves, downs, corrupts, pins, windows>>

(* The terminal is switched off between two cycles and its disk starts in another machine. *)
Move ==
  /\ up /\ pc = Idle /\ pinproc = "none" /\ moves < MaxMove /\ moves' = moves + 1 /\ Lost
  /\ host' \in Hosts \ {host} /\ proxy' = [run |-> TRUE, tp |-> 0] /\ broker' = Up(conf) /\ con' = TRUE
  /\ UNCHANGED <<store, newest, console, conf, upd, disk, fails, crashes, downs, corrupts, pins, windows>>

state_load == disk
orchestrator_run_loop ==
  /\ ~up /\ up' = TRUE /\ mem' = state_load
  /\ UNCHANGED <<world, svcs, desk, upd, disk, pc, q, cs, backoff, left>>

World == PinExits \/ Certificate \/ PinFile \/ Logon \/ Dies \/ Corrupt \/ Crash \/ Move
Next == Step \/ l4_update_state_publish \/ l4_update_consumer_drain \/ ProxyPoll \/ DeskIdentifies \/ World \/ orchestrator_run_loop

Spec == Init /\ [][Next]_vars

(* The supervisor's loop runs, the service manager restarts it, the proxy polls, l4pin *)
(* ends, and an update ends its windows.                                               *)
Fairness ==
  /\ WF_vars(Step) /\ WF_vars(orchestrator_run_loop) /\ WF_vars(ProxyPoll)
  /\ WF_vars(pinproc # "none" /\ PinExits) /\ WF_vars(window # 0 /\ l4_update_state_publish)
FairSpec == Spec /\ Fairness

(***************************************************************************)
(* Properties.                                                             *)
(***************************************************************************)
(* Between two cycles an l4desk that works under another serial number than the saved  *)
(* one is a difference the next answer of the proxy will show.                         *)
DeskIdentity ==
  pc = Idle /\ desk.sn \notin {"none", SnOf(mem.tp)} => proxy.tp # mem.tp

(* When the world has come to rest the terminal agrees with itself: the services run,  *)
(* the broker runs from its configuration, which is the one of the certificate in the  *)
(* store (or the local one), state.json says so, and l4desk runs in the session.       *)
Agreed ==
  LET t == cert_discover(store) IN
  /\ up /\ proxy = [run |-> TRUE, tp |-> t] /\ con
  /\ conf = (IF t = 0 THEN "standby" ELSE Sn[t]) /\ broker = Up(conf)
  /\ disk = mem /\ mem.tp = t /\ mem.active = (t # 0)
  /\ desk.sn \in {"none", SnOf(t)}
Converges == <>[]Agreed

=============================================================================
