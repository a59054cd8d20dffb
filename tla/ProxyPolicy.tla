---------------------------- MODULE ProxyPolicy ----------------------------
(***************************************************************************)
(* Admission policy of leo4proxy (policy.c, and the identity of the route  *)
(* cache in endpoints.c).  One worker thread asks the server whether MQTT, *)
(* RTP and outgoing HTTPS are allowed, keeps the answer in a record with a *)
(* grace period, and writes it to the registry and to a file.  Every       *)
(* connection thread looks at the decision under the same lock; the        *)
(* service thread replaces the certificate at any moment.  The wall clock  *)
(* (tick + skew) may be set, the process may die between any two writes.   *)
(***************************************************************************)
EXTENDS Integers, FiniteSets

CONSTANTS PolicyCerts,        \* certificates the service may activate
          SnOf,         \* serial number each certificate carries
          NotBefore, NotAfter,   \* validity of each certificate, wall clock
          Clients,      \* connections to media endpoints
          Grace, Poll, SaveRetry,  \* the three periods
          Skews,        \* values the wall clock may be set off by
          MaxTime, MaxIdentities, MaxPolicyFaults, MaxServer, MaxBoots  \* bounds

NoIdentity == "none"
Sns == {SnOf[c] : c \in PolicyCerts}
NoRecord == [sn |-> "", generation |-> 0, known |-> FALSE, allowed |-> FALSE,
             until |-> 0, t |-> 0, skew |-> 0]
NoFm == [cert |-> NoIdentity, deadline |-> 0]
Idle == [pc |-> "wait", saved |-> NoRecord, cert |-> NoIdentity, identity |-> 0,
         regOk |-> FALSE, fileOk |-> FALSE, post |-> FALSE, answer |-> "none"]

VARIABLES tick, skew,          \* GetTickCount64, and time() minus it
          power,               \* "off", "on" or "storageless" (init_storage failed)
          record, media, https, stopping, dirty, fm, certificate,
          identityGen, anchor, remaining,    \* the statics of policy.c
          sock,                \* Clients -> "closed", "open" or "shut" (registered)
          w,                   \* the worker's locals
          nextPoll, nextSave, wake,
          pending,             \* policy_identity between its two locks
          reg, file,           \* the two stored copies
          routeId, routes, routeStore,  \* endpoints.c: identity, SN its hosts came with, SN of the cached body
          server, up,          \* decision per SN at the server; reachable
          policyFaults, serverChanges, boots

memory == <<record, media, https, stopping, dirty, fm, certificate, identityGen, anchor, remaining>>
local == <<w, nextPoll, nextSave, wake>>
storage == <<reg, file>>
route == <<routeId, routes, routeStore>>
outside == <<server, up, serverChanges>>
clock == <<tick, skew>>
policyVars == <<clock, power, memory, sock, local, pending, storage, route, outside, policyFaults, boots>>

utc == tick + skew
Running == power = "on"

Answers == {"allow", "deny", "nohttps"}    \* "nohttps": media allowed, HTTPS explicitly false

Fresh == /\ record = NoRecord /\ media = TRUE /\ https = TRUE /\ stopping = FALSE /\ dirty = FALSE
         /\ fm = NoFm /\ certificate = NoIdentity /\ identityGen = 0 /\ anchor = 0 /\ remaining = 0

PolicyInitial == /\ tick = 0 /\ skew = 0 /\ power = "off" /\ Fresh
                 /\ sock = [c \in Clients |-> "closed"]
                 /\ w = Idle /\ nextPoll = 0 /\ nextSave = 0 /\ wake = FALSE /\ pending = <<>>
                 /\ reg = NoRecord /\ file = NoRecord /\ routeId = "" /\ routes = "" /\ routeStore = ""
                 /\ server = [sn \in Sns |-> "allow"] /\ up = TRUE
                 /\ policyFaults = 0 /\ serverChanges = 0 /\ boots = 0

(* policy_record_allowed *)
RecordAllowed(r, now) == ~(r.known /\ ~r.allowed) /\ now < r.until

(* policy_record_prefer: the newer generation, then the customer's advantage *)
Prefer(a, b) ==
  LET good(r) == ~(r.known /\ ~r.allowed) IN
  IF a.generation # b.generation THEN a.generation > b.generation
  ELSE IF good(a) # good(b) THEN good(a) ELSE good(a) /\ a.until > b.until

(* policy_record_parse: a copy counts only for the SN asked for *)
Parses(copy, sn) == copy.generation > 0 /\ copy.sn = sn

(* restore: the best of the copies, or a new grace period *)
Restore(sn) ==
  LET found == {r \in {reg, file} : Parses(r, sn)} IN
  IF found = {} THEN [sn |-> sn, generation |-> 1, known |-> FALSE, allowed |-> TRUE,
                      until |-> utc + Grace, t |-> tick, skew |-> skew]
  ELSE IF Parses(reg, sn) /\ ~(Parses(file, sn) /\ Prefer(file, reg)) THEN reg ELSE file

(* identity_denial_locked of a certificate *)
IdentityOk(c) == c # NoIdentity /\ NotBefore[c] <= utc /\ utc <= NotAfter[c]

\* Mutant: the flag is changed, the connections are left alone.
SetMedia_KeepSockets(allowed, c) ==
  /\ media' = (allowed /\ IdentityOk(c))
  /\ UNCHANGED sock
(* set_media_locked: a denial ends every registered connection *)
SetMedia(allowed, c) ==
  /\ media' = (allowed /\ IdentityOk(c))
  /\ sock' = IF media /\ ~media' THEN [x \in Clients |-> IF sock[x] = "open" THEN "shut" ELSE sock[x]] ELSE sock

(* expire_locked: inside the grace on the wall clock and on the monotonic one *)
Verdict(r, anc, left, c) == IF r.sn = "" THEN IdentityOk(c) ELSE RecordAllowed(r, utc) /\ tick - anc < left

(* expire_locked: over for good once the wall clock has passed the end *)
Left(r, rem) == IF r.sn # "" /\ utc >= r.until THEN 0 ELSE rem

(* expire_locked *)
Expire(r, anc, rem, c) ==
  /\ remaining' = Left(r, rem)
  /\ SetMedia(Verdict(r, anc, Left(r, rem), c), c)

ExpireNow == Expire(record, anchor, remaining, certificate)

-----------------------------------------------------------------------------
(* policy_init: without protected storage nothing is ever admitted *)
PolicyInit ==
  /\ power = "off" /\ boots < MaxBoots /\ boots' = boots + 1
  /\ \/ power' = "on" /\ UNCHANGED <<memory, policyFaults>>
     \/ /\ policyFaults < MaxPolicyFaults /\ policyFaults' = policyFaults + 1
        /\ power' = "storageless" /\ media' = FALSE /\ https' = FALSE
        /\ UNCHANGED <<record, stopping, dirty, fm, certificate, identityGen, anchor, remaining>>
  /\ UNCHANGED <<clock, sock, local, pending, storage, route, outside>>

(* endpoints_identity: another SN starts from what its own cache holds *)
EndpointsIdentity(sn) ==
  IF sn = routeId THEN UNCHANGED route
  ELSE routeId' = sn /\ routes' = (IF routeStore = sn THEN sn ELSE "") /\ UNCHANGED routeStore

(* policy_identity up to its lock: the service activates c, or has none *)
IdentityRoutes(c) ==
  /\ Running /\ ~stopping /\ pending = <<>> /\ c # certificate /\ identityGen < MaxIdentities
  /\ EndpointsIdentity(IF c = NoIdentity THEN "" ELSE SnOf[c])
  /\ pending' = <<c>>
  /\ UNCHANGED <<clock, power, memory, sock, local, storage, outside, policyFaults, boots>>

(* policy_identity clears the storage routing of the previous certificate *)
IdentityFm == NoFm

(* policy_identity signals the worker *)
Woken == TRUE

(* policy_identity under the lock *)
IdentityPolicy ==
  /\ Running /\ pending # <<>>
  /\ LET c == pending[1]
         changed == c # NoIdentity /\ record.sn # SnOf[c]
         r == IF changed THEN Restore(SnOf[c]) ELSE record
         anc == IF changed THEN tick ELSE anchor
         rem == IF changed THEN (IF r.until > utc THEN r.until - utc ELSE 0) ELSE remaining IN
     /\ record' = r /\ anchor' = anc
     /\ dirty' = (changed \/ dirty)
     /\ certificate' = c /\ identityGen' = identityGen + 1 /\ fm' = IdentityFm /\ wake' = Woken
     /\ Expire(r, anc, rem, c)
     /\ pending' = <<>>
  /\ UNCHANGED <<clock, power, https, stopping, w, nextPoll, nextSave, storage, route, outside, policyFaults, boots>>

(* policy_media_allowed, policy_fm_authority_allowed, policy_diagnostics: a
   look at the decision brings it up to date *)
Look ==
  /\ Running /\ ExpireNow /\ <<media', remaining'>> # <<media, remaining>>
  /\ UNCHANGED <<clock, power, record, https, stopping, dirty, fm, certificate, identityGen, anchor,
                 local, pending, storage, route, outside, policyFaults, boots>>

(* policy_media_connect decides on what expire_locked has just found *)
Admitted == media' /\ ~stopping

(* policy_media_connect: registered and connected under one lock *)
MediaConnect(x) ==
  /\ Running /\ sock[x] = "closed"
  /\ remaining' = Left(record, remaining)
  /\ media' = (IdentityOk(certificate) /\ Verdict(record, anchor, remaining', certificate))
  /\ Admitted
  /\ sock' = [sock EXCEPT ![x] = "open"]
  /\ UNCHANGED <<clock, power, record, https, stopping, dirty, fm, certificate, identityGen, anchor,
                 local, pending, storage, route, outside, policyFaults, boots>>

(* policy_socket_unregister, from schannel_close *)
Unregister(x) ==
  /\ sock[x] # "closed" /\ sock' = [sock EXCEPT ![x] = "closed"]
  /\ UNCHANGED <<clock, power, memory, local, pending, storage, route, outside, policyFaults, boots>>

-----------------------------------------------------------------------------
(* The worker: run() *)
(* run: every round brings the decision up to date *)
Refresh(save) == ExpireNow

(* run: a wait that ended, by a signal or after its second, and the snapshot
   under the lock at the head of the loop *)
Snapshot ==
  LET poll == IF wake THEN 0 ELSE nextPoll
      hold == IF wake THEN 0 ELSE nextSave
      save == dirty /\ record.sn # "" /\ tick >= hold
      c == IF certificate # NoIdentity /\ tick >= poll THEN certificate ELSE NoIdentity IN
  /\ Running /\ w.pc = "wait" /\ ~stopping
  /\ Refresh(save)
  /\ wake' = FALSE /\ nextPoll' = poll /\ nextSave' = hold
  /\ w' = IF ~save /\ c = NoIdentity THEN w
          ELSE [Idle EXCEPT !.saved = record, !.identity = identityGen, !.cert = c, !.pc = IF save THEN "reg" ELSE "fetch"]
  /\ UNCHANGED <<clock, power, record, https, stopping, dirty, fm, certificate, identityGen, anchor,
                 pending, storage, route, outside, policyFaults, boots>>

(* persist, first half: RegSetValueEx and RegFlushKey *)
PersistReg(ok) == reg' = IF ok THEN w.saved ELSE reg
(* persist, second half: the temporary file and the replacing move *)
PersistFile(ok) == file' = IF ok THEN w.saved ELSE file

StoreReg ==
  /\ Running /\ w.pc = "reg"
  /\ \E ok \in BOOLEAN : /\ (ok \/ policyFaults < MaxPolicyFaults) /\ PersistReg(ok)
                         /\ policyFaults' = IF ok THEN policyFaults ELSE policyFaults + 1
                         /\ w' = [w EXCEPT !.pc = "file", !.regOk = ok]
  /\ UNCHANGED <<clock, power, memory, sock, nextPoll, nextSave, wake, pending, file, route, outside, boots>>

StoreFile ==
  /\ Running /\ w.pc = "file"
  /\ \E ok \in BOOLEAN : /\ (ok \/ policyFaults < MaxPolicyFaults) /\ PersistFile(ok)
                         /\ policyFaults' = IF ok THEN policyFaults ELSE policyFaults + 1
                         /\ w' = [w EXCEPT !.pc = "stored", !.fileOk = ok]
  /\ UNCHANGED <<clock, power, memory, sock, nextPoll, nextSave, wake, pending, reg, route, outside, boots>>

(* run: dirty is settled only for the record that was written *)
CleanAfter == IF record.generation = w.saved.generation /\ record.sn = w.saved.sn THEN ~(w.regOk /\ w.fileOk) ELSE dirty

(* run: the end of either persist *)
Stored ==
  /\ Running /\ w.pc = "stored"
  /\ dirty' = CleanAfter
  /\ nextSave' = tick + SaveRetry
  /\ nextPoll' = IF w.post THEN tick + Poll ELSE nextPoll
  /\ w' = IF w.post \/ w.cert = NoIdentity THEN Idle ELSE [w EXCEPT !.pc = "fetch"]
  /\ UNCHANGED <<clock, power, record, media, https, stopping, fm, certificate, identityGen, anchor, remaining,
                 sock, wake, pending, reg, file, route, outside, policyFaults, boots>>

(* fetch and policy_response_parse: the answer for the certificate's SN, or none *)
ResponseFor(sn) == IF up /\ sn = w.saved.sn THEN server[sn] ELSE "none"

Fetch ==
  /\ Running /\ w.pc = "fetch"
  /\ w' = [w EXCEPT !.pc = "apply", !.answer = ResponseFor(SnOf[w.cert])]
  /\ UNCHANGED <<clock, power, memory, sock, nextPoll, nextSave, wake, pending, storage, route, outside, policyFaults, boots>>

(* run: the answer counts only for the identity it was asked with *)
StillOurs == w.identity = identityGen /\ ~stopping

(* accept_fm_locked *)
AcceptFm == IF w.answer = "allow" THEN [cert |-> certificate, deadline |-> tick + 2 * Poll] ELSE NoFm

(* run: the answer is applied under the lock *)
Apply ==
  /\ Running /\ w.pc = "apply"
  /\ IF ~StillOurs \/ w.answer = "none"
     THEN /\ https' = IF StillOurs THEN TRUE ELSE https
          /\ nextPoll' = tick + Poll /\ w' = Idle
          /\ UNCHANGED <<record, media, dirty, fm, anchor, remaining, sock, nextSave>>
     ELSE LET ok == w.answer # "deny"
              r == [record EXCEPT !.known = TRUE, !.allowed = ok, !.generation = @ + 1,
                                  !.until = utc + Grace, !.t = tick, !.skew = skew] IN
          /\ https' = (w.answer # "nohttps")
          /\ fm' = AcceptFm /\ record' = r /\ dirty' = TRUE /\ nextSave' = 0
          /\ anchor' = tick /\ remaining' = Grace /\ SetMedia(ok, certificate)
          /\ w' = [w EXCEPT !.pc = "routes", !.saved = r, !.post = TRUE]
          /\ UNCHANGED nextPoll
  /\ UNCHANGED <<clock, power, stopping, certificate, identityGen, wake, pending, storage, route, outside, policyFaults, boots>>

(* endpoints_accept compares the identity under its own lock *)
RouteAccepts == routeId = w.saved.sn
EndpointsAccept ==
  /\ Running /\ w.pc = "routes"
  /\ IF RouteAccepts THEN routes' = w.saved.sn /\ routeStore' = w.saved.sn ELSE UNCHANGED <<routes, routeStore>>
  /\ w' = [w EXCEPT !.pc = "reg"]
  /\ UNCHANGED <<clock, power, memory, sock, nextPoll, nextSave, wake, pending, storage, routeId, outside, policyFaults, boots>>

(* run: the stop event ends the loop *)
WorkerExit ==
  /\ Running /\ stopping /\ w.pc = "wait"
  /\ w' = [Idle EXCEPT !.pc = "done"]
  /\ UNCHANGED <<clock, power, memory, sock, nextPoll, nextSave, wake, pending, storage, route, outside, policyFaults, boots>>

Worker == Snapshot \/ StoreReg \/ StoreFile \/ Stored \/ Fetch \/ Apply \/ EndpointsAccept \/ WorkerExit

(* policy_stop up to the join: every registered connection is ended *)
PolicyStop ==
  /\ Running /\ ~stopping /\ pending = <<>>
  /\ stopping' = TRUE
  /\ sock' = [x \in Clients |-> IF sock[x] = "open" THEN "shut" ELSE sock[x]]
  /\ UNCHANGED <<clock, power, record, media, https, dirty, fm, certificate, identityGen, anchor, remaining,
                 local, pending, storage, route, outside, policyFaults, boots>>

(* the process is gone: what is left is the two copies and the route cache *)
Gone ==
  /\ power' = "off"
  /\ record' = NoRecord /\ media' = TRUE /\ https' = TRUE /\ stopping' = FALSE /\ dirty' = FALSE
  /\ fm' = NoFm /\ certificate' = NoIdentity /\ identityGen' = 0 /\ anchor' = 0 /\ remaining' = 0
  /\ sock' = [c \in Clients |-> "closed"] /\ w' = Idle /\ nextPoll' = 0 /\ nextSave' = 0 /\ wake' = FALSE
  /\ pending' = <<>> /\ routeId' = "" /\ routes' = ""
  /\ UNCHANGED <<clock, routeStore, outside, boots>>

(* policy_stop after the join: a record still dirty is written once more *)
StopSave ==
  /\ Running /\ w.pc = "done" /\ Gone /\ UNCHANGED policyFaults
  /\ IF dirty /\ record.sn # "" THEN reg' = record /\ file' = record
     ELSE UNCHANGED storage

Crash == power # "off" /\ policyFaults < MaxPolicyFaults /\ policyFaults' = policyFaults + 1 /\ Gone /\ UNCHANGED storage

Tick == /\ tick < MaxTime /\ tick' = tick + 1
        /\ UNCHANGED <<skew, power, memory, sock, local, pending, storage, route, outside, policyFaults, boots>>
ClockSet == /\ policyFaults < MaxPolicyFaults /\ policyFaults' = policyFaults + 1
            /\ \E s \in Skews \ {skew} : skew' = s
            /\ UNCHANGED <<tick, power, memory, sock, local, pending, storage, route, outside, boots>>
ServerChanges ==
  /\ serverChanges < MaxServer /\ serverChanges' = serverChanges + 1
  /\ \/ \E sn \in Sns, a \in Answers : a # server[sn] /\ server' = [server EXCEPT ![sn] = a] /\ UNCHANGED up
     \/ up' = ~up /\ UNCHANGED server
  /\ UNCHANGED <<clock, power, memory, sock, local, pending, storage, route, policyFaults, boots>>

PolicyNext ==
  \/ PolicyInit \/ IdentityPolicy \/ Look \/ Worker \/ PolicyStop \/ StopSave \/ Crash
  \/ Tick \/ ClockSet \/ ServerChanges
  \/ \E c \in PolicyCerts \cup {NoIdentity} : IdentityRoutes(c)
  \/ \E x \in Clients : MediaConnect(x) \/ Unregister(x)

PolicySpec == PolicyInitial /\ [][PolicyNext]_policyVars
(* the worker thread and the service thread inside policy_identity run on *)

-----------------------------------------------------------------------------
(* The record and the worker's phase have their types. *)
PolicyTypeOK ==
  /\ record.sn \in Sns \cup {""} /\ record.generation \in Nat
  /\ w.pc \in {"reg", "file", "stored", "fetch", "apply", "routes", "wait", "done"}
  /\ sock \in [Clients -> {"closed", "open", "shut"}]
  /\ certificate \in PolicyCerts \cup {NoIdentity} /\ remaining \in Nat

(* set_media_locked and policy_media_connect share the lock: no registered
   connection is left running while the decision is a denial or the proxy stops. *)
DeniedClosed == (power # "off" /\ (~media \/ stopping)) => \A x \in Clients : sock[x] # "open"

=============================================================================
