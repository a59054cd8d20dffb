----------------------------- MODULE Enrollment -----------------------------
(***************************************************************************)
(* l4pin: how a terminal gets its certificate.  Three processes use the    *)
(* same store, the same CNG keys and one registry value: the authenticated *)
(* renewal that l4con starts in a Job, the command line, and the worker of *)
(* the window.  A process may be killed between any two calls; the         *)
(* backend's answer may be lost before or after the certificate is issued. *)
(*                                                                         *)
(* A key container, the CSR made with it and the certificate issued for    *)
(* that CSR share one number: a container is never reused and a CSR is     *)
(* issued at most once.  Certificate 0 is the one the terminal has when    *)
(* the behaviour starts.                                                   *)
(***************************************************************************)
EXTENDS Integers, Sequences, FiniteSets

CONSTANTS Processes,   \* a subset of {"renew", "cli", "gui"}
          RenewPins, SetupPins,
          MaxKeys,     \* bound: key containers created
          Faults,      \* the kinds of fault that may happen
          MaxFaults    \* bound: faults in a behaviour

ASSUME EnrollmentAssumption ==
    /\ Processes \subseteq {"renew", "cli", "gui"}
    /\ RenewPins \cap SetupPins = {}
    /\ MaxKeys \in Nat /\ MaxFaults \in Nat

VARIABLES machine,  \* LocalMachine\MY: how each certificate is there
          profile,  \* the certificates in the MY of a Windows profile
          keys,     \* the CNG key containers that exist
          pending,  \* the registry value Pending
          lock,     \* the owner of Global\Leo4_Certificate_Enrollment
          p,        \* the processes
          life,     \* what certificate 0 has left
          pins,     \* the backend's PINs
          issued,   \* the certificates the backend issued, in order
          next,     \* the next container name
          faults

vars == <<machine, profile, keys, pending, lock, p, life, pins, issued, next, faults>>
env == <<life, issued, pins>>

Pins == RenewPins \cup SetupPins
Certs == 0..MaxKeys
NoPending == [pin |-> "none", key |-> 0, pkcs7 |-> FALSE]
Idle == [pc |-> "idle", pin |-> "none", key |-> 0, force |-> FALSE, tries |-> 0,
         taken |-> {}, left |-> {}]

Fault(kind) == kind \in Faults /\ faults < MaxFaults /\ faults' = faults + 1
NoFault == UNCHANGED faults

----------------------------------------------------------------------------
(* Discovery *)

\* cert_discover_in_store: a candidate has its key and is not expired
Candidates == {c \in Certs : machine[c] = "bound" /\ c \in keys}
NotAfter(c) == IF \E i \in DOMAIN issued : issued[i] = c
               THEN CHOOSE i \in DOMAIN issued : issued[i] = c ELSE 0
Best == CHOOSE c \in Candidates : \A d \in Candidates : NotAfter(d) <= NotAfter(c)

cert_state == IF Candidates = {}
              THEN IF \A c \in Certs : machine[c] = "none" THEN "absent" ELSE "broken"
              ELSE IF Best = 0 /\ life = "short" THEN "expiring" ELSE "valid"

\* active_certificate
Active == cert_state \in {"valid", "expiring"}

\* refresh_certificates: NotAfter alone, the key is not looked at
long_lived_cert_found ==
    \E c \in Certs : machine[c] # "none" /\ ~(c = 0 /\ life = "short")

----------------------------------------------------------------------------
(* The backend, as the terminal uses it *)

Bound == issued[Len(issued)]
\* the identity of the connection: the local proxy presents the best certificate
Presents(c) == Candidates # {} /\ Best = c

Known(pin) == pins[pin].st = "pending" /\ (pin \in RenewPins => Presents(Bound))

Issues(pin) == Known(pin)
Repeats(pin, key) ==
    /\ pin \in RenewPins /\ pins[pin].st = "used" /\ pins[pin].key = key
    /\ Bound = key
    /\ Presents(Bound) \/ Presents(pins[pin].auth)

Issue(pin, key) ==
    /\ pins' = [pins EXCEPT ![pin].st = "used", ![pin].key = key,
                            ![pin].auth = IF pin \in RenewPins THEN Bound ELSE 0]
    /\ issued' = Append(issued, key)

----------------------------------------------------------------------------
(* A process takes and gives back the mutex *)

\* enrollment_lock: a zero wait; an abandoned mutex is taken over
EnrollmentLock(x) == lock = "free" /\ lock' = x

Go(x, pc) == p' = [p EXCEPT ![x].pc = pc]
Exit(x) == p' = [p EXCEPT ![x] = Idle] /\ lock' = "free"
Step(x, pc) == Go(x, pc) /\ UNCHANGED lock

\* renewal_run up to the first request: an active certificate, and a pending
\* renewal only of the same PIN
RenewBegin(pin) ==
    /\ p["renew"].pc = "idle" /\ pins[pin].st # "none" /\ Active
    /\ EnrollmentLock("renew")
    /\ pending # NoPending => pending.pin = pin
    /\ p' = [p EXCEPT !["renew"] =
                [Idle EXCEPT !.pc = IF pending = NoPending THEN "check"
                                    ELSE IF pending.pkcs7 THEN "add" ELSE "setup",
                             !.pin = pin, !.tries = 1, !.key = pending.key]]
    /\ NoFault
    /\ UNCHANGED <<env, machine, profile, keys, pending, next>>

\* l4pin_run_cli_unlocked: a valid certificate ends the run without --force,
\* and the PIN is spared
CliBegin(x, pin, force) ==
    /\ p[x].pc = "idle" /\ pins[pin].st # "none"
    /\ EnrollmentLock(x)
    /\ cert_state # "valid" \/ force
    /\ p' = [p EXCEPT ![x] = [Idle EXCEPT !.pc = "check", !.pin = pin, !.force = force]]
    /\ NoFault
    /\ UNCHANGED <<env, machine, profile, keys, pending, next>>

\* the window asks its own question first; the worker then runs the command line
GuiInstall(pin, force) ==
    /\ "gui" \in Processes /\ p["gui"].pc = "idle"
    /\ force \/ ~long_lived_cert_found
    /\ p' = [p EXCEPT !["gui"] = [Idle EXCEPT !.pc = "worker", !.pin = pin, !.force = force]]
    /\ NoFault
    /\ UNCHANGED <<env, machine, profile, keys, pending, next, lock>>

enroll_worker ==
    LET g == p["gui"] IN
    /\ g.pc = "worker"
    /\ \/ /\ cert_state = "valid" /\ ~g.force /\ lock = "free"
          /\ p' = [p EXCEPT !["gui"] = Idle] /\ UNCHANGED lock
       \/ /\ cert_state # "valid" \/ g.force
          /\ EnrollmentLock("gui") /\ Go("gui", "check")
       \/ /\ lock \notin {"free", "gui"}
          /\ p' = [p EXCEPT !["gui"] = Idle] /\ UNCHANGED lock
    /\ NoFault
    /\ UNCHANGED <<env, machine, profile, keys, pending, next>>

----------------------------------------------------------------------------
(* CHECK, the key and the CSR *)

\* send_http_request fails: no connection, a phase timeout, a status other than
\* 200, the deadline, or a body that is cut off; the backend may have acted
Lost == Fault("lost")

\* http_check, or post of the check function: no sign, no enrollment
Check(x) ==
    /\ p[x].pc = "check"
    /\ \/ Known(p[x].pin) /\ Step(x, "gen") /\ NoFault
       \/ ~Known(p[x].pin) /\ Exit(x) /\ NoFault
       \/ Lost /\ Exit(x)
    /\ UNCHANGED <<env, machine, profile, keys, pending, next>>

\* make_issuance_key_name and NCryptCreatePersistedKey: a name of its own, so
\* no container is overwritten
CreateKey(x) ==
    /\ p[x].pc = "gen" /\ next <= MaxKeys
    /\ keys' = keys \cup {next}
    /\ next' = next + 1
    /\ p' = [p EXCEPT ![x].pc = "csr", ![x].key = next]
    /\ NoFault
    /\ UNCHANGED <<env, machine, profile, pending, lock>>

\* the rest of cng_generate_key_and_csr: a failure leaves the container behind
BuildCsr(x) ==
    /\ p[x].pc = "csr"
    /\ \/ Step(x, IF x = "renew" THEN "save" ELSE "setup") /\ NoFault
       \/ Fault("csr") /\ Exit(x)
    /\ UNCHANGED <<env, machine, profile, keys, pending, next>>

\* Mutant: the renewal is recorded only once it has its certificate
SavePending_Later ==
    /\ p["renew"].pc = "save"
    /\ Step("renew", "setup") /\ NoFault
    /\ UNCHANGED <<env, machine, profile, keys, pending, next>>

\* pending_save before SETUP: when it fails the container is deleted; a flush
\* that fails comes after the value was set
SavePending ==
    LET r == p["renew"]
        value == [pin |-> r.pin, key |-> r.key, pkcs7 |-> FALSE] IN
    /\ r.pc = "save"
    /\ \/ pending' = value /\ Step("renew", "setup") /\ NoFault /\ UNCHANGED keys
       \/ Fault("save") /\ UNCHANGED pending /\ keys' = keys \ {r.key} /\ Exit("renew")
       \/ Fault("flush") /\ pending' = value /\ keys' = keys \ {r.key} /\ Exit("renew")
    /\ UNCHANGED <<env, machine, profile, next>>

----------------------------------------------------------------------------
(* SETUP *)

\* what the client does without an answer: the renewal asks once more, if
\* more than five seconds are left
Unanswered(x) == IF p[x].tries > 0
                 THEN p' = [p EXCEPT ![x].tries = @ - 1] /\ UNCHANGED lock
                 ELSE Exit(x)

\* http_setup, or post of the setup function
Setup(x) ==
    LET pin == p[x].pin  key == p[x].key IN
    /\ p[x].pc = "setup"
    /\ \/ /\ Issues(pin) /\ Issue(pin, key)
          /\ \/ Step(x, IF x = "renew" THEN "pkcs7" ELSE "add") /\ NoFault
             \/ Lost /\ Unanswered(x)
       \/ /\ Repeats(pin, key) /\ UNCHANGED <<pins, issued>>
          /\ \/ Step(x, "pkcs7") /\ NoFault
             \/ Lost /\ Unanswered(x)
       \/ /\ ~Issues(pin) /\ ~Repeats(pin, key) /\ UNCHANGED <<pins, issued>>
          /\ Unanswered(x) /\ NoFault
       \/ /\ UNCHANGED <<pins, issued>>
          /\ Lost /\ Unanswered(x)
    /\ UNCHANGED <<life, machine, profile, keys, pending, next>>

\* pending_save of the answer, before anything is installed
SavePkcs7 ==
    /\ p["renew"].pc = "pkcs7"
    /\ \/ pending' = [pending EXCEPT !.pkcs7 = TRUE] /\ Step("renew", "add") /\ NoFault
       \/ Fault("save") /\ UNCHANGED pending /\ Exit("renew")
       \/ Fault("flush") /\ pending' = [pending EXCEPT !.pkcs7 = TRUE] /\ Exit("renew")
    /\ UNCHANGED <<env, machine, profile, keys, next>>

----------------------------------------------------------------------------
(* cert_store_install_pkcs7 *)

\* the new leaf is added before the previous identity is touched; an equal
\* certificate is replaced, without its properties
AddLeaf(x) ==
    /\ p[x].pc = "add"
    /\ \/ machine' = [machine EXCEPT ![p[x].key] = "bare"] /\ Step(x, "bind") /\ NoFault
       \/ Fault("late") /\ Exit(x) /\ UNCHANGED machine
    /\ UNCHANGED <<env, profile, keys, pending, next>>

\* rollback_installed_certificate
Rollback(x) == machine' = [machine EXCEPT ![p[x].key] = "none"] /\ Exit(x)

BindKey(x) ==
    /\ p[x].pc = "bind"
    /\ \/ machine' = [machine EXCEPT ![p[x].key] = "bound"] /\ Step(x, "verify") /\ NoFault
       \/ Fault("key") /\ Rollback(x)
    /\ UNCHANGED <<env, profile, keys, pending, next>>

\* fill_cert_details: the key must be there and accessible
VerifyKey(x) ==
    /\ p[x].pc = "verify"
    /\ \/ p[x].key \in keys /\ Step(x, "open") /\ NoFault /\ UNCHANGED machine
       \/ p[x].key \notin keys /\ Rollback(x) /\ NoFault
       \/ Fault("key") /\ Rollback(x)
    /\ UNCHANGED <<env, profile, keys, pending, next>>

----------------------------------------------------------------------------
(* cert_store_cleanup_all_profiles *)

\* cert_is_obsolete_terminal, over every opened store
Obsolete(key) ==
    {<<"machine", c, machine[c]>> : c \in {d \in Certs : machine[d] # "none" /\ d # key}}
      \cup {<<"profile", c, "bound">> : c \in profile \ {key}}

CleanupEnds(x) == IF x = "renew" THEN Step(x, "clear") ELSE Exit(x)

\* every store is opened and read before anything is deleted
OpenStores(x) ==
    /\ p[x].pc = "open"
    /\ \/ /\ LET found == Obsolete(p[x].key) IN
             p' = [p EXCEPT ![x].pc = "delete", ![x].taken = found, ![x].left = found]
          /\ UNCHANGED lock /\ NoFault
       \/ Fault("profile") /\ Exit(x)
    /\ UNCHANGED <<env, machine, profile, keys, pending, next>>

Restored(x) ==
    /\ machine' = [c \in Certs |->
         IF \E e \in p[x].taken : e[1] = "machine" /\ e[2] = c
         THEN (CHOOSE e \in p[x].taken : e[1] = "machine" /\ e[2] = c)[3] ELSE machine[c]]
    /\ profile' = profile \cup {e[2] : e \in {f \in p[x].taken : f[1] = "profile"}}

DeleteOne(x) ==
    /\ p[x].pc = "delete"
    /\ \/ \E e \in p[x].left :
            /\ IF e[1] = "machine"
               THEN machine' = [machine EXCEPT ![e[2]] = "none"] /\ UNCHANGED profile
               ELSE profile' = profile \ {e[2]} /\ UNCHANGED machine
            /\ p' = [p EXCEPT ![x].left = @ \ {e}]
            /\ UNCHANGED lock /\ NoFault
       \/ p[x].left = {} /\ CleanupEnds(x) /\ NoFault /\ UNCHANGED <<machine, profile>>
       \/ /\ Fault("delete") /\ Exit(x)
          /\ IF p[x].left = p[x].taken THEN UNCHANGED <<machine, profile>> ELSE Restored(x)
    /\ UNCHANGED <<env, keys, pending, next>>

\* the renewal is over: the registry value goes last
ClearPending ==
    /\ p["renew"].pc = "clear"
    /\ \/ pending' = NoPending /\ NoFault
       \/ Fault("clear") /\ UNCHANGED pending
    /\ Exit("renew")
    /\ UNCHANGED <<env, machine, profile, keys, next>>

----------------------------------------------------------------------------
(* The surroundings *)

\* the Job or the operator ends the process; the mutex is abandoned
Killed(x) ==
    /\ p[x].pc \notin {"idle", "worker"} /\ Fault("crash") /\ Exit(x)
    /\ UNCHANGED <<env, machine, profile, keys, pending, next>>

\* a renewal order needs a live certificate and no unconfirmed renewal before it
OrderPin(pin) ==
    /\ pins[pin].st = "none"
    /\ pin \in RenewPins =>
         Presents(Bound) /\ \A q \in RenewPins : pins[q].st # "pending"
    /\ pins' = [pins EXCEPT ![pin].st = "pending"]
    /\ NoFault
    /\ UNCHANGED <<life, issued, machine, profile, keys, pending, next, lock, p>>

\* a PIN expires; for a used one the answer is no longer repeated
ExpirePin(pin) ==
    /\ pins[pin].st \in {"pending", "used"} /\ Fault("expire")
    /\ pins' = [pins EXCEPT ![pin].st = "over"]
    /\ UNCHANGED <<life, issued, machine, profile, keys, pending, next, lock, p>>

----------------------------------------------------------------------------
Init ==
    /\ machine \in {[c \in Certs |-> IF c = 0 THEN s ELSE "none"] : s \in {"none", "bound"}}
    /\ profile \in {{}, {0}}
    /\ keys \in {{}, {0}}
    /\ pending = NoPending /\ lock = "free"
    /\ p = [x \in Processes |-> Idle]
    /\ life \in {"long", "short"}
    /\ pins = [pin \in Pins |-> [st |-> "none", key |-> 0, auth |-> 0]]
    /\ issued = <<0>> /\ next = 1 /\ faults = 0

Work(x) ==
    \/ Check(x) \/ CreateKey(x) \/ BuildCsr(x) \/ Setup(x)
    \/ AddLeaf(x) \/ BindKey(x) \/ VerifyKey(x) \/ OpenStores(x) \/ DeleteOne(x)

Renewal == "renew" \in Processes /\ (SavePending \/ SavePkcs7 \/ ClearPending)

Next ==
    \/ \E x \in Processes : Work(x) \/ Killed(x)
    \/ Renewal
    \/ "renew" \in Processes /\ \E pin \in RenewPins : RenewBegin(pin)
    \/ "cli" \in Processes /\ \E pin \in SetupPins, f \in BOOLEAN : CliBegin("cli", pin, f)
    \/ \E pin \in SetupPins, f \in BOOLEAN : GuiInstall(pin, f)
    \/ "gui" \in Processes /\ enroll_worker
    \/ \E pin \in Pins : OrderPin(pin) \/ ExpirePin(pin)

Spec == Init /\ [][Next]_vars

----------------------------------------------------------------------------
(* Properties *)

\* The state keeps its shape; every installed or pending certificate was asked for
\* with a container created before.
TypeOK ==
    /\ machine \in [Certs -> {"none", "bare", "bound"}] /\ profile \subseteq Certs
    /\ keys \subseteq 0..(next - 1)
    /\ pending.pin \in RenewPins \cup {"none"} /\ pending.key < next
    /\ lock \in Processes \cup {"free"}
    /\ \A c \in Certs : machine[c] # "none" => c = 0 \/ \E i \in DOMAIN issued : issued[i] = c

\* What the backend issued for a renewal is never out of the terminal's reach:
\* while it is the terminal's current certificate, either it is installed with
\* its key or the registry holds the PIN and the existing container with which
\* it is asked for again (renewal_run saves before it posts).
Recoverable ==
    \A pin \in RenewPins :
      LET c == pins[pin].key IN
      (pins[pin].st = "used" /\ Bound = c) =>
        \/ c \in Candidates
        \/ pending.pin = pin /\ pending.key = c /\ c \in keys

============================================================================
