-------------------------- MODULE SupervisorProofs --------------------------
(***************************************************************************)
(* The supervisor's side of the terminal, proved for every value of the    *)
(* constants: the enrollment of a certificate, and the watch over the      *)
(* communication window.                                                   *)
(***************************************************************************)
EXTENDS Enrollment, CommWatch, TLAPS

-----------------------------------------------------------------------------
(***************************************************************************)
(* A renewed certificate stays within the terminal's reach, for any number *)
(* of containers, PINs and faults, wherever a process is killed, as long   *)
(* as a registry flush does not fail (with that fault it is not true: see  *)
(* SavePending).                                                           *)
(*                                                                         *)
(* Recoverable is not inductive. It needs that the mutex really serialises *)
(* the processes (Locked), that a container is never shared by two PINs    *)
(* and the next name is new (Owners), that the registry value stands       *)
(* for the run from the save to the clean-up (Run), and that what a run    *)
(* deletes is never the backend's current certificate (Current).           *)
(***************************************************************************)

Before == {"check", "gen"}
After == {"pkcs7", "add", "bind", "verify", "open", "delete", "clear"}
Pcs == {"idle", "worker", "csr", "save", "setup"} \cup Before \cup After
Stores == {"none", "bare", "bound"}
Entries == {"machine", "profile"} \X Certs \X Stores
ProcessType == [pc : Pcs, pin : Pins \cup {"none"}, key : Certs, force : BOOLEAN, tries : Nat,
                taken : SUBSET Entries, left : SUBSET Entries]
PinStates == {"none", "pending", "used", "over"}
PinType == [st : PinStates, key : Certs, auth : Certs]

Typed ==
    /\ machine \in [Certs -> Stores] /\ profile \subseteq Certs /\ next \in Nat \ {0}
    /\ pending \in [pin : RenewPins \cup {"none"}, key : Certs, pkcs7 : BOOLEAN]
    /\ p \in [Processes -> ProcessType] /\ pins \in [Pins -> PinType]
    /\ issued \in Seq(Certs) /\ issued # <<>>

\* The next name is new, and a container belongs to one PIN of a renewal
Owners ==
    /\ pending.key < next
    /\ \A q \in RenewPins :
         /\ pins[q].key < next /\ (pins[q].st = "used" => pins[q].key # 0)
         /\ pins[q].key # 0 => /\ pending.key = pins[q].key => pending.pin = q
                               /\ \A r \in RenewPins : pins[r].key = pins[q].key => r = q

\* The backend's current certificate, when a renewal brought it, is the one of this PIN and key
CurrentOf(pin, key) == \A r \in RenewPins : pins[r].st = "used" /\ Bound = pins[r].key => r = pin /\ pins[r].key = key

\* The registry value: its container exists, and with its certificate it is about the current one
Kept == pending # NoPending =>
    /\ pending.key # 0 /\ pending.key \in keys
    /\ pending.pkcs7 => CurrentOf(pending.pin, pending.key)

\* A process beyond its start owns the mutex, and one that does not has no container; the renewal
\* uses the PINs of renewals, the others those of a setup
Locked(x) ==
    /\ IF p[x].pc \in {"idle", "worker"} THEN p[x].key = 0 ELSE lock = x
    /\ p[x].pc # "idle" => p[x].pin \in (IF x = "renew" THEN RenewPins ELSE SetupPins)
    /\ p[x].key < next
    /\ \A q \in RenewPins : pins[q].key # 0 /\ p[x].key = pins[q].key => p[x].pin = q

\* What a run has behind it
Run(x) ==
    /\ p[x].pc \in Before => p[x].key = 0
    /\ p[x].pc \in {"csr", "save"} => p[x].key \in keys /\ \A q \in RenewPins : pins[q].key # p[x].key
    /\ p[x].pc \in {"csr", "save", "setup"} \cup After => p[x].key # 0
    /\ x = "renew" /\ p[x].pc \in Before \cup {"csr", "save"} => pending = NoPending
    /\ x = "renew" /\ p[x].pc \in {"setup"} \cup After => pending.pin = p[x].pin /\ pending.key = p[x].key
    /\ p[x].pc \in After => CurrentOf(p[x].pin, p[x].key)
    /\ p[x].pc \in {"verify", "open", "delete", "clear"} => machine[p[x].key] = "bound"
    /\ p[x].pc \in {"open", "delete", "clear"} => p[x].key \in keys
    /\ p[x].pc = "delete" => /\ p[x].left \subseteq p[x].taken
                             /\ \A e \in p[x].taken : e[2] # p[x].key

IInv == /\ Typed /\ Owners /\ Kept /\ Recoverable
        /\ \A x \in Processes : Locked(x) /\ Run(x)

USE EnrollmentAssumption DEF env

\* A process without a run
LEMMA IdleIs == Idle \in ProcessType /\ Idle.pc = "idle" /\ Idle.key = 0 /\ 0 \in Certs
  BY DEF Idle, ProcessType, Pcs, Certs

\* The start: no PIN, no registry value, every process idle
LEMMA InitIInv == Init => IInv
<1> SUFFICES ASSUME Init PROVE IInv
  OBVIOUS
<1>1. 0 \in Certs /\ Certs \subseteq Nat
  BY DEF Certs
<1>2. Idle \in ProcessType /\ Idle.pc = "idle" /\ Idle.key = 0 /\ Idle.pin = "none"
  BY <1>1 DEF Idle, ProcessType, Pcs
<1>3. Typed
  <2>1. machine \in [Certs -> Stores] /\ profile \subseteq Certs /\ next \in Nat \ {0}
    BY <1>1 DEF Init, Stores
  <2>2. pending \in [pin : RenewPins \cup {"none"}, key : Certs, pkcs7 : BOOLEAN]
    BY <1>1 DEF Init, NoPending
  <2>3. p \in [Processes -> ProcessType]
    BY <1>2 DEF Init
  <2>4. pins \in [Pins -> PinType]
    BY <1>1 DEF Init, PinType, PinStates
  <2>5. issued \in Seq(Certs) /\ issued # <<>>
    BY <1>1 DEF Init
  <2> QED BY <2>1, <2>2, <2>3, <2>4, <2>5 DEF Typed
<1>4. \A q \in RenewPins : pins[q].key = 0 /\ pins[q].st = "none"
  BY DEF Init, Pins
<1>5. Owners /\ Kept /\ Recoverable
  BY <1>4 DEF Init, Owners, Kept, Recoverable, NoPending
<1>6. \A x \in Processes : Locked(x) /\ Run(x)
  BY <1>2, <1>4 DEF Init, Locked, Run, Before, After
<1> QED BY <1>3, <1>5, <1>6 DEF IInv

\* Only one process changes
Only(x) == p' \in [Processes -> ProcessType] /\ \A y \in Processes : y # x => p'[y] = p[y]

\* Whoever has or takes the mutex, the other processes are at their start
LEMMA Others ==
  ASSUME IInv, NEW x \in Processes, lock \in {"free", x}
  PROVE  \A y \in Processes : y # x => p[y].pc \in {"idle", "worker"} /\ p[y].key = 0
<1>1. "free" \notin Processes
  OBVIOUS
<1>2. \A y \in Processes : IF p[y].pc \in {"idle", "worker"} THEN p[y].key = 0 ELSE lock = y
  BY DEF IInv, Locked
<1> QED BY <1>1, <1>2

\* So a step of the owner of the mutex is judged by what it does to itself
LEMMA Owner ==
  ASSUME IInv, NEW x \in Processes, lock \in {"free", x}, Only(x),
         Typed', Owners', Kept', Recoverable', Locked(x)', Run(x)'
  PROVE  IInv'
<1>1. \A y \in Processes : y # x => p'[y].pc \in {"idle", "worker"} /\ p'[y].key = 0 /\ p'[y] = p[y]
  BY Others DEF Only
<1>2. ASSUME NEW y \in Processes, y # x PROVE Locked(y)'
  BY <1>1, <1>2 DEF Locked, IInv, Typed
<1>3. ASSUME NEW y \in Processes, y # x PROVE Run(y)'
  BY <1>1, <1>3 DEF Run, Before, After
<1> QED BY <1>2, <1>3 DEF IInv

\* Moving on
LEMMA Moved ==
  ASSUME Typed, NEW x \in Processes, NEW pc \in Pcs, Go(x, pc)
  PROVE  /\ Only(x) /\ p'[x].pc = pc
         /\ p'[x].pin = p[x].pin /\ p'[x].key = p[x].key /\ p'[x].taken = p[x].taken /\ p'[x].left = p[x].left
<1>1. p[x] \in ProcessType /\ p' = [p EXCEPT ![x] = [p[x] EXCEPT !.pc = pc]]
  BY DEF Go, Typed
<1>2. [p[x] EXCEPT !.pc = pc] \in ProcessType
  BY <1>1 DEF ProcessType
<1>3. p' \in [Processes -> ProcessType] /\ \A y \in Processes : y # x => p'[y] = p[y]
  BY <1>1, <1>2 DEF Typed
<1>4. p'[x] = [p[x] EXCEPT !.pc = pc]
  BY <1>1 DEF Typed
<1> QED BY <1>1, <1>3, <1>4 DEF Only, ProcessType
\* and the process's end
LEMMA Ended ==
  ASSUME Typed, NEW x \in Processes, Exit(x)
  PROVE  Only(x) /\ p'[x].pc = "idle" /\ p'[x].key = 0 /\ lock' = "free"
<1> QED BY IdleIs DEF Exit, Typed, Only

\* A run may end anywhere, when what it leaves behind is in order
LEMMA Ends ==
  ASSUME IInv, NEW x \in Processes, p[x].pc \notin {"idle", "worker"}, Exit(x), next' \in Nat \ {0},
         Typed', Owners', Kept', Recoverable'
  PROVE  IInv'
<1>1. Only(x) /\ p'[x].pc = "idle" /\ p'[x].key = 0 /\ lock' = "free" /\ lock = x
  BY Ended DEF IInv, Locked
<1>2. Locked(x)' /\ Run(x)'
  BY <1>1 DEF Locked, Run, Before, After
<1> QED BY <1>1, <1>2, Owner

\* A step that leaves the certificates, the registry value and the PINs alone keeps what is said of them
LEMMA Outside ==
  ASSUME IInv, UNCHANGED <<machine, keys, pending, pins, issued, next>>
  PROVE  Owners' /\ Kept' /\ Recoverable' /\ Bound' = Bound
<1>1. Bound' = Bound
  BY DEF Bound
<1> QED BY <1>1 DEF IInv, Owners, Kept, Recoverable, Candidates, CurrentOf

\* and then the run may end
LEMMA EndsHere ==
  ASSUME IInv, NEW x \in Processes, p[x].pc \notin {"idle", "worker"}, Exit(x),
         UNCHANGED <<machine, profile, keys, pending, pins, issued, next>>
  PROVE  IInv'
<1>1. Typed'
  BY Ended DEF IInv, Typed, Only
<1> QED BY <1>1, Outside, Ends DEF Typed

\* or go on, when its next step finds what it needs
LEMMA GoesOn ==
  ASSUME IInv, NEW x \in Processes, p[x].pc \notin {"idle", "worker"},
         NEW pc \in Pcs \ {"idle", "worker"}, Step(x, pc),
         UNCHANGED <<machine, profile, keys, pending, pins, issued, next>>, Run(x)'
  PROVE  IInv'
<1>1. /\ Only(x) /\ p'[x].pc = pc /\ lock' = lock /\ lock = x
      /\ p'[x].pin = p[x].pin /\ p'[x].key = p[x].key
  BY Moved DEF Step, IInv, Locked
<1>2. Typed'
  BY <1>1 DEF IInv, Typed, Only
<1>3. Locked(x)'
  BY <1>1 DEF Locked, IInv
<1> QED BY <1>1, <1>2, <1>3, Outside, Owner

\* CHECK and the CSR
LEMMA CheckStep == ASSUME IInv, NEW x \in Processes, Check(x) \/ BuildCsr(x) PROVE IInv'
<1>1. /\ p[x].pc \in {"check", "csr"} /\ UNCHANGED <<machine, profile, keys, pending, pins, issued, next>>
      /\ \/ Exit(x)
         \/ p[x].pc = "check" /\ Step(x, "gen")
         \/ p[x].pc = "csr" /\ Step(x, IF x = "renew" THEN "save" ELSE "setup")
  BY DEF Check, BuildCsr
<1>2. CASE Exit(x)
  BY <1>1, <1>2, EndsHere
<1>3. CASE p[x].pc = "check" /\ Step(x, "gen")
  <2>1. "gen" \in Pcs \ {"idle", "worker"}
    BY DEF Pcs, Before
  <2>2. p'[x].pc = "gen" /\ p'[x].key = p[x].key
    BY <1>3, <2>1, Moved DEF IInv, Step
  <2>3. Run(x)'
    BY <1>1, <1>3, <2>2 DEF Run, IInv, Before, After
  <2> QED BY <1>1, <1>3, <2>1, <2>3, GoesOn
<1>4. CASE p[x].pc = "csr" /\ Step(x, IF x = "renew" THEN "save" ELSE "setup")
  <2> DEFINE pc == IF x = "renew" THEN "save" ELSE "setup"
  <2>1. pc \in Pcs \ {"idle", "worker"} /\ pc \in {"save", "setup"} /\ (x = "renew" <=> pc = "save")
    BY DEF Pcs
  <2> HIDE DEF pc
  <2>2. Step(x, pc)
    BY <1>4 DEF pc
  <2>3. p'[x].pc = pc /\ p'[x].key = p[x].key
    BY <2>1, <2>2, Moved DEF IInv, Step
  <2>4. Run(x)'
    BY <1>1, <1>4, <2>1, <2>3 DEF Run, IInv, Before, After
  <2> QED BY <1>1, <1>4, <2>1, <2>2, <2>4, GoesOn
<1> QED BY <1>1, <1>2, <1>3, <1>4

\* A killed process
LEMMA KilledStep == ASSUME IInv, NEW x \in Processes, Killed(x) PROVE IInv'
  BY EndsHere DEF Killed

\* A container with a new name
LEMMA CreateStep == ASSUME IInv, NEW x \in Processes, CreateKey(x) PROVE IInv'
<1> USE DEF IInv
<1>1. /\ p[x].pc = "gen" /\ next <= MaxKeys /\ keys' = keys \cup {next} /\ next' = next + 1
      /\ p' = [p EXCEPT ![x].pc = "csr", ![x].key = next]
      /\ UNCHANGED <<machine, profile, pending, lock, pins, issued>>
  BY DEF CreateKey
<1>2. next \in Certs /\ next # 0 /\ next \in Nat
  BY <1>1 DEF Typed, Certs
<1>3. /\ Only(x) /\ p'[x].pc = "csr" /\ p'[x].key = next /\ p'[x].pin = p[x].pin
  <2>1. p[x] \in ProcessType /\ "csr" \in Pcs
    BY DEF Typed, Pcs
  <2>2. p' \in [Processes -> ProcessType]
    BY <1>1, <1>2, <2>1, Zenon DEF Typed, ProcessType
  <2>3. \A y \in Processes : y # x => p'[y] = p[y]
    BY <1>1 DEF Typed
  <2>4. p'[x].pc = "csr" /\ p'[x].key = next /\ p'[x].pin = p[x].pin
    BY <1>1, <2>1 DEF Typed, ProcessType
  <2> QED BY <2>2, <2>3, <2>4 DEF Only
<1>4. Typed'
  BY <1>1, <1>2, <1>3 DEF Typed, Only
<1>5. Bound' = Bound /\ lock = x
  BY <1>1 DEF Bound, Locked
<1>6. Certs \subseteq Nat /\ \A q \in RenewPins : pins[q].key \in Nat /\ pins[q].key < next
  BY DEF Certs, Owners, Typed, Pins, PinType
<1>7. pending.key \in Nat /\ pending.key < next
  BY <1>6 DEF Owners, Typed
<1>8. Owners'
  BY <1>1, <1>2, <1>6, <1>7 DEF Owners
<1>9. Kept' /\ Recoverable'
  BY <1>1, <1>5 DEF Kept, Recoverable, Candidates, CurrentOf
<1>10. Locked(x)'
  <2>1. p[x].pin \in (IF x = "renew" THEN RenewPins ELSE SetupPins)
    BY <1>1 DEF Locked
  <2>2. next < next' /\ \A q \in RenewPins : pins'[q].key # next
    BY <1>1, <1>2, <1>6
  <2> QED BY <1>1, <1>3, <1>5, <2>1, <2>2 DEF Locked
<1>11. Run(x)'
  <2>1. x = "renew" => pending' = NoPending
    BY <1>1 DEF Run, Before
  <2>2. next \in keys' /\ \A q \in RenewPins : pins'[q].key # next
    BY <1>1, <1>2, <1>6
  <2> QED BY <1>2, <1>3, <2>1, <2>2 DEF Run, Before, After
<1> QED BY <1>3, <1>4, <1>5, <1>8, <1>9, <1>10, <1>11, Owner

\* The registry value before SETUP: the container it names is there, and no PIN has it yet
LEMMA SaveStep ==
  ASSUME IInv, "flush" \notin Faults, "renew" \in Processes, SavePending PROVE IInv'
<1> DEFINE r == p["renew"]
           value == [pin |-> r.pin, key |-> r.key, pkcs7 |-> FALSE]
<1> USE DEF IInv
<1>1. /\ r.pc = "save" /\ UNCHANGED <<machine, profile, next, pins, issued>>
      /\ \/ pending' = value /\ Step("renew", "setup") /\ UNCHANGED keys
         \/ UNCHANGED pending /\ keys' = keys \ {r.key} /\ Exit("renew")
  BY DEF SavePending, Fault
<1>2. Bound' = Bound
  BY <1>1 DEF Bound
<1>3. /\ pending = NoPending /\ r.key # 0 /\ \A q \in RenewPins : pins[q].key # r.key
      /\ r.pin \in RenewPins /\ r.key \in Certs /\ r.key < next
  BY <1>1 DEF Run, Locked, Typed, ProcessType
<1>4. CASE UNCHANGED pending /\ keys' = keys \ {r.key} /\ Exit("renew")
  <2>1. Typed'
    BY <1>1, <1>4, Ended DEF Typed, Only
  <2>2. Owners' /\ Kept'
    BY <1>1, <1>3, <1>4 DEF Owners, Kept
  <2>3. Recoverable'
    BY <1>1, <1>2, <1>3, <1>4 DEF Recoverable, Candidates
  <2> QED BY <1>1, <1>4, <2>1, <2>2, <2>3, Ends DEF Typed
<1>5. CASE pending' = value /\ Step("renew", "setup") /\ UNCHANGED keys
  <2>1. /\ Only("renew") /\ p'["renew"].pc = "setup" /\ lock' = lock /\ lock = "renew"
        /\ p'["renew"].pin = r.pin /\ p'["renew"].key = r.key
    BY <1>1, <1>5, Moved DEF Step, Locked, Pcs
  <2>2. r.key \in keys
    BY <1>1 DEF Run
  <2>3. pending'.pin = r.pin /\ pending'.key = r.key /\ pending'.pkcs7 = FALSE
    BY <1>5
  <2>4. Typed'
    BY <1>1, <1>3, <1>5, <2>1 DEF Typed, Only
  <2>5. Owners' /\ Kept'
    BY <1>1, <1>3, <1>5, <2>2, <2>3 DEF Owners, Kept
  <2>6. Recoverable'
    BY <1>1, <1>2, <1>3, <1>5 DEF Recoverable, Candidates, Owners, NoPending
  <2>7. Locked("renew")'
    BY <1>1, <1>3, <2>1 DEF Locked
  <2>8. Run("renew")'
    BY <1>3, <2>1, <2>3 DEF Run, Before, After
  <2> QED BY <2>1, <2>4, <2>5, <2>6, <2>7, <2>8, Owner
<1> QED BY <1>1, <1>4, <1>5

\* The backend issues: the certificate is now the current one, and the registry value names it
LEMMA Issued ==
  ASSUME IInv, NEW x \in Processes, p[x].pc = "setup", Issue(p[x].pin, p[x].key), p[x].pin \in Pins,
         UNCHANGED <<machine, keys, pending, next>>
  PROVE  /\ pins' \in [Pins -> PinType] /\ issued' \in Seq(Certs) /\ issued' # <<>>
         /\ Owners' /\ Kept' /\ Recoverable'
         /\ \A r \in RenewPins : pins'[r].key # 0 /\ p[x].key = pins'[r].key => r = p[x].pin
         /\ Bound' = p[x].key
<1> DEFINE pin == p[x].pin
           key == p[x].key
<1> USE DEF IInv
<1>1. key \in Certs /\ key # 0 /\ key < next
  BY DEF Typed, ProcessType, Run, Locked
<1>2. issued' = Append(issued, key)
  BY DEF Issue
<1>3. issued' \in Seq(Certs) /\ issued' # <<>> /\ Bound' = key
  BY <1>1, <1>2 DEF Typed, Bound
<1>4. Bound \in Certs /\ 0 \in Certs
  BY DEF Typed, Bound, Certs
<1>5. PICK a \in Certs : pins' = [pins EXCEPT ![pin].st = "used", ![pin].key = key, ![pin].auth = a]
  BY <1>4 DEF Issue
<1>6. pins' \in [Pins -> PinType]
  <2>1. "used" \in PinStates
    BY DEF PinStates
  <2>2. pins \in [Pins -> PinType] /\ pins[pin] \in PinType /\ key \in Certs
    BY <1>1 DEF Typed
  <2>3. \A f \in [Pins -> PinType], q \in Pins, k \in Certs, b \in Certs :
          [f EXCEPT ![q].st = "used", ![q].key = k, ![q].auth = b] \in [Pins -> PinType]
    BY <2>1, ZenonT(60) DEF PinType
  <2> QED BY <1>5, <2>2, <2>3, Zenon
<1>7. /\ \A q \in RenewPins : q # pin => pins'[q] = pins[q]
      /\ pins'[pin].st = "used" /\ pins'[pin].key = key
  <2>1. \A q \in Pins : q # pin => pins'[q] = pins[q]
    BY <1>5 DEF Typed
  <2>2. pins'[pin].st = "used"
    BY <1>5 DEF Typed, PinType
  <2>3. pins'[pin].key = key
    BY <1>5 DEF Typed, PinType
  <2> QED BY <2>1, <2>2, <2>3 DEF Pins
<1>8. pin \in RenewPins => x = "renew" /\ pending.pin = pin /\ pending.key = key
  BY DEF Locked, Run
<1>9. pending.key = key => pending # NoPending
  BY <1>1 DEF NoPending
<1>10. \A r \in RenewPins : pins'[r].key # 0 /\ key = pins'[r].key => r = pin
  BY <1>7 DEF Locked
<1>11. Owners'
  BY <1>1, <1>7, <1>8, <1>10 DEF Owners
<1>12. Kept'
  BY <1>1, <1>3, <1>7, <1>8, <1>10 DEF Kept, CurrentOf
<1>13. Recoverable'
  BY <1>1, <1>3, <1>7, <1>8, <1>9, <1>10 DEF Recoverable, Kept
<1> QED BY <1>3, <1>6, <1>10, <1>11, <1>12, <1>13

\* Without an answer the renewal asks once more, the others give up
LEMMA AsksAgain ==
  ASSUME Typed, NEW x \in Processes, p[x].tries > 0, p' = [p EXCEPT ![x].tries = @ - 1]
  PROVE  /\ Only(x) /\ p'[x].pc = p[x].pc /\ p'[x].pin = p[x].pin /\ p'[x].key = p[x].key
<1>1. p[x] \in ProcessType /\ p[x].tries - 1 \in Nat
  BY DEF Typed, ProcessType
<1>2. p' \in [Processes -> ProcessType]
  BY <1>1, Zenon DEF Typed, ProcessType
<1> QED BY <1>1, <1>2 DEF Typed, Only, ProcessType

\* SETUP
LEMMA SetupStep == ASSUME IInv, NEW x \in Processes, Setup(x) PROVE IInv'
<1> DEFINE pin == p[x].pin
           key == p[x].key
<1> USE DEF IInv
<1>1. p[x].pc = "setup" /\ UNCHANGED <<machine, profile, keys, pending, next, life>>
  BY DEF Setup
<1>2. /\ pin \in Pins /\ key # 0 /\ key < next /\ lock = x
      /\ pin \in (IF x = "renew" THEN RenewPins ELSE SetupPins)
      /\ x = "renew" => pending.pin = pin /\ pending.key = key
  BY <1>1 DEF Locked, Run, Pins
<1>3. \/ /\ Issue(pin, key)
         /\ Step(x, IF x = "renew" THEN "pkcs7" ELSE "add") \/ Unanswered(x)
      \/ /\ Repeats(pin, key) /\ UNCHANGED <<pins, issued>> /\ Step(x, "pkcs7")
      \/ UNCHANGED <<pins, issued>> /\ Unanswered(x)
  BY DEF Setup
<1>4. /\ pins' \in [Pins -> PinType] /\ issued' \in Seq(Certs) /\ issued' # <<>>
      /\ Owners' /\ Kept' /\ Recoverable'
      /\ \A r \in RenewPins : pins'[r].key # 0 /\ key = pins'[r].key => r = pin
      /\ Bound' = key \/ (UNCHANGED <<pins, issued>> /\ Unanswered(x))
  <2>1. CASE Issue(pin, key)
    BY <1>1, <1>2, <2>1, Issued
  <2>2. CASE UNCHANGED <<pins, issued>>
    <3>1. Owners' /\ Kept' /\ Recoverable' /\ Bound' = Bound
      BY <1>1, <2>2, Outside
    <3>2. \A r \in RenewPins : pins'[r].key # 0 /\ key = pins'[r].key => r = pin
      BY <2>2 DEF Locked
    <3>3. Repeats(pin, key) => Bound = key
      BY DEF Repeats
    <3>4. pins' \in [Pins -> PinType] /\ issued' \in Seq(Certs) /\ issued' # <<>>
      BY <2>2 DEF Typed
    <3>5. Issue(pin, key) => Bound' = key
      BY <1>1, <1>2, Issued
    <3> QED BY <1>3, <2>2, <3>1, <3>2, <3>3, <3>4, <3>5
  <2> QED BY <1>3, <2>1, <2>2
<1>5. p' \in [Processes -> ProcessType] => Typed'
  BY <1>1, <1>4 DEF Typed
<1>6. CASE Exit(x)
  BY <1>1, <1>4, <1>5, <1>6, Ended, Ends DEF Typed, Only
<1>7. CASE p[x].tries > 0 /\ p' = [p EXCEPT ![x].tries = @ - 1] /\ UNCHANGED lock
  <2>1. Only(x) /\ p'[x].pc = "setup" /\ p'[x].pin = pin /\ p'[x].key = key /\ lock' = x
    BY <1>1, <1>2, <1>7, AsksAgain
  <2>2. Locked(x)'
    BY <1>1, <1>2, <1>4, <2>1 DEF Locked
  <2>3. Run(x)'
    BY <1>1, <1>2, <2>1 DEF Run, Before, After
  <2> QED BY <1>2, <1>4, <1>5, <2>1, <2>2, <2>3, Owner DEF Only
<1>8. CASE Bound' = key /\ \/ Step(x, IF x = "renew" THEN "pkcs7" ELSE "add")
                           \/ Step(x, "pkcs7") /\ Repeats(pin, key)
  <2>1. PICK pc \in {"pkcs7", "add"} : Step(x, pc)
    BY <1>8
  <2>2. pc \in Pcs
    BY DEF Pcs, After
  <2>3. Only(x) /\ p'[x].pc = pc /\ p'[x].pin = pin /\ p'[x].key = key /\ lock' = x
    BY <1>2, <2>1, <2>2, Moved DEF Step
  <2>4. Locked(x)'
    BY <1>1, <1>2, <1>4, <2>3 DEF Locked
  <2>5. CurrentOf(pin, key)'
    <3>1. \A r \in RenewPins : pins'[r].st = "used" => pins'[r].key # 0
      BY <1>4 DEF Owners
    <3>2. \A r \in RenewPins : pins'[r].st = "used" /\ Bound' = pins'[r].key => r = pin' /\ pins'[r].key = key'
      BY <1>4, <1>8, <2>3, <3>1
    <3> QED BY <3>2 DEF CurrentOf
  <2>6. Run(x)'
    BY <1>1, <1>2, <2>3, <2>5 DEF Run, Before, After
  <2> QED BY <1>2, <1>4, <1>5, <2>3, <2>4, <2>6, Owner DEF Only
<1> QED BY <1>3, <1>4, <1>6, <1>7, <1>8 DEF Unanswered

\* The answer is saved before anything is installed
LEMMA Pkcs7Step == ASSUME IInv, "flush" \notin Faults, "renew" \in Processes, SavePkcs7 PROVE IInv'
<1> DEFINE r == p["renew"]
<1> USE DEF IInv
<1>1. /\ r.pc = "pkcs7" /\ UNCHANGED <<machine, profile, keys, next, pins, issued>>
      /\ \/ pending' = [pending EXCEPT !.pkcs7 = TRUE] /\ Step("renew", "add")
         \/ UNCHANGED pending /\ Exit("renew")
  BY DEF SavePkcs7, Fault
<1>2. CASE UNCHANGED pending /\ Exit("renew")
  BY <1>1, <1>2, EndsHere
<1>3. CASE pending' = [pending EXCEPT !.pkcs7 = TRUE] /\ Step("renew", "add")
  <2>1. /\ Only("renew") /\ p'["renew"].pc = "add" /\ lock' = lock /\ lock = "renew"
        /\ p'["renew"].pin = r.pin /\ p'["renew"].key = r.key
    <3>1. "add" \in Pcs
      BY DEF Pcs, After
    <3> QED BY <1>1, <1>3, <3>1, Moved DEF Step, Locked
  <2>2. /\ pending.pin = r.pin /\ pending.key = r.key /\ CurrentOf(r.pin, r.key) /\ r.key # 0 /\ r.key \in keys
        /\ r.pin \in RenewPins
    BY <1>1 DEF Run, After, Kept, NoPending, Locked
  <2>3. pending'.pin = pending.pin /\ pending'.key = pending.key /\ Bound' = Bound
    BY <1>1, <1>3 DEF Typed, Bound
  <2>4. pending' \in [pin : RenewPins \cup {"none"}, key : Certs, pkcs7 : BOOLEAN]
    BY <1>3 DEF Typed
  <2>5. Typed'
    BY <1>1, <2>1, <2>4 DEF Typed, Only
  <2>6. CurrentOf(r.pin, r.key)'
    BY <1>1, <2>1, <2>2, <2>3 DEF CurrentOf
  <2>7. Owners'
    BY <1>1, <2>3 DEF Owners
  <2>8. Kept'
    BY <1>1, <2>1, <2>2, <2>3, <2>6 DEF Kept, CurrentOf
  <2>9. Recoverable'
    BY <1>1, <2>3 DEF Recoverable, Candidates
  <2>10. Locked("renew")'
    BY <1>1, <2>1, <2>2 DEF Locked
  <2>11. Run("renew")'
    BY <2>1, <2>2, <2>3, <2>6 DEF Run, Before, After
  <2> QED BY <2>1, <2>5, <2>7, <2>8, <2>9, <2>10, <2>11, Owner
<1> QED BY <1>1, <1>2, <1>3

\* The renewal is over: the certificate is installed with its key before the registry value goes
LEMMA ClearStep == ASSUME IInv, "renew" \in Processes, ClearPending PROVE IInv'
<1> DEFINE r == p["renew"]
<1> USE DEF IInv
<1>1. /\ r.pc = "clear" /\ UNCHANGED <<machine, profile, keys, next, pins, issued>> /\ Exit("renew")
      /\ pending' = NoPending \/ UNCHANGED pending
  BY DEF ClearPending
<1>2. CASE UNCHANGED pending
  BY <1>1, <1>2, EndsHere
<1>3. CASE pending' = NoPending
  <2>1. machine[r.key] = "bound" /\ r.key \in keys /\ r.key \in Certs /\ CurrentOf(r.pin, r.key)
    BY <1>1 DEF Run, After, Typed, ProcessType
  <2>2. Bound' = Bound /\ 0 \in Certs
    BY <1>1 DEF Bound, Certs
  <2>3. Typed'
    BY <1>1, <1>3, <2>2, Ended DEF Typed, Only, NoPending
  <2>4. Owners' /\ Kept'
    BY <1>1, <1>3 DEF Owners, Kept, NoPending, Typed
  <2>5. Recoverable'
    BY <1>1, <2>1, <2>2 DEF Recoverable, Candidates, CurrentOf
  <2> QED BY <1>1, <2>3, <2>4, <2>5, Ends DEF Typed
<1> QED BY <1>1, <1>2, <1>3

\* Whatever a run does to the store between the answer and the end, the current certificate of a
\* renewal is its own, and the registry value is still there
LEMMA Stored ==
  ASSUME IInv, NEW x \in Processes, p[x].pc \in After, machine' \in [Certs -> Stores],
         UNCHANGED <<keys, pending, next, pins, issued>>
  PROVE  Owners' /\ Kept' /\ Bound' = Bound /\ CurrentOf(p[x].pin, p[x].key) /\ Recoverable'
<1> USE DEF IInv
<1>1. Bound' = Bound
  BY DEF Bound
<1>2. CurrentOf(p[x].pin, p[x].key) /\ p[x].key # 0
  BY DEF Run
<1>3. Owners' /\ Kept'
  BY <1>1 DEF Owners, Kept, CurrentOf
<1>4. ASSUME NEW q \in RenewPins, pins[q].st = "used", Bound = pins[q].key
      PROVE  pending.pin = q /\ pending.key = pins[q].key /\ pins[q].key \in keys
  <2>1. q = p[x].pin /\ pins[q].key = p[x].key
    BY <1>2, <1>4 DEF CurrentOf
  <2>2. x = "renew"
    BY <2>1 DEF Locked, After
  <2>3. pending.pin = p[x].pin /\ pending.key = p[x].key
    BY <2>2 DEF Run
  <2>4. pending # NoPending
    BY <1>2, <2>3 DEF NoPending
  <2> QED BY <2>1, <2>3, <2>4 DEF Kept
<1>5. Recoverable'
  BY <1>1, <1>4 DEF Recoverable
<1> QED BY <1>1, <1>2, <1>3, <1>5

\* so a run may end there
LEMMA StoredEnds ==
  ASSUME IInv, NEW x \in Processes, p[x].pc \in After, Exit(x), machine' \in [Certs -> Stores], profile' \subseteq Certs,
         UNCHANGED <<keys, pending, next, pins, issued>>
  PROVE  IInv'
<1>1. Typed'
  BY Ended DEF IInv, Typed, Only
<1>2. p[x].pc \notin {"idle", "worker"}
  BY DEF After
<1> QED BY <1>1, <1>2, Stored, Ends DEF Typed

\* or go on, as long as its own certificate is as the next step expects it
LEMMA StoredGoesOn ==
  ASSUME IInv, NEW x \in Processes, p[x].pc \in After, machine' \in [Certs -> Stores], profile' \subseteq Certs,
         UNCHANGED <<keys, pending, next, pins, issued, lock>>,
         Only(x), p'[x].pc \in After, p'[x].pin = p[x].pin, p'[x].key = p[x].key,
         p'[x].pc \in {"verify", "open", "delete", "clear"} => machine'[p[x].key] = "bound",
         p'[x].pc \in {"open", "delete", "clear"} => p[x].key \in keys,
         p'[x].pc = "delete" => p'[x].left \subseteq p'[x].taken /\ \A e \in p'[x].taken : e[2] # p[x].key
  PROVE  IInv'
<1>1. Typed'
  BY DEF IInv, Typed, Only
<1>2. lock = x
  BY DEF IInv, Locked, After
<1>3. Locked(x)'
  BY <1>2 DEF IInv, Locked, After
<1>4. Owners' /\ Kept' /\ Recoverable' /\ CurrentOf(p[x].pin, p[x].key) /\ Bound' = Bound
  BY Stored
<1>5. CurrentOf(p[x].pin, p[x].key)'
  BY <1>4 DEF CurrentOf
<1>6. /\ p[x].key # 0
      /\ x = "renew" => pending.pin = p[x].pin /\ pending.key = p[x].key
  BY DEF IInv, Run
<1>7. Run(x)'
  BY <1>5, <1>6 DEF Run, Before, After
<1> QED BY <1>1, <1>2, <1>3, <1>4, <1>7, Owner

\* cert_store_install_pkcs7: added, bound, verified, or rolled back
LEMMA InstallStep == ASSUME IInv, NEW x \in Processes, AddLeaf(x) \/ BindKey(x) \/ VerifyKey(x) PROVE IInv'
<1> USE DEF IInv
<1>1. /\ UNCHANGED <<profile, keys, pending, next, pins, issued>> /\ p[x].pc \in {"add", "bind", "verify"}
      /\ \/ p[x].pc = "add" /\ machine' = [machine EXCEPT ![p[x].key] = "bare"] /\ Step(x, "bind")
         \/ p[x].pc = "bind" /\ machine' = [machine EXCEPT ![p[x].key] = "bound"] /\ Step(x, "verify")
         \/ p[x].pc = "verify" /\ machine' = machine /\ p[x].key \in keys /\ Step(x, "open")
         \/ machine' = machine /\ Exit(x)
         \/ machine' = [machine EXCEPT ![p[x].key] = "none"] /\ Exit(x)
  BY DEF AddLeaf, BindKey, VerifyKey, Rollback
<1>2. machine' \in [Certs -> Stores] /\ p[x].key \in Certs /\ profile' \subseteq Certs
  BY <1>1 DEF Typed, Stores, ProcessType
<1>3. p[x].pc \in After
  BY <1>1 DEF After
<1>4. CASE Exit(x)
  BY <1>1, <1>2, <1>3, <1>4, StoredEnds
<1>5. CASE Step(x, "bind") \/ Step(x, "verify") \/ Step(x, "open")
  <2>1. PICK pc \in {"bind", "verify", "open"} :
          /\ Step(x, pc)
          /\ pc = "verify" => machine' = [machine EXCEPT ![p[x].key] = "bound"]
          /\ pc = "open" => p[x].pc = "verify" /\ machine' = machine /\ p[x].key \in keys
    <3>1. CASE Exit(x)
      <4>1. ASSUME NEW pc \in {"bind", "verify", "open"}, Step(x, pc) PROVE FALSE
        BY <1>1, <3>1, <4>1, Ended DEF Step, Locked
      <4> QED BY <1>5, <4>1
    <3> QED BY <1>1, <3>1
  <2>2. pc \in Pcs /\ pc \in After
    BY DEF Pcs, After
  <2>3. Only(x) /\ p'[x].pc = pc /\ p'[x].pin = p[x].pin /\ p'[x].key = p[x].key /\ lock' = lock
    BY <2>1, <2>2, Moved DEF Step
  <2>4. pc \in {"verify", "open"} => machine'[p[x].key] = "bound"
    BY <1>2, <2>1 DEF Run, Typed
  <2> QED BY <1>1, <1>2, <1>3, <2>1, <2>2, <2>3, <2>4, StoredGoesOn
<1> QED BY <1>1, <1>4, <1>5

\* The stores are read: what is to be deleted is never the run's own certificate
LEMMA OpenStep == ASSUME IInv, NEW x \in Processes, OpenStores(x) PROVE IInv'
<1> USE DEF IInv
<1> DEFINE found == Obsolete(p[x].key)
<1>1. /\ p[x].pc = "open" /\ UNCHANGED <<machine, profile, keys, pending, next, pins, issued>>
      /\ \/ p' = [p EXCEPT ![x].pc = "delete", ![x].taken = found, ![x].left = found] /\ UNCHANGED lock
         \/ Exit(x)
  BY DEF OpenStores
<1>2. CASE Exit(x)
  BY <1>1, <1>2, EndsHere
<1>3. CASE p' = [p EXCEPT ![x].pc = "delete", ![x].taken = found, ![x].left = found] /\ UNCHANGED lock
  <2>1. found \in SUBSET Entries /\ \A e \in found : e[2] # p[x].key
    BY DEF Obsolete, Entries, Typed, Stores
  <2> HIDE DEF found
  <2>2. "delete" \in Pcs /\ p[x] \in ProcessType /\ p \in [Processes -> ProcessType]
    BY DEF Pcs, After, Typed
  <2>3. p' \in [Processes -> ProcessType]
    <3>1. \A f \in ProcessType, s \in SUBSET Entries : [f EXCEPT !.pc = "delete", !.taken = s, !.left = s] \in ProcessType
      BY <2>2, ZenonT(60) DEF ProcessType
    <3>2. [p[x] EXCEPT !.pc = "delete", !.taken = found, !.left = found] \in ProcessType
      BY <2>1, <2>2, <3>1, Zenon
    <3>3. p' = [p EXCEPT ![x] = [p[x] EXCEPT !.pc = "delete", !.taken = found, !.left = found]]
      BY <1>3, <2>2
    <3> QED BY <2>2, <3>2, <3>3, Zenon
  <2>4. \A y \in Processes : y # x => p'[y] = p[y]
    BY <1>3, <2>2
  <2>5. p'[x].pc = "delete" /\ p'[x].taken = found /\ p'[x].left = found
    BY <1>3, <2>2 DEF ProcessType
  <2>6. p'[x].pin = p[x].pin /\ p'[x].key = p[x].key
    BY <1>3, <2>2 DEF ProcessType
  <2>7. machine[p[x].key] = "bound" /\ p[x].key \in keys
    BY <1>1 DEF Run
  <2>8. p[x].pc \in After /\ p'[x].pc \in After
    BY <1>1, <2>5 DEF After
  <2>9. machine' \in [Certs -> Stores] /\ profile' \subseteq Certs
    BY <1>1 DEF Typed
  <2> QED BY <1>1, <1>3, <2>1, <2>3, <2>4, <2>5, <2>6, <2>7, <2>8, <2>9, StoredGoesOn DEF Only
<1> QED BY <1>1, <1>2, <1>3

\* One certificate is deleted, the clean-up ends, or what was deleted is put back
LEMMA DeleteStep == ASSUME IInv, NEW x \in Processes, DeleteOne(x) PROVE IInv'
<1> USE DEF IInv
<1>1. p[x].pc = "delete" /\ UNCHANGED <<keys, pending, next, pins, issued>>
  BY DEF DeleteOne
<1>2. /\ machine[p[x].key] = "bound" /\ p[x].key \in keys /\ p[x].key \in Certs
      /\ p[x].left \subseteq p[x].taken /\ p[x].taken \in SUBSET Entries /\ p[x].left \in SUBSET Entries
      /\ \A e \in p[x].taken : e[2] # p[x].key
      /\ p[x].pc \in After /\ lock = x
  BY <1>1 DEF Run, Typed, ProcessType, After, Locked
<1>3. machine \in [Certs -> Stores] /\ profile \subseteq Certs
  BY DEF Typed
<1>4. CASE \E e \in p[x].left :
             /\ IF e[1] = "machine"
                THEN machine' = [machine EXCEPT ![e[2]] = "none"] /\ UNCHANGED profile
                ELSE profile' = profile \ {e[2]} /\ UNCHANGED machine
             /\ p' = [p EXCEPT ![x].left = @ \ {e}] /\ UNCHANGED lock
  <2>1. PICK e \in p[x].left :
             /\ IF e[1] = "machine"
                THEN machine' = [machine EXCEPT ![e[2]] = "none"] /\ UNCHANGED profile
                ELSE profile' = profile \ {e[2]} /\ UNCHANGED machine
             /\ p' = [p EXCEPT ![x].left = @ \ {e}] /\ UNCHANGED lock
    BY <1>4
  <2>2. e[2] # p[x].key
    BY <1>2
  <2>3. /\ machine' \in [Certs -> Stores] /\ profile' \subseteq Certs /\ machine'[p[x].key] = "bound"
    BY <1>2, <1>3, <2>1, <2>2 DEF Stores
  <2> DEFINE s == p[x].left \ {e}
  <2>4. s \in SUBSET Entries /\ s \subseteq p[x].taken
    BY <1>2
  <2>5. p' = [p EXCEPT ![x].left = s]
    BY <2>1
  <2> HIDE DEF s
  <2>6. p[x] \in ProcessType /\ p \in [Processes -> ProcessType]
    BY DEF Typed
  <2>7. p' \in [Processes -> ProcessType]
    BY <2>4, <2>5, <2>6, Zenon DEF ProcessType
  <2>8. \A y \in Processes : y # x => p'[y] = p[y]
    BY <2>5, <2>6
  <2>9. /\ p'[x].pc = "delete" /\ p'[x].taken = p[x].taken /\ p'[x].left = s
        /\ p'[x].pin = p[x].pin /\ p'[x].key = p[x].key
    BY <1>1, <2>5, <2>6 DEF ProcessType
  <2> QED BY <1>1, <1>2, <2>1, <2>3, <2>4, <2>7, <2>8, <2>9, StoredGoesOn DEF Only
<1>5. CASE p[x].left = {} /\ CleanupEnds(x) /\ UNCHANGED <<machine, profile>>
  <2>1. CASE x = "renew"
    <3>1. Step(x, "clear") /\ "clear" \in Pcs /\ "clear" \in After
      BY <1>5, <2>1 DEF CleanupEnds, Pcs, After
    <3>2. Only(x) /\ p'[x].pc = "clear" /\ p'[x].pin = p[x].pin /\ p'[x].key = p[x].key /\ lock' = lock
      BY <3>1, Moved DEF Step
    <3> QED BY <1>1, <1>2, <1>3, <1>5, <3>1, <3>2, StoredGoesOn
  <2>2. CASE x # "renew"
    BY <1>1, <1>2, <1>3, <1>5, <2>2, StoredEnds DEF CleanupEnds
  <2> QED BY <2>1, <2>2
<1>6. CASE Exit(x) /\ (UNCHANGED <<machine, profile>> \/ Restored(x))
  <2>1. CASE UNCHANGED <<machine, profile>>
    BY <1>1, <1>2, <1>3, <1>6, <2>1, StoredEnds
  <2>2. CASE Restored(x)
    <3>1. ASSUME NEW c \in Certs, \E e \in p[x].taken : e[1] = "machine" /\ e[2] = c
          PROVE  (CHOOSE e \in p[x].taken : e[1] = "machine" /\ e[2] = c)[3] \in Stores
      <4>1. PICK e \in p[x].taken : e = CHOOSE f \in p[x].taken : f[1] = "machine" /\ f[2] = c
        BY <3>1
      <4>2. e \in Entries
        BY <1>2
      <4> QED BY <4>1, <4>2 DEF Entries
    <3>2. machine' \in [Certs -> Stores]
      BY <1>3, <2>2, <3>1 DEF Restored
    <3>3. profile' \subseteq Certs
      <4>1. \A e \in p[x].taken : e[2] \in Certs
        BY <1>2 DEF Entries
      <4> QED BY <1>3, <2>2, <4>1 DEF Restored
    <3> QED BY <1>1, <1>2, <1>6, <3>2, <3>3, StoredEnds
  <2> QED BY <1>6, <2>1, <2>2
<1> QED BY <1>4, <1>5, <1>6 DEF DeleteOne

\* A process that does not touch the mutex changes nothing for the others
LEMMA Waits ==
  ASSUME IInv, NEW x \in Processes, Only(x), p'[x].pc \in {"idle", "worker"}, p'[x].key = 0,
         p'[x].pc = "worker" => x # "renew" /\ p'[x].pin \in SetupPins,
         UNCHANGED <<machine, profile, keys, pending, lock, pins, issued, next>>
  PROVE  IInv'
<1>1. Owners' /\ Kept' /\ Recoverable' /\ Bound' = Bound
  BY Outside
<1>2. Typed'
  BY DEF IInv, Typed, Only
<1>3. Locked(x)' /\ Run(x)'
  BY DEF IInv, Typed, Locked, Run, Before, After
<1>4. ASSUME NEW y \in Processes, y # x PROVE Locked(y)' /\ Run(y)'
  <2>1. p'[y] = p[y] /\ Locked(y) /\ Run(y)
    BY <1>4 DEF Only, IInv
  <2>2. Locked(y)'
    BY <2>1 DEF Locked
  <2>3. Run(y)'
    BY <1>1, <2>1 DEF Run, CurrentOf
  <2> QED BY <2>2, <2>3
<1> QED BY <1>1, <1>2, <1>3, <1>4 DEF IInv

\* A process starts: what it starts with, and what is said of the others
LEMMA Starts ==
  ASSUME IInv, NEW x \in Processes, NEW v \in ProcessType, p' = [p EXCEPT ![x] = v]
  PROVE  Only(x) /\ p'[x] = v
  BY DEF IInv, Typed, Only

\* renewal_run: a new renewal, or the one the registry value is about
LEMMA RenewStep == ASSUME IInv, "renew" \in Processes, NEW pin \in RenewPins, RenewBegin(pin) PROVE IInv'
<1> USE DEF IInv
<1> DEFINE pc == IF pending = NoPending THEN "check" ELSE IF pending.pkcs7 THEN "add" ELSE "setup"
           v == [Idle EXCEPT !.pc = pc, !.pin = pin, !.tries = 1, !.key = pending.key]
<1>1. /\ lock = "free" /\ lock' = "renew" /\ UNCHANGED <<machine, profile, keys, pending, next, pins, issued>>
      /\ pending # NoPending => pending.pin = pin
      /\ p' = [p EXCEPT !["renew"] = v]
  BY DEF RenewBegin, EnrollmentLock
<1>2. pc \in {"check", "add", "setup"} /\ pending.key \in Certs /\ pc \in Pcs
  BY DEF Typed, Pcs, Before, After
<1>3. v \in ProcessType
  <2>1. Idle \in ProcessType /\ pin \in Pins \cup {"none"} /\ 1 \in Nat
    BY IdleIs DEF Pins
  <2> HIDE DEF pc
  <2> QED BY <1>2, <2>1, ZenonT(60) DEF ProcessType
<1>4. /\ v.pc = pc /\ v.pin = pin /\ v.key = pending.key
      /\ pc = "check" <=> pending = NoPending
      /\ pc = "add" => pending.pkcs7
  <2>1. (pc = "check" <=> pending = NoPending) /\ (pc = "add" => pending.pkcs7)
    OBVIOUS
  <2> HIDE DEF pc
  <2>2. v.pc = pc /\ v.pin = pin /\ v.key = pending.key
    BY DEF Idle
  <2> QED BY <2>1, <2>2
<1> HIDE DEF pc, v
<1>5. Only("renew") /\ p'["renew"] = v
  BY <1>1, <1>3, Starts
<1>6. Owners' /\ Kept' /\ Recoverable' /\ Bound' = Bound
  BY <1>1, Outside
<1>7. Typed'
  BY <1>1, <1>5 DEF Typed, Only
<1>8. pending.key < next /\ \A q \in RenewPins : pins[q].key # 0 /\ pending.key = pins[q].key => pin = q
  BY <1>1 DEF Owners, NoPending
<1>9. Locked("renew")'
  BY <1>1, <1>2, <1>4, <1>5, <1>8 DEF Locked
<1>10. pc # "check" => pending.key # 0 /\ pending.pin = pin
  BY <1>1, <1>4 DEF Kept
<1>11. pc = "add" => CurrentOf(pin, pending.key)
  BY <1>4, <1>10 DEF Kept
<1>12. pc = "add" => CurrentOf(p["renew"].pin, p["renew"].key)'
  BY <1>1, <1>4, <1>5, <1>6, <1>11 DEF CurrentOf
<1>13. Run("renew")'
  BY <1>1, <1>2, <1>4, <1>5, <1>10, <1>12 DEF Run, Before, After, NoPending
<1> QED BY <1>1, <1>5, <1>6, <1>7, <1>9, <1>13, Owner

\* A run that starts with nothing
LEMMA FreshStarts ==
  ASSUME IInv, NEW x \in Processes, x # "renew", NEW pin \in SetupPins, lock = "free", lock' = x,
         Only(x), p'[x].pc = "check", p'[x].pin = pin, p'[x].key = 0,
         UNCHANGED <<machine, profile, keys, pending, pins, issued, next>>
  PROVE  IInv'
<1>1. Owners' /\ Kept' /\ Recoverable'
  BY Outside
<1>2. Typed'
  BY DEF IInv, Typed, Only
<1>3. Locked(x)' /\ Run(x)'
  BY <1>2 DEF Typed, Locked, Run, Before, After
<1> QED BY <1>1, <1>2, <1>3, Owner

\* The command line, the window and its worker
LEMMA StartStep ==
  ASSUME IInv, \/ "cli" \in Processes /\ \E pin \in SetupPins, f \in BOOLEAN : CliBegin("cli", pin, f)
               \/ \E pin \in SetupPins, f \in BOOLEAN : GuiInstall(pin, f)
               \/ "gui" \in Processes /\ enroll_worker
  PROVE  IInv'
<1> USE DEF IInv
<1>0. Idle \in ProcessType /\ Idle.pc = "idle" /\ Idle.key = 0 /\ 0 \in Certs
  BY IdleIs
<1>1. ASSUME "cli" \in Processes, NEW pin \in SetupPins, NEW f \in BOOLEAN, CliBegin("cli", pin, f) PROVE IInv'
  <2> DEFINE v == [Idle EXCEPT !.pc = "check", !.pin = pin, !.force = f]
  <2>1. "check" \in Pcs /\ pin \in Pins \cup {"none"}
    BY DEF Pcs, Before, Pins
  <2>2. v \in ProcessType
    BY <1>0, <2>1, ZenonT(60) DEF ProcessType
  <2>3. p' = [p EXCEPT !["cli"] = v]
    BY <1>1 DEF CliBegin
  <2>4. v.pc = "check" /\ v.pin = pin /\ v.key = 0
    BY DEF Idle
  <2>5. lock = "free" /\ lock' = "cli" /\ UNCHANGED <<machine, profile, keys, pending, pins, issued, next>>
    BY <1>1 DEF CliBegin, EnrollmentLock
  <2> HIDE DEF v
  <2>6. Only("cli") /\ p'["cli"] = v
    BY <1>1, <2>1, <2>2, <2>3, Starts
  <2> QED BY <1>1, <2>4, <2>5, <2>6, FreshStarts
<1>2. ASSUME NEW pin \in SetupPins, NEW f \in BOOLEAN, GuiInstall(pin, f) PROVE IInv'
  <2> DEFINE v == [Idle EXCEPT !.pc = "worker", !.pin = pin, !.force = f]
  <2>1. "worker" \in Pcs /\ pin \in Pins \cup {"none"}
    BY DEF Pcs, Before, Pins
  <2>2. v \in ProcessType
    BY <1>0, <2>1, ZenonT(60) DEF ProcessType
  <2>3. p' = [p EXCEPT !["gui"] = v] /\ "gui" \in Processes
    BY <1>2 DEF GuiInstall
  <2>4. v.pc = "worker" /\ v.pin = pin /\ v.key = 0
    BY DEF Idle
  <2>5. UNCHANGED <<machine, profile, keys, pending, lock, pins, issued, next>>
    BY <1>2 DEF GuiInstall
  <2> HIDE DEF v
  <2>6. Only("gui") /\ p'["gui"] = v
    BY <2>1, <2>2, <2>3, Starts
  <2> QED BY <2>3, <2>4, <2>5, <2>6, Waits
<1>3. ASSUME "gui" \in Processes, enroll_worker PROVE IInv'
  <2>1. p["gui"].pc = "worker" /\ UNCHANGED <<machine, profile, keys, pending, pins, issued, next>>
    BY <1>3 DEF enroll_worker
  <2>2. CASE p' = [p EXCEPT !["gui"] = Idle] /\ UNCHANGED lock
    <3>1. Only("gui") /\ p'["gui"] = Idle
      BY <1>0, <1>3, <2>2, Starts
    <3> QED BY <1>0, <1>3, <2>1, <2>2, <3>1, Waits
  <2>3. CASE EnrollmentLock("gui") /\ Go("gui", "check")
    <3>1. "check" \in Pcs
      BY DEF Pcs, Before
    <3>2. Only("gui") /\ p'["gui"].pc = "check" /\ p'["gui"].pin = p["gui"].pin /\ p'["gui"].key = p["gui"].key
      BY <1>3, <2>3, <3>1, Moved
    <3>3. p["gui"].pin \in SetupPins /\ p["gui"].key = 0
      BY <1>3, <2>1 DEF Locked
    <3> QED BY <1>3, <2>1, <2>3, <3>2, <3>3, FreshStarts DEF EnrollmentLock
  <2> QED BY <1>3, <2>2, <2>3 DEF enroll_worker
<1> QED BY <1>1, <1>2, <1>3

\* The backend orders and ends PINs: no container changes hands, and none becomes current
LEMMA PinStep == ASSUME IInv, NEW pin \in Pins, OrderPin(pin) \/ ExpirePin(pin) PROVE IInv'
<1> USE DEF IInv
<1>1. /\ UNCHANGED <<machine, profile, keys, pending, lock, p, issued, next>>
      /\ \E v \in {"pending", "over"} : pins' = [pins EXCEPT ![pin].st = v]
  BY DEF OrderPin, ExpirePin
<1>2. PICK v \in {"pending", "over"} : pins' = [pins EXCEPT ![pin].st = v]
  BY <1>1
<1>3. pins \in [Pins -> PinType] /\ pins[pin] \in PinType /\ v \in PinStates
  BY DEF Typed, PinStates
<1>4. pins' \in [Pins -> PinType]
  BY <1>2, <1>3, Zenon DEF PinType
<1>5. \A q \in RenewPins : pins'[q].key = pins[q].key /\ (pins'[q].st = "used" => pins[q].st = "used")
  <2>1. \A q \in Pins : q # pin => pins'[q] = pins[q]
    BY <1>2, <1>3
  <2>2. pins'[pin].key = pins[pin].key /\ pins'[pin].st = v
    BY <1>2, <1>3 DEF PinType
  <2> QED BY <2>1, <2>2 DEF Pins
<1>6. Bound' = Bound
  BY <1>1 DEF Bound
<1>7. Typed'
  BY <1>1, <1>4 DEF Typed
<1>8. Owners' /\ Kept' /\ Recoverable'
  BY <1>1, <1>5, <1>6 DEF Owners, Kept, Recoverable, Candidates, CurrentOf
<1>9. ASSUME NEW x \in Processes PROVE Locked(x)' /\ Run(x)'
  <2>1. Locked(x)'
    BY <1>1, <1>5 DEF Locked
  <2>2. Run(x)'
    BY <1>1, <1>5, <1>6 DEF Run, CurrentOf
  <2> QED BY <2>1, <2>2
<1> QED BY <1>7, <1>8, <1>9

\* Every step keeps the invariant, as long as a flush does not fail
LEMMA Inductive == ASSUME "flush" \notin Faults PROVE IInv /\ [Next]_vars => IInv'
<1> SUFFICES ASSUME IInv, [Next]_vars PROVE IInv'
  OBVIOUS
<1>1. CASE \E x \in Processes : Work(x) \/ Killed(x)
  BY <1>1, CheckStep, CreateStep, SetupStep, InstallStep, OpenStep, DeleteStep, KilledStep DEF Work
<1>2. CASE Renewal
  BY <1>2, SaveStep, Pkcs7Step, ClearStep DEF Renewal
<1>3. CASE "renew" \in Processes /\ \E pin \in RenewPins : RenewBegin(pin)
  BY <1>3, RenewStep
<1>4. CASE \/ "cli" \in Processes /\ \E pin \in SetupPins, f \in BOOLEAN : CliBegin("cli", pin, f)
           \/ \E pin \in SetupPins, f \in BOOLEAN : GuiInstall(pin, f)
           \/ "gui" \in Processes /\ enroll_worker
  BY <1>4, StartStep
<1>5. CASE \E pin \in Pins : OrderPin(pin) \/ ExpirePin(pin)
  BY <1>5, PinStep
<1>6. CASE UNCHANGED vars
  <2>1. UNCHANGED <<machine, profile, keys, pending, lock, p, pins, issued, next>>
    BY <1>6 DEF vars
  <2>2. Owners' /\ Kept' /\ Recoverable' /\ Bound' = Bound
    BY <2>1, Outside
  <2>3. Typed'
    BY <2>1 DEF IInv, Typed
  <2>4. ASSUME NEW x \in Processes PROVE Locked(x)' /\ Run(x)'
    BY <2>1, <2>2 DEF IInv, Locked, Run, CurrentOf
  <2> QED BY <2>2, <2>3, <2>4 DEF IInv
<1> QED BY <1>1, <1>2, <1>3, <1>4, <1>5, <1>6 DEF Next

\* While no flush of the registry fails, the strengthening holds in every reachable state: the mutex,
\* the containers and their PINs, the registry value and the run (enrollment_lock, pending_save)
THEOREM EnrollmentKept == ASSUME "flush" \notin Faults PROVE Spec => []IInv
<1> QED BY InitIInv, Inductive, PTL DEF Spec

\* What the backend issued for a renewal stays within reach wherever a process is killed, an answer is
\* lost or a step fails: installed with its key, or named with its container by the registry value
\* (renewal_run saves before it posts, and clears after it has installed)
THEOREM RecoverableSafe == ASSUME "flush" \notin Faults PROVE Spec => []Recoverable
<1>1. IInv => Recoverable
  BY DEF IInv
<1> QED BY <1>1, EnrollmentKept, PTL

-----------------------------------------------------------------------------

\* What the monitor has read of the wall clock is what the clock has shown.
ShownDeadline == (utc >= Deadline \/ now >= Deadline) => reached

WatchIInv == WatchTypeOK /\ ShownDeadline /\ NotEarly

\* The watch starts before the deadline, with no monitor.
LEMMA WatchInitIInv == WatchInit => WatchIInv
<1> SUFFICES ASSUME WatchInit PROVE WatchIInv
  OBVIOUS
<1>1. /\ reached \in BOOLEAN /\ twin \in BOOLEAN /\ checked \in BOOLEAN /\ bootOwned \in BOOLEAN
      /\ observed \in BOOLEAN /\ ready \in BOOLEAN /\ mstop \in BOOLEAN /\ asked \in BOOLEAN
  BY DEF WatchInit
<1>2. /\ epoch \in {"own", "foreign"} /\ marker \in {"before", "window1", "past"}
      /\ phase \in {"wait", "started", "committed", "final"}
      /\ worker \in {"live", "dead"} /\ con \in {"pending", "first", "second", "down"}
  BY WatchAssumption DEF WatchInit
<1>3. /\ utc = 0 /\ tick = 0 /\ now = 0 /\ end = 0 /\ failures = 0 /\ held = {}
      /\ wpc = "startup" /\ mpc = "none" /\ qpc = "idle" /\ main = "run"
  BY DEF WatchInit
<1> QED BY <1>1, <1>2, <1>3, WatchAssumption
        DEF WatchIInv, WatchTypeOK, ShownDeadline, NotEarly, WatchSteps, MonitorSteps, QuerySteps

\* A step of the clocks and of the world keeps it.
LEMMA WorldWatch ==
    ASSUME WatchIInv,
           \/ Pass \/ (\E v \in -1 .. Deadline : ClockSet(v)) \/ WorkerDies \/ Publish
           \/ Commit \/ Clear \/ ConStarts \/ ConFails \/ StopService \/ Main
    PROVE  WatchIInv'
<1> USE WatchAssumption DEF WatchIInv, WatchTypeOK, ShownDeadline, NotEarly, WatchSteps,
        MonitorSteps, QuerySteps, clock, plan, watch, mon, query, WatchFault
<1>1. CASE Pass
  <2>1. reached' \in BOOLEAN BY <1>1 DEF Pass
  <2>2. /\ utc' = utc + 1 /\ tick' = tick + 1 /\ tick < MaxTick
        /\ reached' <=> (reached \/ utc' >= Deadline)
        /\ UNCHANGED <<plan, marker, phase, worker, con, watch, mon, query, main, failures>>
    BY <1>1 DEF Pass
  <2> QED BY <2>1, <2>2
<1>2. ASSUME NEW v \in -1 .. Deadline, ClockSet(v) PROVE WatchIInv'
  <2>1. reached' \in BOOLEAN BY <1>2 DEF ClockSet
  <2>2. utc' = v /\ failures' \in 0 .. MaxFailures BY <1>2 DEF ClockSet
  <2>3. reached' <=> (reached \/ v >= Deadline) BY <1>2, Zenon DEF ClockSet
  <2>4. UNCHANGED <<tick, plan, marker, phase, worker, con, watch, mon, query, main>>
    BY <1>2 DEF ClockSet
  <2> QED BY <2>1, <2>2, <2>3, <2>4
<1>3. CASE WorkerDies BY <1>3 DEF WorkerDies
<1>4. CASE Publish BY <1>4 DEF Publish
<1>5. CASE Commit BY <1>5 DEF Commit
<1>6. CASE Clear BY <1>6 DEF Clear
<1>7. CASE ConStarts BY <1>7 DEF ConStarts
<1>8. CASE ConFails BY <1>8 DEF ConFails
<1>9. CASE StopService BY <1>9 DEF StopService
<1>10. CASE StopWatch BY <1>10 DEF StopWatch
<1>11. CASE WatchClosed BY <1>11 DEF WatchClosed
<1> QED BY <1>1, <1>2, <1>3, <1>4, <1>5, <1>6, <1>7, <1>8, <1>9, <1>10, <1>11 DEF Main

\* A step of the watch thread keeps it.
LEMMA ThreadWatch ==
    ASSUME WatchIInv, WatchThread \/ BootExpires \/ StartupUnread \/ OpeningFails
    PROVE  WatchIInv'
<1> USE WatchAssumption DEF WatchIInv, WatchTypeOK, ShownDeadline, NotEarly, WatchSteps,
        MonitorSteps, QuerySteps, clock, plan, watch, mon, query, WatchFault
<1>1. CASE StartupReconcile
  <2>1. checked' \in BOOLEAN /\ bootOwned' \in BOOLEAN BY <1>1 DEF StartupReconcile, Original
  <2>2. /\ wpc' \in {"loop", "bootcheck"}
        /\ UNCHANGED <<clock, plan, marker, phase, worker, con, held, mon, query, main, failures>>
    BY <1>1 DEF StartupReconcile
  <2> QED BY <2>1, <2>2
<1>2. CASE BootCheck BY <1>2 DEF BootCheck
<1>3. CASE BootSignals
  <2>1. /\ wpc' \in {"bootexecute", "loop"} /\ held' \in {held, {"profile", "pin"}}
        /\ UNCHANGED <<clock, plan, marker, phase, worker, con, checked, bootOwned, mon, query,
                       main, failures>>
    BY <1>3 DEF BootSignals
  <2> QED BY <2>1
<1>4. CASE BootExecute
  <2>1. /\ wpc' \in {"bootrunning", "loop"} /\ held' \in {held, {}}
        /\ phase' \in {phase, "started"}
        /\ UNCHANGED <<clock, plan, marker, worker, con, checked, bootOwned, mon, query, main,
                       failures>>
    BY <1>4 DEF BootExecute
  <2> QED BY <2>1
<1>5. CASE BootReturns BY <1>5 DEF BootReturns
<1>6. CASE Loop BY <1>6 DEF Loop
<1>7. CASE Opening BY <1>7 DEF Opening
<1>8. CASE MonitorStart
  <2>0. /\ wpc' = "sleep"
        /\ UNCHANGED <<clock, plan, marker, phase, worker, con, checked, bootOwned, query, main,
                       failures>>
    BY <1>8 DEF MonitorStart
  <2>1. CASE UNCHANGED <<held, mon>> BY <2>0, <2>1
  <2>2. CASE ~UNCHANGED <<held, mon>>
    <3>1. /\ Original /\ held' = {"monitor", "profile", "pin"} /\ mpc' = "top"
          /\ end' = tick + Deadline - utc /\ now' = now
      BY <1>8, <2>2 DEF MonitorStart
    <3>2. observed' \in BOOLEAN /\ ready' \in BOOLEAN /\ mstop' \in BOOLEAN
      BY <1>8, <2>2 DEF MonitorStart
    <3>3. end' \in 0 .. (tick + Deadline) BY <3>1 DEF Original, InTime
    <3> QED BY <2>0, <3>1, <3>2, <3>3
  <2> QED BY <2>1, <2>2
<1>9. CASE Sleep BY <1>9 DEF Sleep
<1>10. CASE Closing
  <2>1. mstop' \in BOOLEAN BY <1>10 DEF Closing
  <2>2. /\ wpc' \in {wpc, "release"} /\ held' \subseteq held
        /\ UNCHANGED <<clock, plan, marker, phase, worker, con, checked, bootOwned,
                       mpc, observed, now, end, ready, query, main, failures>>
    BY <1>10 DEF Closing
  <2> QED BY <2>1, <2>2
<1>11. CASE Release BY <1>11 DEF Release
<1>12. CASE BootExpires BY <1>12 DEF BootExpires
<1>13. CASE StartupUnread BY <1>13 DEF StartupUnread
<1>14. CASE OpeningFails BY <1>14 DEF OpeningFails
<1> QED BY <1>1, <1>2, <1>3, <1>4, <1>5, <1>6, <1>7, <1>8, <1>9, <1>10, <1>11, <1>12,
           <1>13, <1>14 DEF WatchThread

\* A step of the monitor keeps it: it goes on to execute only with a reading of
\* the wall clock past the deadline.
LEMMA MonitorWatch ==
    ASSUME WatchIInv, MonitorThread \/ ReadFails
    PROVE  WatchIInv'
<1> USE WatchAssumption DEF WatchIInv, WatchTypeOK, ShownDeadline, NotEarly, WatchSteps,
        MonitorSteps, QuerySteps, clock, plan, watch, mon, query, WatchFault, MStep
<1>1. CASE Top BY <1>1 DEF Top
<1>2. CASE ReadMarker
  <2>1. observed' \in BOOLEAN BY <1>2 DEF ReadMarker
  <2>2. /\ mpc' \in {"utc", "finish"}
        /\ UNCHANGED <<clock, plan, marker, phase, worker, con, watch, now, end, ready, mstop,
                       query, main, failures>>
    BY <1>2 DEF ReadMarker
  <2> QED BY <2>1, <2>2
<1>3. CASE SampleUtc BY <1>3 DEF SampleUtc
<1>4. CASE SampleTick
  <2>1. Fresh \in Int /\ (Fresh >= Deadline => reached) BY DEF Fresh
  <2>2. ready' \in BOOLEAN BY <1>4 DEF SampleTick
  <2>3. /\ mpc' \in {"finish", "wait", "execute"} /\ now' = Fresh
        /\ mpc' = "execute" => Fresh >= Deadline
    BY <1>4, <2>1 DEF SampleTick
  <2>4. UNCHANGED <<clock, plan, marker, phase, worker, con, watch, observed, end, mstop,
                    query, main, failures>>
    BY <1>4 DEF SampleTick
  <2> QED BY <2>1, <2>2, <2>3, <2>4
<1>5. CASE Execute BY <1>5 DEF Execute
<1>6. CASE ExecuteReturns BY <1>6 DEF ExecuteReturns
<1>7. CASE Wait BY <1>7 DEF Wait
<1>8. CASE Finish BY <1>8 DEF Finish
<1>9. CASE ReadFails BY <1>9 DEF ReadFails
<1> QED BY <1>1, <1>2, <1>3, <1>4, <1>5, <1>6, <1>7, <1>8, <1>9 DEF MonitorThread

\* A step of the readiness query keeps it.
LEMMA QueryWatch ==
    ASSUME WatchIInv, Ask \/ Query
    PROVE  WatchIInv'
<1> USE WatchAssumption DEF WatchIInv, WatchTypeOK, ShownDeadline, NotEarly, WatchSteps,
        MonitorSteps, QuerySteps, clock, plan, watch, mon, query, QStep, Refuse
<1>1. CASE Ask BY <1>1 DEF Ask
<1>2. CASE QueryLock BY <1>2 DEF QueryLock
<1>3. CASE QueryFirst BY <1>3 DEF QueryFirst
<1>4. CASE QueryCurrent BY <1>4 DEF QueryCurrent
<1>5. CASE QueryDecision BY <1>5 DEF QueryDecision
<1>6. CASE QueryAgain BY <1>6 DEF QueryAgain
<1>7. CASE QueryFinal
  <2>1. (~stop /\ Original) \in BOOLEAN OBVIOUS
  <2> QED BY <1>7, <2>1 DEF QueryFinal
<1>8. CASE QueryTimeout BY <1>8 DEF QueryTimeout
<1> QED BY <1>1, <1>2, <1>3, <1>4, <1>5, <1>6, <1>7, <1>8 DEF Query

\* The inductive invariant of the watch holds throughout.
LEMMA WatchInductive == WatchSpec => []WatchIInv
<1>1. WatchIInv /\ [WatchNext]_watchVars => WatchIInv'
  <2> SUFFICES ASSUME WatchIInv, [WatchNext]_watchVars PROVE WatchIInv'
    OBVIOUS
  <2>1. CASE UNCHANGED watchVars
    BY <2>1 DEF WatchIInv, WatchTypeOK, ShownDeadline, NotEarly, watchVars, clock, plan,
       watch, mon, query
  <2> QED BY <2>1, WorldWatch, ThreadWatch, MonitorWatch, QueryWatch DEF WatchNext
<1> QED BY <1>1, WatchInitIInv, PTL DEF WatchSpec

\* Every variable of the watch stays in its set.
THEOREM WatchTyped == WatchSpec => []WatchTypeOK
<1>1. WatchIInv => WatchTypeOK BY DEF WatchIInv
<1> QED BY <1>1, WatchInductive, PTL

\* No rollback begins before the deadline, for every deadline and every way the
\* clocks may run apart.
THEOREM NotEarlySafe == WatchSpec => []NotEarly
<1>1. WatchIInv => NotEarly BY DEF WatchIInv
<1> QED BY <1>1, WatchInductive, PTL
=============================================================================
