---------------------------- MODULE AtomicUpdate ----------------------------
(***************************************************************************)
(* What an update operation promises to the rest of the terminal.  While   *)
(* the update marker is active anything may be half done; once the marker  *)
(* is cleared the terminal runs one version, whole, and the operation      *)
(* never touches it again.  The outcome is written at most once, and one   *)
(* that claims an end state is written only in that state.                 *)
(***************************************************************************)
CONSTANTS Parts      \* what is switched: services and groups of settings

VARIABLES phase,     \* "idle", "open" or "closed"
          version,   \* version of each part: "old", "new" or "part"
          outcome    \* "none", "success", "restored" or "required"

vars == <<phase, version, outcome>>

Versions == {"old", "new", "part"}
Whole(v) == version = [p \in Parts |-> v]

Init == /\ phase = "idle"
        /\ Whole("old")
        /\ outcome = "none"

Open == phase = "idle" /\ phase' = "open" /\ UNCHANGED <<version, outcome>>

\* Parts change only while the operation is open and has not claimed an end
\* state; a recovery may follow the admission that one is required.
Change == /\ phase = "open"
          /\ outcome \in {"none", "required"}
          /\ version' \in [Parts -> Versions]
          /\ UNCHANGED <<phase, outcome>>

Report == /\ phase = "open"
          /\ outcome = "none"
          /\ \/ Whole("new") /\ outcome' = "success"
             \/ Whole("old") /\ outcome' = "restored"
             \/ outcome' = "required"
          /\ UNCHANGED <<phase, version>>

Close == /\ phase = "open"
         /\ \/ Whole("new") /\ outcome = "success"
            \/ Whole("old") /\ outcome = "restored"
         /\ phase' = "closed"
         /\ UNCHANGED <<version, outcome>>

Next == Open \/ Change \/ Report \/ Close

Spec == Init /\ [][Next]_vars
=============================================================================
