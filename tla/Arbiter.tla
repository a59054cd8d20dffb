------------------------------ MODULE Arbiter ------------------------------
(***************************************************************************)
(* What a decision file promises to the actors of one update operation.    *)
(* The update worker may commit, a recoverer may claim the operation and   *)
(* settle it, and the two exclude each other for good: the decision is     *)
(* written at most once by the worker, and the claim is held by at most    *)
(* one live recoverer.  Both communication.result (communication_store.c)  *)
(* and supervisor.result (recovery_store.c) are meant to implement this.   *)
(***************************************************************************)
CONSTANTS Recoverers,   \* processes that may claim the operation
          Terminals,    \* what a claim may settle to
          NoProc        \* nobody

VARIABLES decision,     \* "wait", "committed", "started" or a terminal
          claimant      \* the recoverer that holds the claim, or NoProc

vars == <<decision, claimant>>

Init == decision = "wait" /\ claimant = NoProc

\* The worker wins: only while nobody holds or ever recorded a claim.
Commit == /\ decision = "wait"
          /\ claimant = NoProc
          /\ decision' = "committed"
          /\ UNCHANGED claimant

\* A recoverer takes the claim of an undecided operation.
Claim(p) == /\ claimant = NoProc
            /\ decision \in {"wait", "started"}
            /\ claimant' = p
            /\ UNCHANGED decision

\* The claimant makes its claim durable.
Begin(p) == /\ claimant = p
            /\ decision = "wait"
            /\ decision' = "started"
            /\ UNCHANGED claimant

\* The claimant records how its recovery ended.
Settle(p) == /\ claimant = p
             /\ decision = "started"
             /\ decision' \in Terminals
             /\ UNCHANGED claimant

\* The claimant finished, gave up or died: the operating system drops its lock.
Release(p) == claimant = p /\ claimant' = NoProc /\ UNCHANGED decision

Next == \/ Commit
        \/ \E p \in Recoverers : Claim(p) \/ Begin(p) \/ Settle(p) \/ Release(p)

Spec == Init /\ [][Next]_vars
=============================================================================
