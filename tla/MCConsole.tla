----------------------------- MODULE MCConsole -----------------------------
(***************************************************************************)
(* The console agent for TLC: its file manager, once with an update window *)
(* and a fault and once with a renewal inside a transfer, and its          *)
(* commands. A behaviour is about one of them.                             *)
(***************************************************************************)
EXTENDS ConFiles, ConAgent

\* A task of every method
Methods == [exec |-> "exec", renew |-> "renew", cancel |-> "cancel", update |-> "update",
            files |-> "files", ping |-> "ping", bad |-> "bad"]
Bodies == DOMAIN Methods

VARIABLE scene   \* the component this behaviour is about

Renewing == INSTANCE ConFiles WITH
    Kinds <- Kinds, Leases <- {1}, Ops <- {1}, LeaseTime <- 2, Results <- 2,
    MaxTime <- 3, MaxCommands <- 3, MaxFaults <- 0, MaxWindows <- 0

ConsoleInit ==
    /\ scene \in {"files", "agent", "nested"}
    /\ CASE scene = "files" -> Init
         [] OTHER -> Renewing!Init
    /\ AgentInit

FilesStep == scene = "files" /\ Next /\ UNCHANGED <<scene, agentVars>>
AgentStep == scene = "agent" /\ AgentNext /\ UNCHANGED <<scene, vars>>
NestedStep == scene = "nested" /\ Renewing!Next /\ UNCHANGED <<scene, agentVars>>
ConsoleNext == FilesStep \/ AgentStep \/ NestedStep
ConsoleSpec == ConsoleInit /\ [][ConsoleNext]_<<scene, vars, agentVars>>

=============================================================================
