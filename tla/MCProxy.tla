------------------------------ MODULE MCProxy ------------------------------
(***************************************************************************)
(* Leo4Proxy for TLC: the certificates and listeners of the service, and   *)
(* the policy of the device. A behaviour is about one of them.             *)
(***************************************************************************)
EXTENDS ProxyService, ProxyPolicy, TLC

\* A certificate, its renewal for the same device, and one of another device
\* with a better tier
CONSTANTS cert1, cert2, cert3, w1, w2
WorkerSym == Permutations({w1, w2})
Three == [c \in {cert1, cert2, cert3} |->
    CASE c = cert1 -> [sn |-> "a", tier |-> 2, notAfter |-> 1, usable |-> TRUE]
      [] c = cert2 -> [sn |-> "a", tier |-> 2, notAfter |-> 2, usable |-> TRUE]
      [] OTHER  -> [sn |-> "b", tier |-> 3, notAfter |-> 1, usable |-> TRUE]]

\* Two certificates of one serial number, the older about to expire, and one
\* of another
Identities == {"a1", "a2", "b1"}
SnOfIdentity == [c \in Identities |-> IF c = "b1" THEN "B" ELSE "A"]
Since == [c \in Identities |-> IF c = "a2" THEN 1 ELSE -2]
Until == [c \in Identities |-> IF c = "a1" THEN 1 ELSE 9]
TwoSkews == {-2, 0}

VARIABLE scene   \* the component this behaviour is about

ProxyInit ==
    /\ scene \in {"service", "policy"}
    /\ Init
    /\ PolicyInitial

ServiceStep == scene = "service" /\ Next /\ UNCHANGED <<scene, policyVars>>
PolicyStep == scene = "policy" /\ PolicyNext /\ UNCHANGED <<scene, vars>>
ProxyNext == ServiceStep \/ PolicyStep
ProxySpec == ProxyInit /\ [][ProxyNext]_<<scene, vars, policyVars>>

=============================================================================
