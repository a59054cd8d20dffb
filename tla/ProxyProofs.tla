---------------------------- MODULE ProxyProofs ----------------------------
(***************************************************************************)
(* Leo4Proxy, proved for every value of the constants: the credentials and *)
(* requests of the service, the admission policy, the RTP tunnel, the HTTP *)
(* listener, and the byte pump between a TLS and a plain socket.           *)
(***************************************************************************)
EXTENDS ProxyService, ProxyPolicy, ProxyTunnel, ProxyHttp, TlsPump, FiniteSetTheorems,
        SequenceTheorems, TLAPS

-----------------------------------------------------------------------------
(***************************************************************************)
(* No TLS session of the proxy outlives its credential, and a request      *)
(* names the device of the session it goes out on, for every set of        *)
(* certificates and workers and every bound on swaps, faults and           *)
(* connections.                                                            *)
(*                                                                         *)
(* The reference count is exact: an entry that is listed holds one         *)
(* reference for its owner until it is retired, and one for each session   *)
(* that leased it; an entry that is gone is leased by nobody.              *)
(***************************************************************************)

CertValues == Certs \cup {NoCert} \cup {BestOf(E) : E \in SUBSET Certs}
SnValues == {Sn(c) : c \in CertValues}
Entries == [cert : CertValues, refs : Nat, retired : BOOLEAN]
Servers == [started : BOOLEAN, running : BOOLEAN, handle : BOOLEAN, live : Nat, gen : Nat,
            cc : Nat, sc : Nat]
WorkerStates == [kind : LSet \cup {"none", "http"},
                 pc : {"idle", "spawned", "open", "connecting", "serving", "armed"},
                 gen : Nat, tok : Nat, lease : Nat, sn : SnValues, late : Nat]

\* A worker with a TLS session, and those whose session leased a token.
InSession(r) == r.pc \in {"connecting", "serving", "armed"}
HoldersOf(f, t) == {v \in Workers : InSession(f[v]) /\ f[v].lease = t}

\* The count of an entry is that of its owner and of its holders.
Accounted(cs, f) ==
    \A t \in 1 .. Len(cs) :
        IF cs[t] = NoCred THEN Cardinality(HoldersOf(f, t)) = 0
        ELSE /\ cs[t].refs > 0
             /\ cs[t].refs = (IF cs[t].retired THEN 0 ELSE 1) + Cardinality(HoldersOf(f, t))

\* Handles are tokens of the list.
Shaped ==
    /\ machine \subseteq Certs /\ user \subseteq Certs
    /\ creds \in Seq(Entries)
    /\ cert \in CertValues
    /\ cc \in 0 .. Len(creds) /\ sc \in 0 .. Len(creds)
    /\ old \in [cert : CertValues, cc : 0 .. Len(creds), sc : 0 .. Len(creds)]
    /\ http \in [cert : CertValues, cc : 0 .. Len(creds), sc : 0 .. Len(creds)]
    /\ lst \in [LSet -> Servers]
    /\ \A l \in LSet : lst[l].cc <= Len(creds) /\ lst[l].sc <= Len(creds)

\* A worker's session leased the token the worker was spawned with.
Leased ==
    /\ wk \in [Workers -> WorkerStates]
    /\ \A wr \in Workers : wk[wr].tok <= Len(creds)
    /\ \A wr \in Workers : InSession(wk[wr]) => wk[wr].lease = wk[wr].tok /\ wk[wr].lease # 0

\* What is listed under a token is a credential of the certificate it was made for.
Named ==
    /\ http.cc # 0 /\ creds[http.cc] # NoCred => creds[http.cc].cert = http.cert
    /\ \A wr \in Workers :
          wk[wr].kind = "http" =>
             wk[wr].tok # 0 /\ (creds[wk[wr].tok] # NoCred => wk[wr].sn = Sn(creds[wk[wr].tok].cert))

IInv == Shaped /\ Leased /\ Accounted(creds, wk) /\ Named

USE ConstantsOK

\* A list that grew or lost entries, kept certificates where it kept entries.
Successor(cs, ds) ==
    /\ ds \in Seq(Entries) /\ Len(cs) <= Len(ds)
    /\ \A t \in 1 .. Len(cs) : ds[t] = NoCred \/ (cs[t] # NoCred /\ ds[t].cert = cs[t].cert)

\* The sets of holders are finite.
LEMMA HoldersFinite ==
    ASSUME NEW f, NEW t
    PROVE  IsFiniteSet(HoldersOf(f, t)) /\ Cardinality(HoldersOf(f, t)) \in Nat
<1>1. HoldersOf(f, t) \subseteq Workers BY DEF HoldersOf
<1>2. IsFiniteSet(Workers) BY DEF ConstantsOK
<1> QED BY <1>1, <1>2, FS_Subset, FS_CardinalityType

\* A step of a worker that keeps its session, or its having none.
LEMMA HoldersSame ==
    ASSUME NEW f \in [Workers -> WorkerStates], NEW wr \in Workers, NEW r \in WorkerStates,
           InSession(r) <=> InSession(f[wr]), InSession(r) => r.lease = f[wr].lease, NEW t
    PROVE  HoldersOf([f EXCEPT ![wr] = r], t) = HoldersOf(f, t)
  BY DEF HoldersOf

\* A worker that enters a session.
LEMMA HoldersJoin ==
    ASSUME NEW f \in [Workers -> WorkerStates], NEW wr \in Workers, NEW r \in WorkerStates,
           InSession(r), ~InSession(f[wr]), NEW t
    PROVE  IF t = r.lease
           THEN Cardinality(HoldersOf([f EXCEPT ![wr] = r], t)) = Cardinality(HoldersOf(f, t)) + 1
           ELSE HoldersOf([f EXCEPT ![wr] = r], t) = HoldersOf(f, t)
<1>1. CASE t = r.lease
  <2>1. HoldersOf([f EXCEPT ![wr] = r], t) = HoldersOf(f, t) \cup {wr} BY <1>1 DEF HoldersOf
  <2>2. wr \notin HoldersOf(f, t) BY DEF HoldersOf
  <2> QED BY <1>1, <2>1, <2>2, HoldersFinite, FS_AddElement
<1>2. CASE t # r.lease
  BY <1>2 DEF HoldersOf
<1> QED BY <1>1, <1>2

\* A worker that leaves its session.
LEMMA HoldersLeave ==
    ASSUME NEW f \in [Workers -> WorkerStates], NEW wr \in Workers, NEW r \in WorkerStates,
           ~InSession(r), InSession(f[wr]), NEW t
    PROVE  IF t = f[wr].lease
           THEN /\ Cardinality(HoldersOf([f EXCEPT ![wr] = r], t)) = Cardinality(HoldersOf(f, t)) - 1
                /\ Cardinality(HoldersOf(f, t)) > 0
           ELSE HoldersOf([f EXCEPT ![wr] = r], t) = HoldersOf(f, t)
<1>1. CASE t = f[wr].lease
  <2>1. HoldersOf([f EXCEPT ![wr] = r], t) = HoldersOf(f, t) \ {wr} BY <1>1 DEF HoldersOf
  <2>2. wr \in HoldersOf(f, t) BY <1>1 DEF HoldersOf
  <2>3. Cardinality(HoldersOf(f, t) \ {wr}) = Cardinality(HoldersOf(f, t)) - 1
    BY <2>2, HoldersFinite, FS_RemoveElement
  <2>4. Cardinality(HoldersOf(f, t) \ {wr}) \in Nat
    BY <2>1, HoldersFinite
  <2>5. Cardinality(HoldersOf(f, t)) \in Nat BY HoldersFinite
  <2>6. Cardinality(HoldersOf(f, t)) > 0 BY <2>3, <2>4, <2>5
  <2> QED BY <1>1, <2>1, <2>3, <2>6
<1>2. CASE t # f[wr].lease
  BY <1>2 DEF HoldersOf
<1> QED BY <1>1, <1>2

\* An entry without references is gone; the others stay entries.
LEMMA EntryTypes ==
    /\ NoCred \in Entries
    /\ \A e \in Entries : RemoveIfUnused(e) \in Entries
    /\ \A e \in Entries : \A n \in Nat, b \in BOOLEAN :
          [e EXCEPT !.retired = b, !.refs = n] \in Entries /\ [e EXCEPT !.refs = n] \in Entries
<1>1. NoCred \in Entries BY DEF NoCred, Entries, CertValues
<1> QED BY <1>1 DEF Entries, RemoveIfUnused

\* credential_retire gives up the owner's reference, once, and frees the entry
\* when nobody leased it.
LEMMA RetireOK ==
    ASSUME NEW cs \in Seq(Entries), NEW f, Accounted(cs, f), NEW t \in 0 .. Len(cs)
    PROVE  /\ Successor(cs, Retire(cs, t)) /\ Len(Retire(cs, t)) = Len(cs)
           /\ Accounted(Retire(cs, t), f)
<1>1. CASE t = 0 \/ cs[t] = NoCred \/ cs[t].retired
  <2>1. Retire(cs, t) = cs BY <1>1 DEF Retire
  <2> QED BY <2>1 DEF Successor
<1>2. CASE ~(t = 0 \/ cs[t] = NoCred \/ cs[t].retired)
  <2> DEFINE n == Cardinality(HoldersOf(f, t))
             a == [cs[t] EXCEPT !.retired = TRUE]
             e == [a EXCEPT !.refs = @ - 1]
             ds == [cs EXCEPT ![t] = RemoveIfUnused(e)]
  <2>1. Retire(cs, t) = ds
    <3>1. Retire(cs, t) = [cs EXCEPT ![t] = Unref(a)] BY <1>2 DEF Retire
    <3> QED BY <3>1 DEF Unref
  <2>2. t \in 1 .. Len(cs) /\ cs[t] \in Entries BY <1>2
  <2>3. n \in Nat BY HoldersFinite
  <2>4. cs[t].refs = 1 + n BY <1>2, <2>2 DEF Accounted
  <2>5. a \in Entries /\ a.refs = 1 + n /\ a.retired = TRUE /\ a.cert = cs[t].cert
    BY <2>2, <2>4 DEF Entries
  <2> HIDE DEF a, n
  <2>6. e \in Entries /\ e.refs = n /\ e.retired = TRUE /\ e.cert = cs[t].cert
    BY <2>3, <2>5, SMTT(40) DEF Entries
  <2> HIDE DEF e, n
  <2>7. RemoveIfUnused(e) \in Entries BY <2>6, EntryTypes
  <2>8. /\ ds \in Seq(Entries) /\ Len(ds) = Len(cs) /\ ds[t] = RemoveIfUnused(e)
        /\ \A i \in 1 .. Len(cs) : i # t => ds[i] = cs[i]
    BY <2>2, <2>7
  <2> HIDE DEF ds
  <2>9. Successor(cs, ds) BY <1>2, <2>2, <2>6, <2>8 DEF Successor, RemoveIfUnused
  <2>10. Accounted(ds, f)
    <3> SUFFICES ASSUME NEW i \in 1 .. Len(ds)
                 PROVE  IF ds[i] = NoCred THEN Cardinality(HoldersOf(f, i)) = 0
                        ELSE /\ ds[i].refs > 0
                             /\ ds[i].refs = (IF ds[i].retired THEN 0 ELSE 1) + Cardinality(HoldersOf(f, i))
      BY DEF Accounted
    <3>1. CASE i # t BY <2>8, <3>1 DEF Accounted
    <3>2. CASE i = t /\ n = 0 BY <2>6, <2>8, <3>2 DEF RemoveIfUnused, n
    <3>3. CASE i = t /\ n # 0
      <4>1. ds[i] = e BY <2>6, <2>8, <3>3 DEF RemoveIfUnused
      <4> QED BY <2>3, <2>6, <3>3, <4>1 DEF NoCred, n
    <3> QED BY <3>1, <3>2, <3>3
  <2> QED BY <2>1, <2>8, <2>9, <2>10
<1> QED BY <1>1, <1>2

\* What is done to the handles leaves the sessions alone: the list is replaced
\* by a successor that is still exact.
LEMMA ListReplaced ==
    ASSUME IInv, wk' = wk, Successor(creds, creds'), Accounted(creds', wk)
    PROVE  Leased' /\ Accounted(creds, wk)'
<1>1. Len(creds) \in Nat /\ Len(creds') \in Nat BY DEF IInv, Shaped, Successor
<1> QED BY <1>1 DEF IInv, Leased, Successor, WorkerStates

\* The header goes with the token: a successor list keeps what is named.
LEMMA NamesKept ==
    ASSUME IInv, wk' = wk, http' = http, Successor(creds, creds')
    PROVE  Named'
<1>1. /\ http.cc # 0 => http.cc \in 1 .. Len(creds)
      /\ \A wr \in Workers : wk[wr].tok # 0 => wk[wr].tok \in 1 .. Len(creds)
  BY DEF IInv, Shaped, Leased, WorkerStates
<1> QED BY <1>1 DEF IInv, Named, Successor

\* The list itself.
LEMMA ListSame ==
    ASSUME IInv
    PROVE  Successor(creds, creds) /\ Len(creds) \in Nat
  BY DEF IInv, Shaped, Successor

\* The best certificate is a certificate value.
LEMMA FoundTyped ==
    ASSUME IInv
    PROVE  FindBest \in CertValues
<1>1. \A S \in SUBSET Certs : FindInStore(S) \in CertValues
  BY DEF FindInStore, CertValues
<1> QED BY <1>1 DEF FindBest, IInv, Shaped

\* A start or a stop concerns one of the four listeners and gives it tokens of
\* the list.
LEMMA ListenerTyped ==
    ASSUME IInv, NEW l, Start(l) \/ Stop(l)
    PROVE  lst' \in [LSet -> Servers] /\ \A m \in LSet : lst'[m].cc <= Len(creds) /\ lst'[m].sc <= Len(creds)
<1>1. PICK m \in LSet : StartListener(m) \/ StopListener(m)
  BY DEF Start, Stop, MqttStart, StreamStart, RtpStart, ReverseStart, MqttStop, StreamStop, RtpStop,
         ReverseStop, LSet
<1>2. /\ lst \in [LSet -> Servers] /\ lst[m] \in Servers /\ cc \in Nat /\ sc \in Nat
      /\ cc <= Len(creds) /\ sc <= Len(creds) /\ Len(creds) \in Nat
      /\ \A x \in LSet : lst[x].cc <= Len(creds) /\ lst[x].sc <= Len(creds)
  BY DEF IInv, Shaped
<1>3. \E r \in Servers : r.cc <= Len(creds) /\ r.sc <= Len(creds) /\ lst' = [lst EXCEPT ![m] = r]
  <2>1. CASE StartListener(m) /\ ~CanStart(m)
    <3> DEFINE r == [lst[m] EXCEPT !.started = FALSE]
    <3>1. lst' = [lst EXCEPT ![m] = r] BY <2>1 DEF StartListener
    <3>2. r \in Servers /\ r.cc = lst[m].cc /\ r.sc = lst[m].sc BY <1>2 DEF Servers
    <3> QED BY <1>2, <3>1, <3>2
  <2>2. CASE StartListener(m) /\ CanStart(m)
    <3>1. PICK ok \in BOOLEAN : lst' = [lst EXCEPT ![m] = StartedServer(m, ok)]
      BY <2>2 DEF StartListener
    <3>2. StartedServer(m, ok) \in Servers /\ StartedServer(m, ok).cc = cc /\ StartedServer(m, ok).sc = sc
      BY <1>2 DEF StartedServer, Servers
    <3> QED BY <1>2, <3>1, <3>2
  <2>3. CASE StopListener(m)
    <3> DEFINE q == [lst[m] EXCEPT !.started = FALSE, !.running = FALSE]
               d == IF lst[m].live > 0 THEN lst[m].live - 1 ELSE lst[m].live
               r == [lst[m] EXCEPT !.started = FALSE, !.running = FALSE, !.handle = FALSE, !.live = d]
    <3>1. lst' = [lst EXCEPT ![m] = q] \/ lst' = [lst EXCEPT ![m] = r]
      <4>1. PICK b \in BOOLEAN : lst' = [lst EXCEPT ![m] = StoppedServer(lst[m], b)]
        BY <2>3 DEF StopListener
      <4>2. StoppedServer(lst[m], b) = q \/ StoppedServer(lst[m], b) = r BY DEF StoppedServer
      <4> QED BY <4>1, <4>2
    <3>2. d \in Nat BY <1>2 DEF Servers
    <3> HIDE DEF d
    <3>3. /\ r \in Servers /\ r.cc = lst[m].cc /\ r.sc = lst[m].sc
          /\ q \in Servers /\ q.cc = lst[m].cc /\ q.sc = lst[m].sc
      BY <1>2, <3>2 DEF Servers
    <3> QED BY <1>2, <3>1, <3>3
  <2> QED BY <1>1, <2>1, <2>2, <2>3
<1> QED BY <1>2, <1>3

\* A step of the service that leaves the credentials and the handles alone.
LEMMA ListenersOnly ==
    ASSUME IInv, UNCHANGED <<creds, cert, cc, sc, old, http, wk>>,
           machine' \subseteq Certs, user' \subseteq Certs,
           lst' = lst \/ (\E l : Start(l) \/ Stop(l))
    PROVE  IInv'
<1>1. lst' \in [LSet -> Servers] /\ \A m \in LSet : lst'[m].cc <= Len(creds) /\ lst'[m].sc <= Len(creds)
  <2>1. CASE lst' = lst BY <2>1 DEF IInv, Shaped
  <2>2. CASE \E l : Start(l) \/ Stop(l) BY <2>2, ListenerTyped
  <2> QED BY <2>1, <2>2
<1>2. Shaped' BY <1>1 DEF IInv, Shaped
<1>3. Leased' /\ Accounted(creds, wk)' BY ListReplaced, ListSame DEF IInv
<1>4. Named' BY NamesKept, ListSame
<1> QED BY <1>2, <1>3, <1>4 DEF IInv

\* A registration: one or two fresh entries that nobody has leased.
LEMMA Registered ==
    ASSUME IInv, NEW cs \in Seq(Entries), Accounted(cs, wk), Len(creds) <= Len(cs), NEW c \in CertValues
    PROVE  /\ Register(cs, c) \in Seq(Entries) /\ Len(Register(cs, c)) = Len(cs) + 1
           /\ Accounted(Register(cs, c), wk)
           /\ \A t \in 1 .. Len(cs) : Register(cs, c)[t] = cs[t]
           /\ Register(cs, c)[Len(cs) + 1].cert = c
<1> DEFINE e == [cert |-> c, refs |-> 1, retired |-> FALSE]
           ds == Append(cs, e)
<1>1. e \in Entries /\ e # NoCred /\ e.refs = 1 /\ e.retired = FALSE /\ e.cert = c BY DEF Entries, NoCred
<1>2. Register(cs, c) = ds BY DEF Register
<1> HIDE DEF e
<1>3. /\ ds \in Seq(Entries) /\ Len(ds) = Len(cs) + 1 /\ ds[Len(cs) + 1] = e
      /\ \A t \in 1 .. Len(cs) : ds[t] = cs[t]
  BY <1>1
<1> HIDE DEF ds
<1>4. HoldersOf(wk, Len(cs) + 1) = {}
  <2>1. Len(cs) \in Nat /\ Len(creds) \in Nat BY DEF IInv, Shaped
  <2>2. \A wr \in Workers : InSession(wk[wr]) => wk[wr].lease <= Len(creds) /\ wk[wr].lease \in Nat
    BY DEF IInv, Leased, WorkerStates
  <2> QED BY <2>1, <2>2 DEF HoldersOf
<1>5. Cardinality(HoldersOf(wk, Len(cs) + 1)) = 0 BY <1>4, FS_EmptySet
<1>6. Accounted(ds, wk)
  <2> SUFFICES ASSUME NEW t \in 1 .. Len(ds)
               PROVE  IF ds[t] = NoCred THEN Cardinality(HoldersOf(wk, t)) = 0
                      ELSE /\ ds[t].refs > 0
                           /\ ds[t].refs = (IF ds[t].retired THEN 0 ELSE 1) + Cardinality(HoldersOf(wk, t))
    BY DEF Accounted
  <2>1. CASE t = Len(cs) + 1 BY <1>1, <1>3, <1>5, <2>1
  <2>2. CASE t \in 1 .. Len(cs) BY <1>3, <2>2 DEF Accounted
  <2>3. Len(cs) \in Nat OBVIOUS
  <2> QED BY <1>3, <2>1, <2>2, <2>3
<1> QED BY <1>1, <1>2, <1>3, <1>6

\* A load or a swap: the handles in force are those just registered.
LEMMA Loaded ==
    ASSUME IInv, NEW serverOk \in BOOLEAN, wk' = wk, lst' = lst, UNCHANGED <<machine, user>>,
           old' = old \/ old' = [cert |-> cert, cc |-> cc, sc |-> sc],
           LET c1 == Register(creds, FindBest)
               c2 == IF serverOk THEN Register(c1, FindBest) ELSE c1 IN
           /\ creds' = c2 /\ cc' = Len(c1) /\ sc' = IF serverOk THEN Len(c2) ELSE 0
           /\ http' = [cert |-> FindBest, cc |-> Len(c1), sc |-> IF serverOk THEN Len(c2) ELSE 0],
           cert' = FindBest
    PROVE  IInv'
<1> DEFINE c1 == Register(creds, FindBest)
           c2 == Register(c1, FindBest)
           n == Len(creds)
<1>0. FindBest \in CertValues BY FoundTyped
<1>1. /\ c1 \in Seq(Entries) /\ Len(c1) = n + 1 /\ Accounted(c1, wk)
      /\ \A t \in 1 .. n : c1[t] = creds[t]
      /\ c1[n + 1].cert = FindBest /\ n \in Nat
  BY <1>0, Registered DEF IInv, Shaped
<1> HIDE DEF c1
<1>2. /\ c2 \in Seq(Entries) /\ Len(c2) = n + 2 /\ Accounted(c2, wk)
      /\ \A t \in 1 .. n + 1 : c2[t] = c1[t]
  BY <1>0, <1>1, Registered
<1> HIDE DEF c2, n
<1>3. /\ creds' = IF serverOk THEN c2 ELSE c1
      /\ cc' = n + 1 /\ sc' = IF serverOk THEN n + 2 ELSE 0
      /\ http' = [cert |-> FindBest, cc |-> n + 1, sc |-> IF serverOk THEN n + 2 ELSE 0]
  BY <1>1, <1>2 DEF c1, c2
<1>4. /\ creds' \in Seq(Entries) /\ Accounted(creds', wk) /\ Len(creds') = IF serverOk THEN n + 2 ELSE n + 1
      /\ \A t \in 1 .. n : creds'[t] = creds[t]
      /\ creds'[n + 1].cert = FindBest
  BY <1>1, <1>2, <1>3
<1>5. Successor(creds, creds') BY <1>1, <1>4 DEF Successor, n
<1>6. Leased' /\ Accounted(creds, wk)' BY <1>4, <1>5, ListReplaced
<1>7. Shaped'
  <2>1. cc' \in 0 .. Len(creds') /\ sc' \in 0 .. Len(creds') BY <1>1, <1>3, <1>4
  <2>2. http' \in [cert : CertValues, cc : 0 .. Len(creds'), sc : 0 .. Len(creds')]
    BY <1>0, <1>1, <1>3, <1>4
  <2>3. old' \in [cert : CertValues, cc : 0 .. Len(creds'), sc : 0 .. Len(creds')]
    BY <1>1, <1>4 DEF IInv, Shaped, n
  <2>4. \A l \in LSet : lst'[l].cc <= Len(creds') /\ lst'[l].sc <= Len(creds')
    <3>1. \A l \in LSet : lst[l].cc \in Nat /\ lst[l].sc \in Nat /\ lst[l].cc <= n /\ lst[l].sc <= n
      BY DEF IInv, Shaped, Servers, n
    <3> QED BY <1>1, <1>4, <3>1
  <2> QED BY <1>0, <1>4, <2>1, <2>2, <2>3, <2>4 DEF IInv, Shaped
<1>8. Named'
  <2>1. http'.cc = n + 1 /\ http'.cert = FindBest BY <1>3
  <2>2. \A wr \in Workers : wk[wr].tok # 0 => wk[wr].tok \in 1 .. n
    BY DEF IInv, Leased, WorkerStates, n
  <2> QED BY <1>4, <2>1, <2>2 DEF IInv, Named
<1> QED BY <1>6, <1>7, <1>8 DEF IInv

\* Two tokens are retired: what service_mgr.c does to free a pair of handles.
LEMMA Freed ==
    ASSUME IInv, NEW t \in 0 .. Len(creds), NEW u \in 0 .. Len(creds), wk' = wk, lst' = lst,
           UNCHANGED <<machine, user>>,
           creds' = Retire(Retire(creds, t), u),
           cc' \in {cc, 0}, sc' \in {sc, 0}, cert' \in {cert, NoCert},
           old' \in {old, [cert |-> NoCert, cc |-> 0, sc |-> 0]},
           http' \in {http, [cert |-> NoCert, cc |-> 0, sc |-> 0]}
    PROVE  IInv'
<1> DEFINE ds == Retire(creds, t)
<1>1. Successor(creds, ds) /\ Len(ds) = Len(creds) /\ Accounted(ds, wk) /\ ds \in Seq(Entries)
  BY RetireOK DEF IInv, Shaped, Successor
<1> HIDE DEF ds
<1>2. Successor(ds, creds') /\ Len(creds') = Len(ds) /\ Accounted(creds', wk)
  BY <1>1, RetireOK DEF ds
<1>3. Successor(creds, creds') /\ Len(creds') = Len(creds) BY <1>1, <1>2 DEF Successor
<1>4. Leased' /\ Accounted(creds, wk)' BY <1>2, <1>3, ListReplaced
<1>5. Shaped'
  <2>1. NoCert \in CertValues BY DEF CertValues
  <2>2. Len(creds) \in Nat BY ListSame
  <2> QED BY <1>3, <2>1, <2>2 DEF IInv, Shaped, Successor
<1>6. Named'
  <2>1. CASE http' = http BY <1>3, <2>1, NamesKept
  <2>2. CASE http' = [cert |-> NoCert, cc |-> 0, sc |-> 0]
    <3>1. \A wr \in Workers : wk[wr].tok # 0 => wk[wr].tok \in 1 .. Len(creds)
      BY DEF IInv, Leased, WorkerStates, Shaped
    <3> QED BY <1>3, <2>2, <3>1 DEF IInv, Named, Successor
  <2> QED BY <2>1, <2>2
<1> QED BY <1>4, <1>5, <1>6 DEF IInv

\* A step of one worker that registers and retires nothing, starts and stops
\* nothing.
LEMMA WorkerMoves ==
    ASSUME IInv, NEW wr \in Workers, NEW r \in WorkerStates, wk' = [wk EXCEPT ![wr] = r],
           UNCHANGED <<machine, user, cert, cc, sc, old, http, lst>>, creds' = creds,
           InSession(r) <=> InSession(wk[wr]), InSession(r) => r.lease = wk[wr].lease /\ r.tok = wk[wr].tok,
           r.tok <= Len(creds),
           r.kind = "http" => r.tok # 0 /\ (creds[r.tok] # NoCred => r.sn = Sn(creds[r.tok].cert))
    PROVE  IInv'
<1>1. wk \in [Workers -> WorkerStates] BY DEF IInv, Leased
<1>2. \A t : HoldersOf(wk', t) = HoldersOf(wk, t) BY <1>1, HoldersSame
<1>3. Accounted(creds, wk)' BY <1>2 DEF IInv, Accounted
<1>4. Shaped' BY DEF IInv, Shaped
<1>5. Leased' BY <1>1 DEF IInv, Leased
<1>6. Named' BY <1>1 DEF IInv, Named
<1> QED BY <1>3, <1>4, <1>5, <1>6 DEF IInv

\* What a fresh or an idle worker is.
LEMMA WorkerTyped ==
    ASSUME IInv, NEW wr \in Workers
    PROVE  /\ IdleWorker \in WorkerStates /\ ~InSession(IdleWorker) /\ IdleWorker.kind = "none"
           /\ IdleWorker.tok = 0 /\ Len(creds) \in Nat
           /\ wk \in [Workers -> WorkerStates] /\ wk[wr] \in WorkerStates /\ wk[wr].tok <= Len(creds)
           /\ wk[wr].kind = "http" =>
                 wk[wr].tok # 0 /\ (creds[wk[wr].tok] # NoCred => wk[wr].sn = Sn(creds[wk[wr].tok].cert))
<1>1. "none" \in SnValues
  <2>1. NoCert \in CertValues /\ Sn(NoCert) = "none" BY DEF CertValues, Sn
  <2> QED BY <2>1 DEF SnValues
<1>2. IdleWorker \in WorkerStates BY <1>1 DEF IdleWorker, WorkerStates
<1> QED BY <1>2, ListSame DEF IInv, Leased, Named, IdleWorker, InSession

\* An accepted connection: the worker gets a token of the list and a name.
LEMMA Accepted ==
    ASSUME IInv, NEW wr \in Workers, NEW l \in LSet,
           NEW g \in Nat, NEW t \in 0 .. Len(creds), NEW c \in CertValues,
           wk[wr].pc = "idle",
           wk' = [wk EXCEPT ![wr] = [IdleWorker EXCEPT !.kind = l, !.pc = "spawned", !.gen = g, !.tok = t, !.sn = Sn(c)]],
           UNCHANGED <<machine, user, cert, cc, sc, old, http, lst, creds>>
    PROVE  IInv'
<1> DEFINE r == [IdleWorker EXCEPT !.kind = l, !.pc = "spawned", !.gen = g, !.tok = t, !.sn = Sn(c)]
<1>1. Sn(c) \in SnValues BY DEF SnValues
<1>2. Len(creds) \in Nat /\ t \in Nat BY ListSame
<1>3. IdleWorker \in WorkerStates BY WorkerTyped
<1>4. r \in WorkerStates BY <1>1, <1>2, <1>3 DEF WorkerStates, LSet
<1>5. r.kind = l /\ r.pc = "spawned" /\ r.tok = t /\ r.sn = Sn(c) BY <1>3 DEF WorkerStates
<1>6. wk' = [wk EXCEPT ![wr] = r] OBVIOUS
<1> HIDE DEF r
<1>7. ~InSession(r) /\ ~InSession(wk[wr]) BY <1>5 DEF InSession
<1>8. r.kind = "http" => r.tok # 0 /\ (creds[r.tok] # NoCred => r.sn = Sn(creds[r.tok].cert))
  BY <1>5 DEF LSet
<1>9. r.tok <= Len(creds) BY <1>2, <1>5
<1>10. (InSession(r) <=> InSession(wk[wr])) /\ (InSession(r) => r.lease = wk[wr].lease /\ r.tok = wk[wr].tok)
  BY <1>7
<1> QED BY <1>4, <1>6, <1>8, <1>9, <1>10, WorkerMoves

\* schannel_close: the lease of the session is given back, and the entry is
\* freed when it was the last one of a retired credential.
LEMMA Closed ==
    ASSUME IInv, NEW wr \in Workers, InSession(wk[wr]), Close(wr)
    PROVE  IInv'
<1> DEFINE t == wk[wr].lease
           e == [creds[t] EXCEPT !.refs = @ - 1]
           ds == [creds EXCEPT ![t] = RemoveIfUnused(e)]
           f == [wk EXCEPT ![wr] = IdleWorker]
           n == Cardinality(HoldersOf(wk, t))
<1>1. /\ creds \in Seq(Entries) /\ Len(creds) \in Nat /\ t \in 1 .. Len(creds) /\ creds[t] \in Entries
      /\ wk \in [Workers -> WorkerStates] /\ t = wk[wr].tok
  BY DEF IInv, Shaped, Leased, WorkerStates
<1>2. creds' = ds /\ wk' = f /\ UNCHANGED <<machine, user, cert, cc, sc, old, http, lst>>
  BY DEF Close, Release, Unref, SetWorker, storeVars, svcVars
<1>3. IdleWorker \in WorkerStates /\ ~InSession(IdleWorker) BY WorkerTyped
<1>4. /\ Cardinality(HoldersOf(f, t)) = n - 1 /\ n > 0 /\ n \in Nat
      /\ \A i : i # t => HoldersOf(f, i) = HoldersOf(wk, i)
  <2>1. \A i : IF i = t THEN /\ Cardinality(HoldersOf(f, i)) = Cardinality(HoldersOf(wk, i)) - 1
                            /\ Cardinality(HoldersOf(wk, i)) > 0
               ELSE HoldersOf(f, i) = HoldersOf(wk, i)
    BY <1>1, <1>3, HoldersLeave
  <2> QED BY <2>1, HoldersFinite
<1> HIDE DEF f, n
<1>5. creds[t] # NoCred /\ creds[t].refs = (IF creds[t].retired THEN 0 ELSE 1) + n
  BY <1>1, <1>4 DEF IInv, Accounted, n
<1>6. /\ e \in Entries /\ e.cert = creds[t].cert /\ e.retired = creds[t].retired
      /\ e.refs = (IF creds[t].retired THEN 0 ELSE 1) + (n - 1)
  <2>1. creds[t].refs - 1 \in Nat /\ creds[t].refs - 1 = (IF creds[t].retired THEN 0 ELSE 1) + (n - 1)
    BY <1>4, <1>5
  <2> QED BY <1>1, <2>1 DEF Entries
<1> HIDE DEF e, t
<1>7. RemoveIfUnused(e) \in Entries BY <1>6, EntryTypes
<1>8. /\ ds \in Seq(Entries) /\ Len(ds) = Len(creds) /\ ds[t] = RemoveIfUnused(e)
      /\ \A i \in 1 .. Len(creds) : i # t => ds[i] = creds[i]
  BY <1>1, <1>7
<1> HIDE DEF ds
<1>9. Successor(creds, ds) BY <1>1, <1>5, <1>6, <1>8 DEF Successor, RemoveIfUnused
<1>10. Accounted(ds, f)
  <2> SUFFICES ASSUME NEW i \in 1 .. Len(ds)
               PROVE  IF ds[i] = NoCred THEN Cardinality(HoldersOf(f, i)) = 0
                      ELSE /\ ds[i].refs > 0
                           /\ ds[i].refs = (IF ds[i].retired THEN 0 ELSE 1) + Cardinality(HoldersOf(f, i))
    BY DEF Accounted
  <2>1. CASE i # t BY <1>4, <1>8, <2>1 DEF IInv, Accounted
  <2>2. CASE i = t /\ e.refs = 0
    <3>1. ds[i] = NoCred BY <1>8, <2>2 DEF RemoveIfUnused
    <3>2. n - 1 = 0 BY <1>4, <1>6, <2>2
    <3> QED BY <1>4, <2>2, <3>1, <3>2
  <2>3. CASE i = t /\ e.refs # 0
    <3>1. ds[i] = e BY <1>8, <2>3 DEF RemoveIfUnused
    <3>2. e.refs \in Nat BY <1>6 DEF Entries
    <3>3. e # NoCred BY <2>3 DEF NoCred
    <3> QED BY <1>4, <1>6, <2>3, <3>1, <3>2, <3>3
  <2> QED BY <2>1, <2>2, <2>3
<1>11. Shaped' BY <1>2, <1>8 DEF IInv, Shaped
<1>12. Leased' BY <1>1, <1>2, <1>3, <1>8, WorkerTyped DEF IInv, Leased, f
<1>13. Named'
  <2>1. /\ http.cc # 0 => http.cc \in 1 .. Len(creds)
        /\ \A v \in Workers : wk[v].tok # 0 => wk[v].tok \in 1 .. Len(creds)
    BY DEF IInv, Shaped, Leased, WorkerStates
  <2>2. \A v \in Workers : wk'[v] = wk[v] \/ wk'[v].kind = "none"
    BY <1>1, <1>2, <1>3, WorkerTyped DEF f
  <2> QED BY <1>2, <1>9, <2>1, <2>2 DEF IInv, Named, Successor
<1> QED BY <1>2, <1>10, <1>11, <1>12, <1>13 DEF IInv

\* credential_borrow: a session takes a reference of a credential in force.
LEMMA Borrowed ==
    ASSUME IInv, NEW wr \in Workers, BorrowLease(wr)
    PROVE  IInv'
<1> DEFINE t == wk[wr].tok
           e == [creds[t] EXCEPT !.refs = @ + 1]
           ds == [creds EXCEPT ![t] = e]
           r == [wk[wr] EXCEPT !.pc = "connecting", !.lease = t]
           f == [wk EXCEPT ![wr] = r]
           n == Cardinality(HoldersOf(wk, t))
<1>0. wk[wr].pc = "open" /\ t # 0 /\ creds[t] # NoCred /\ ~creds[t].retired
  BY DEF BorrowLease, CanBorrow
<1>1. /\ creds \in Seq(Entries) /\ Len(creds) \in Nat /\ t \in 1 .. Len(creds) /\ creds[t] \in Entries
      /\ wk \in [Workers -> WorkerStates] /\ wk[wr] \in WorkerStates
  BY <1>0 DEF IInv, Shaped, Leased, WorkerStates
<1>2. creds' = ds /\ wk' = f /\ UNCHANGED <<machine, user, cert, cc, sc, old, http, lst>>
  BY DEF BorrowLease, Borrow, SetWorker, storeVars, svcVars
<1>3. /\ r \in WorkerStates /\ InSession(r) /\ r.lease = t /\ r.tok = t /\ r.kind = wk[wr].kind
      /\ r.sn = wk[wr].sn /\ ~InSession(wk[wr])
  BY <1>0, <1>1 DEF WorkerStates, InSession
<1> HIDE DEF r
<1>4. /\ Cardinality(HoldersOf(f, t)) = n + 1 /\ n \in Nat
      /\ \A i : i # t => HoldersOf(f, i) = HoldersOf(wk, i)
  <2>1. \A i : IF i = r.lease
               THEN Cardinality(HoldersOf(f, i)) = Cardinality(HoldersOf(wk, i)) + 1
               ELSE HoldersOf(f, i) = HoldersOf(wk, i)
    BY <1>1, <1>3, HoldersJoin
  <2> QED BY <1>3, <2>1, HoldersFinite
<1> HIDE DEF f, n
<1>5. creds[t].refs = 1 + n BY <1>0, <1>1 DEF IInv, Accounted, n
<1>6. e \in Entries /\ e.cert = creds[t].cert /\ e.retired = FALSE /\ e.refs = 2 + n
  <2>1. creds[t].refs + 1 \in Nat /\ creds[t].refs + 1 = 2 + n BY <1>4, <1>5
  <2>2. creds[t].retired = FALSE BY <1>0, <1>1 DEF Entries
  <2> QED BY <1>1, <2>1, <2>2 DEF Entries
<1> HIDE DEF e, t
<1>8. /\ ds \in Seq(Entries) /\ Len(ds) = Len(creds) /\ ds[t] = e
      /\ \A i \in 1 .. Len(creds) : i # t => ds[i] = creds[i]
  BY <1>1, <1>6
<1> HIDE DEF ds
<1>9. Successor(creds, ds) BY <1>0, <1>1, <1>6, <1>8 DEF Successor
<1>10. Accounted(ds, f)
  <2> SUFFICES ASSUME NEW i \in 1 .. Len(ds)
               PROVE  IF ds[i] = NoCred THEN Cardinality(HoldersOf(f, i)) = 0
                      ELSE /\ ds[i].refs > 0
                           /\ ds[i].refs = (IF ds[i].retired THEN 0 ELSE 1) + Cardinality(HoldersOf(f, i))
    BY DEF Accounted
  <2>1. CASE i # t BY <1>4, <1>8, <2>1 DEF IInv, Accounted
  <2>2. CASE i = t
    <3>1. e # NoCred BY <1>4, <1>6 DEF NoCred
    <3> QED BY <1>4, <1>6, <1>8, <2>2, <3>1
  <2> QED BY <2>1, <2>2
<1>11. Shaped' BY <1>2, <1>8 DEF IInv, Shaped
<1>12. Leased' BY <1>1, <1>2, <1>3, <1>8 DEF IInv, Leased, f, t
<1>13. Named'
  <2>1. /\ http.cc # 0 => http.cc \in 1 .. Len(creds)
        /\ \A v \in Workers : wk[v].tok # 0 => wk[v].tok \in 1 .. Len(creds)
    BY DEF IInv, Shaped, Leased, WorkerStates
  <2>2. \A v \in Workers : wk'[v].kind = wk[v].kind /\ wk'[v].tok = wk[v].tok /\ wk'[v].sn = wk[v].sn
    BY <1>1, <1>2, <1>3 DEF f, t
  <2> QED BY <1>2, <1>9, <2>1, <2>2 DEF IInv, Named, Successor
<1> QED BY <1>2, <1>10, <1>11, <1>12, <1>13 DEF IInv

\* The initial state satisfies the inductive invariant.
LEMMA InitIInv == Init => IInv
<1> SUFFICES ASSUME Init PROVE IInv
  OBVIOUS
<1> USE DEF Init
<1>1. creds \in Seq(Entries) /\ Len(creds) = 0 OBVIOUS
<1>2. NoCert \in CertValues BY DEF CertValues
<1>3. IdleWorker \in WorkerStates /\ ~InSession(IdleWorker) /\ IdleWorker.kind = "none" /\ IdleWorker.tok = 0
  <2>1. "none" \in SnValues
    <3>1. Sn(NoCert) = "none" BY DEF Sn
    <3> QED BY <1>2, <3>1 DEF SnValues
  <2> QED BY <2>1 DEF IdleWorker, WorkerStates, InSession
<1>4. FreshServer \in Servers /\ FreshServer.cc = 0 /\ FreshServer.sc = 0 BY DEF FreshServer, Servers
<1>5. Shaped
  <2>1. \A l \in LSet : lst[l].cc = 0 /\ lst[l].sc = 0 BY <1>4
  <2>2. lst \in [LSet -> Servers] BY <1>4
  <2>3. /\ old \in [cert : CertValues, cc : 0 .. Len(creds), sc : 0 .. Len(creds)]
        /\ http \in [cert : CertValues, cc : 0 .. Len(creds), sc : 0 .. Len(creds)]
    BY <1>1, <1>2
  <2>4. machine \subseteq Certs /\ user \subseteq Certs OBVIOUS
  <2>5. cert \in CertValues BY <1>2
  <2>6. cc \in 0 .. Len(creds) /\ sc \in 0 .. Len(creds) BY <1>1
  <2> QED BY <1>1, <2>1, <2>2, <2>3, <2>4, <2>5, <2>6 DEF Shaped
<1>6. Leased BY <1>1, <1>3 DEF Leased
<1>7. Accounted(creds, wk) BY <1>1 DEF Accounted
<1>8. Named BY <1>3 DEF Named
<1> QED BY <1>5, <1>6, <1>7, <1>8 DEF IInv

\* Every step of the service, of a listener and of a worker keeps it.
LEMMA StepIInv == IInv /\ [Next]_vars => IInv'
<1> SUFFICES ASSUME IInv, [Next]_vars PROVE IInv'
  OBVIOUS
<1> USE DEF storeVars, workVars, svcVars
<1>t. machine \subseteq Certs /\ user \subseteq Certs BY DEF IInv, Shaped
<1>1. CASE StoreChange \/ CertExpires
  <2>1. machine' \subseteq Certs /\ user' \subseteq Certs BY <1>1, <1>t DEF StoreChange, CertExpires
  <2> QED BY <1>1, <2>1, ListenersOnly DEF StoreChange, CertExpires
<1>2. CASE StopRequested
  BY <1>2, <1>t, ListenersOnly DEF StopRequested
<1>3. CASE PollLoad
  <2>1. PICK serverOk \in BOOLEAN :
          LET c1 == Register(creds, FindBest)
              c2 == IF serverOk THEN Register(c1, FindBest) ELSE c1 IN
          /\ creds' = c2 /\ cc' = Len(c1) /\ sc' = IF serverOk THEN Len(c2) ELSE 0
          /\ http' = [cert |-> FindBest, cc |-> Len(c1), sc |-> IF serverOk THEN Len(c2) ELSE 0]
    BY <1>3 DEF PollLoad, HttpUpdate
  <2>2. UNCHANGED <<old, lst, wk, machine, user>> /\ cert' = FindBest BY <1>3 DEF PollLoad
  <2> QED BY <2>1, <2>2, Loaded
<1>4. CASE PollSwap
  <2>1. PICK serverOk \in BOOLEAN :
          LET c1 == Register(creds, FindBest)
              c2 == IF serverOk THEN Register(c1, FindBest) ELSE c1 IN
          /\ creds' = c2 /\ cc' = Len(c1) /\ sc' = IF serverOk THEN Len(c2) ELSE 0
          /\ http' = [cert |-> FindBest, cc |-> Len(c1), sc |-> IF serverOk THEN Len(c2) ELSE 0]
    BY <1>4 DEF PollSwap, HttpUpdate
  <2>2. /\ UNCHANGED <<lst, wk, machine, user>> /\ cert' = FindBest
        /\ old' = [cert |-> cert, cc |-> cc, sc |-> sc]
    BY <1>4 DEF PollSwap
  <2> QED BY <2>1, <2>2, Loaded
<1>5. CASE PollRefused
  <2> DEFINE n == Len(creds)
  <2>1. /\ creds' = Append(creds, NoCred)
        /\ UNCHANGED <<cert, cc, sc, old, lst, http, wk, machine, user>>
    BY <1>5 DEF PollRefused
  <2>2. creds \in Seq(Entries) /\ n \in Nat BY DEF IInv, Shaped
  <2>3. /\ creds' \in Seq(Entries) /\ Len(creds') = n + 1 /\ creds'[n + 1] = NoCred
        /\ \A t \in 1 .. n : creds'[t] = creds[t]
    <3>1. NoCred \in Entries BY EntryTypes
    <3> QED BY <2>1, <2>2, <3>1
  <2>4. Successor(creds, creds') BY <2>2, <2>3 DEF Successor
  <2>5. Accounted(creds', wk)
    <3>1. HoldersOf(wk, n + 1) = {}
      <4>1. \A wr \in Workers : InSession(wk[wr]) => wk[wr].lease <= n /\ wk[wr].lease \in Nat
        BY DEF IInv, Leased, WorkerStates
      <4> HIDE DEF n
      <4> QED BY <2>2, <4>1 DEF HoldersOf
    <3>2. Cardinality(HoldersOf(wk, n + 1)) = 0 BY <3>1, FS_EmptySet
    <3>3. \A t \in 1 .. n + 1 : t \in 1 .. n \/ t = n + 1 BY <2>2
    <3> QED BY <2>2, <2>3, <3>2, <3>3 DEF IInv, Accounted
  <2>6. Leased' /\ Accounted(creds, wk)' BY <2>1, <2>4, <2>5, ListReplaced
  <2>7. Named' BY <2>1, <2>4, NamesKept
  <2>8. Shaped'
    <3>1. \A l \in LSet : lst[l].cc \in Nat /\ lst[l].sc \in Nat /\ lst[l].cc <= n /\ lst[l].sc <= n
      BY DEF IInv, Shaped, Servers
    <3>2. \A l \in LSet : lst'[l].cc <= Len(creds') /\ lst'[l].sc <= Len(creds')
      BY <2>1, <2>2, <2>3, <3>1
    <3>3. \A x \in 0 .. n : x \in 0 .. Len(creds') BY <2>2, <2>3
    <3>4. cc' \in 0 .. Len(creds') /\ sc' \in 0 .. Len(creds') BY <2>1, <3>3 DEF IInv, Shaped
    <3>5. /\ old' \in [cert : CertValues, cc : 0 .. Len(creds'), sc : 0 .. Len(creds')]
          /\ http' \in [cert : CertValues, cc : 0 .. Len(creds'), sc : 0 .. Len(creds')]
      BY <2>1, <3>3 DEF IInv, Shaped
    <3> QED BY <2>1, <2>3, <3>2, <3>4, <3>5 DEF IInv, Shaped
  <2> QED BY <2>6, <2>7, <2>8 DEF IInv
<1>6. CASE PollSame \/ PollGone \/ Announce
  BY <1>6, <1>t, ListenersOnly DEF PollSame, PollGone, Announce
<1>7. CASE LoadStarts \/ SwapStop \/ SwapStart \/ DropStop \/ HaltStop
  BY <1>7, <1>t, ListenersOnly DEF LoadStarts, StartOne, SwapStop, SwapStart, DropStop, HaltStop, StopOne
<1>8. CASE Retry
  BY <1>8, <1>t, ListenersOnly DEF Retry, StartOne
<1>9. CASE FreeOld
  <2>1. old.cc \in 0 .. Len(creds) /\ old.sc \in 0 .. Len(creds) BY DEF IInv, Shaped
  <2> QED BY <1>9, <2>1, Freed DEF FreeOld
<1>10. CASE Standby
  <2>1. cc \in 0 .. Len(creds) /\ sc \in 0 .. Len(creds) BY DEF IInv, Shaped
  <2> QED BY <1>10, <2>1, Freed DEF Standby, HttpUpdate
<1>11. CASE Halted
  <2>1. cc \in 0 .. Len(creds) /\ sc \in 0 .. Len(creds) BY DEF IInv, Shaped
  <2> QED BY <1>11, <2>1, Freed DEF Halted
<1>12. ASSUME NEW l \in LSet, ListenerExits(l) PROVE IInv'
  <2> DEFINE r == [lst[l] EXCEPT !.live = @ - 1]
  <2>1. lst' = [lst EXCEPT ![l] = r] /\ lst[l].live > 0 /\ UNCHANGED <<creds, cert, cc, sc, old, http, wk, machine, user>>
    BY <1>12 DEF ListenerExits
  <2>2. r \in Servers /\ r.cc = lst[l].cc /\ r.sc = lst[l].sc
    <3>1. lst[l] \in Servers /\ lst[l].live - 1 \in Nat BY <2>1, SMTT(40) DEF IInv, Shaped, Servers
    <3> QED BY <3>1 DEF Servers
  <2> HIDE DEF r
  <2>3. Shaped' BY <2>1, <2>2 DEF IInv, Shaped
  <2>4. Leased' /\ Accounted(creds, wk)' BY <2>1, ListReplaced, ListSame DEF IInv
  <2>5. Named' BY <2>1, NamesKept, ListSame
  <2> QED BY <2>3, <2>4, <2>5 DEF IInv
<1>13. ASSUME NEW wr \in Workers, WorkerStep(wr) PROVE IInv'
  <2>wr. /\ IdleWorker \in WorkerStates /\ ~InSession(IdleWorker) /\ IdleWorker.kind = "none"
         /\ IdleWorker.tok = 0 /\ Len(creds) \in Nat
         /\ wk \in [Workers -> WorkerStates] /\ wk[wr] \in WorkerStates /\ wk[wr].tok <= Len(creds)
         /\ wk[wr].kind = "http" =>
               wk[wr].tok # 0 /\ (creds[wk[wr].tok] # NoCred => wk[wr].sn = Sn(creds[wk[wr].tok].cert))
    BY WorkerTyped
  <2>i. ASSUME ~InSession(wk[wr]), wk' = [wk EXCEPT ![wr] = IdleWorker],
               UNCHANGED <<machine, user, cert, cc, sc, old, http, lst, creds>>
        PROVE  IInv'
    <3>1. IdleWorker.tok <= Len(creds) BY <2>wr
    <3> QED BY <2>wr, <2>i, <3>1, WorkerMoves
  <2>p. ASSUME NEW p \in {"open", "connecting", "serving", "armed"}, NEW n \in Nat,
               InSession(wk[wr]) <=> p # "open",
               wk' = [wk EXCEPT ![wr] = [wk[wr] EXCEPT !.pc = p, !.late = n]],
               UNCHANGED <<machine, user, cert, cc, sc, old, http, lst, creds>>
        PROVE  IInv'
    <3> DEFINE r == [wk[wr] EXCEPT !.pc = p, !.late = n]
    <3>1. r \in WorkerStates BY <2>wr DEF WorkerStates
    <3>2. r.tok = wk[wr].tok /\ r.lease = wk[wr].lease /\ r.kind = wk[wr].kind /\ r.sn = wk[wr].sn /\ r.pc = p
      BY <2>wr DEF WorkerStates
    <3>3. wk' = [wk EXCEPT ![wr] = r] BY <2>p
    <3> HIDE DEF r
    <3>4. InSession(r) <=> InSession(wk[wr]) BY <2>p, <3>2 DEF InSession
    <3>5. r.kind = "http" => r.tok # 0 /\ (creds[r.tok] # NoCred => r.sn = Sn(creds[r.tok].cert))
      BY <2>wr, <3>2
    <3>6. r.tok <= Len(creds) /\ (InSession(r) => r.lease = wk[wr].lease /\ r.tok = wk[wr].tok)
      BY <2>wr, <3>2
    <3>7. UNCHANGED <<machine, user, cert, cc, sc, old, http, lst>> /\ creds' = creds BY <2>p
    <3> QED BY <3>1, <3>3, <3>4, <3>5, <3>6, <3>7, WorkerMoves
  <2>l. wk[wr].late \in Nat /\ wk[wr] = [wk[wr] EXCEPT !.late = wk[wr].late] BY <2>wr DEF WorkerStates
  <2>1. CASE HttpAccept(wr)
    <3> DEFINE r == [IdleWorker EXCEPT !.kind = "http", !.pc = "open", !.tok = http.cc,
                                       !.sn = Sn(http.cert)]
    <3>1. /\ wk[wr].pc = "idle" /\ http.cc # 0 /\ wk' = [wk EXCEPT ![wr] = r]
          /\ UNCHANGED <<machine, user, cert, cc, sc, old, http, lst, creds>>
      BY <2>1 DEF HttpAccept, SetWorker
    <3>2. /\ http.cc \in 0 .. Len(creds) /\ http.cert \in CertValues
          /\ creds[http.cc] # NoCred => http.cert = creds[http.cc].cert
      BY <3>1 DEF IInv, Shaped, Named
    <3>3. Sn(http.cert) \in SnValues /\ http.cc \in Nat /\ http.cc <= Len(creds) BY <2>wr, <3>2 DEF SnValues
    <3>4. r \in WorkerStates BY <2>wr, <3>3 DEF WorkerStates
    <3>5. r.kind = "http" /\ r.pc = "open" /\ r.tok = http.cc /\ r.sn = Sn(http.cert)
      BY <2>wr DEF WorkerStates
    <3> HIDE DEF r
    <3>6. ~InSession(r) /\ ~InSession(wk[wr]) BY <3>1, <3>5 DEF InSession
    <3>7. r.tok # 0 /\ r.tok <= Len(creds) /\ (creds[r.tok] # NoCred => r.sn = Sn(creds[r.tok].cert))
      BY <3>1, <3>2, <3>3, <3>5
    <3> QED BY <3>1, <3>4, <3>6, <3>7, WorkerMoves
  <2>2. CASE MqttAccept(wr) \/ StreamAccept(wr) \/ ReverseAccept(wr)
    <3>1. PICK l \in LSet : Accept(l, wr)
      BY <2>2 DEF MqttAccept, StreamAccept, ReverseAccept, LSet
    <3>2. /\ wk[wr].pc = "idle" /\ UNCHANGED <<machine, user, cert, cc, sc, old, http, lst, creds>>
          /\ wk' = [wk EXCEPT ![wr] = [IdleWorker EXCEPT !.kind = l, !.pc = "spawned", !.gen = lst[l].gen,
                        !.tok = IF l = "reverse" THEN lst[l].sc ELSE lst[l].cc, !.sn = Sn(cert)]]
      BY <3>1 DEF Accept, SetWorker
    <3>3. /\ lst[l].gen \in Nat /\ cert \in CertValues
          /\ (IF l = "reverse" THEN lst[l].sc ELSE lst[l].cc) \in 0 .. Len(creds)
      <4>1. lst[l] \in Servers /\ lst[l].cc <= Len(creds) /\ lst[l].sc <= Len(creds) /\ cert \in CertValues
        BY DEF IInv, Shaped
      <4>2. lst[l].gen \in Nat /\ lst[l].cc \in Nat /\ lst[l].sc \in Nat BY <4>1 DEF Servers
      <4>3. lst[l].cc \in 0 .. Len(creds) /\ lst[l].sc \in 0 .. Len(creds) BY <2>wr, <4>1, <4>2
      <4> QED BY <4>1, <4>2, <4>3
    <3> QED BY <3>2, <3>3, Accepted
  <2>3. CASE Begin(wr)
    <3>1. /\ wk[wr].pc = "spawned" /\ UNCHANGED <<machine, user, cert, cc, sc, old, http, lst, creds>>
          /\ \/ wk' = [wk EXCEPT ![wr] = [wk[wr] EXCEPT !.pc = "open"]]
             \/ wk' = [wk EXCEPT ![wr] = IdleWorker]
      BY <2>3 DEF Begin, SetWorker
    <3>2. ~InSession(wk[wr]) BY <3>1 DEF InSession
    <3>3. CASE wk' = [wk EXCEPT ![wr] = [wk[wr] EXCEPT !.pc = "open"]]
      <4>1. [wk[wr] EXCEPT !.pc = "open"] = [wk[wr] EXCEPT !.pc = "open", !.late = wk[wr].late]
        BY <2>wr DEF WorkerStates
      <4> QED BY <2>l, <2>p, <3>1, <3>2, <3>3, <4>1
    <3> QED BY <2>i, <3>1, <3>2, <3>3
  <2>4. CASE BorrowLease(wr)
    BY <2>4, Borrowed
  <2>5. CASE BorrowRefused(wr)
    <3>1. ~InSession(wk[wr]) BY <2>5 DEF BorrowRefused, InSession
    <3> QED BY <2>5, <2>i, <3>1 DEF BorrowRefused, SetWorker
  <2>6. CASE Handshake(wr)
    <3>1. PICK p \in {"serving", "armed"} : wk' = [wk EXCEPT ![wr] = [wk[wr] EXCEPT !.pc = p]]
      BY <2>6 DEF Handshake, SetWorker
    <3>2. [wk[wr] EXCEPT !.pc = p] = [wk[wr] EXCEPT !.pc = p, !.late = wk[wr].late]
      BY <2>wr DEF WorkerStates
    <3>3. InSession(wk[wr]) BY <2>6 DEF Handshake, InSession
    <3> QED BY <2>6, <2>l, <2>p, <3>1, <3>2, <3>3 DEF Handshake
  <2>7. CASE LoopHead(wr)
    <3>1. InSession(wk[wr]) BY <2>7 DEF LoopHead, InSession
    <3>2. CASE Fenced(wr)
      BY <2>7, <3>1, <3>2, Closed DEF LoopHead
    <3>3. CASE ~Fenced(wr)
      <4>1. [wk[wr] EXCEPT !.pc = "armed"] = [wk[wr] EXCEPT !.pc = "armed", !.late = wk[wr].late]
        BY <2>wr DEF WorkerStates
      <4> QED BY <2>7, <2>l, <2>p, <3>1, <3>3, <4>1 DEF LoopHead, SetWorker
    <3> QED BY <3>2, <3>3
  <2>8. CASE MqttRound(wr) \/ StreamRound(wr)
    <3>1. InSession(wk[wr]) BY <2>8 DEF MqttRound, StreamRound, InSession
    <3>2. PICK n \in Nat : wk' = [wk EXCEPT ![wr] = [wk[wr] EXCEPT !.pc = "serving", !.late = n]]
      <4> DEFINE m == IF Stale(wr) THEN wk[wr].late + 1 ELSE wk[wr].late
      <4>1. m \in Nat BY <2>l
      <4>2. wk' = [wk EXCEPT ![wr] = [wk[wr] EXCEPT !.pc = "serving", !.late = m]]
        BY <2>8, <2>wr DEF MqttRound, StreamRound, SetWorker, WorkerStates
      <4> QED BY <4>1, <4>2
    <3> QED BY <2>8, <2>p, <3>1, <3>2 DEF MqttRound, StreamRound
  <2>9. CASE PeerCloses(wr)
    BY <2>9, Closed DEF PeerCloses, InSession
  <2> QED BY <1>13, <2>1, <2>2, <2>3, <2>4, <2>5, <2>6, <2>7, <2>8, <2>9 DEF WorkerStep
<1>14. CASE UNCHANGED vars
  BY <1>14, <1>t, ListenersOnly DEF vars
<1> QED
  BY <1>1, <1>2, <1>3, <1>4, <1>5, <1>6, <1>7, <1>8, <1>9, <1>10, <1>11, <1>12, <1>13, <1>14
  DEF Next, ServicePass

\* A session's credential is listed, with a reference for it, as long as the
\* session lives: no swap, drop or stop frees a handle under a connection.
THEOREM SessionsKeepCredentials == Spec => []NoDanglingLease
<1>1. IInv => NoDanglingLease
  <2> SUFFICES ASSUME IInv, NEW wr \in Workers, Busy(wr)
               PROVE  /\ creds[wk[wr].lease] # NoCred
                      /\ creds[wk[wr].lease].refs >=
                           Cardinality({v \in Workers : Busy(v) /\ wk[v].lease = wk[wr].lease})
    BY DEF NoDanglingLease
  <2> DEFINE t == wk[wr].lease
  <2>1. {v \in Workers : Busy(v) /\ wk[v].lease = t} = HoldersOf(wk, t)
    BY DEF HoldersOf, Busy, InSession
  <2>2. t \in 1 .. Len(creds)
    BY DEF IInv, Shaped, Leased, WorkerStates, Busy, InSession
  <2>3. Cardinality(HoldersOf(wk, t)) \in Nat /\ Cardinality(HoldersOf(wk, t)) # 0
    <3>1. wr \in HoldersOf(wk, t) BY DEF HoldersOf, Busy, InSession
    <3> QED BY <3>1, HoldersFinite, FS_EmptySet
  <2> HIDE DEF t
  <2>4. creds[t] # NoCred /\ creds[t].refs >= Cardinality(HoldersOf(wk, t))
    BY <2>2, <2>3 DEF IInv, Accounted
  <2> QED BY <2>1, <2>4 DEF t
<1> QED BY <1>1, InitIInv, StepIInv, PTL DEF Spec

\* The SN a request carries is that of the certificate of its TLS session,
\* also when the certificate was swapped between the two.
THEOREM HeadersMatch == Spec => []HeaderMatchesCert
<1>1. IInv => HeaderMatchesCert
  <2> SUFFICES ASSUME IInv, NEW wr \in Workers, wk[wr].kind = "http", Busy(wr)
               PROVE  wk[wr].sn = Sn(creds[wk[wr].lease].cert)
    BY DEF HeaderMatchesCert
  <2> DEFINE t == wk[wr].lease
  <2>1. t \in 1 .. Len(creds) /\ t = wk[wr].tok
    BY DEF IInv, Shaped, Leased, WorkerStates, Busy, InSession
  <2>2. Cardinality(HoldersOf(wk, t)) # 0
    <3>1. wr \in HoldersOf(wk, t) BY DEF HoldersOf, Busy, InSession
    <3> QED BY <3>1, HoldersFinite, FS_EmptySet
  <2>3. creds[t] # NoCred BY <2>1, <2>2 DEF IInv, Accounted
  <2> QED BY <2>1, <2>3 DEF IInv, Named
<1> QED BY <1>1, InitIInv, StepIInv, PTL DEF Spec

\* The reference counts are exact: an entry counts its owner until it is
\* retired and the sessions that leased it, and an entry of nobody is gone, so
\* a credential is neither freed early nor kept for ever.
THEOREM CountsExact == Spec => []Accounted(creds, wk)
<1>1. IInv => Accounted(creds, wk) BY DEF IInv
<1> QED BY <1>1, InitIInv, StepIInv, PTL DEF Spec

-----------------------------------------------------------------------------

-----------------------------------------------------------------------------
(* The policy.                                                             *)

\* While the process is away nothing is denied and nothing is connected.
PolicyIInv ==
    /\ power \in {"off", "on", "storageless"}
    /\ media \in BOOLEAN /\ stopping \in BOOLEAN
    /\ sock \in [Clients -> {"closed", "open", "shut"}]
    /\ power = "off" => \A x \in Clients : sock[x] = "closed"
    /\ DeniedClosed

\* Nothing runs at first.
LEMMA PolicyFirst == PolicyInitial => PolicyIInv
<1> SUFFICES ASSUME PolicyInitial PROVE PolicyIInv
  OBVIOUS
<1>1. media \in BOOLEAN /\ stopping \in BOOLEAN /\ power = "off" BY DEF PolicyInitial, Fresh
<1>2. sock = [c \in Clients |-> "closed"] BY DEF PolicyInitial
<1> QED BY <1>1, <1>2 DEF PolicyIInv, DeniedClosed

\* Steps that leave the decision, the process and the connections alone.
LEMMA PolicySame ==
    ASSUME PolicyIInv, UNCHANGED <<power, media, stopping, sock>> PROVE PolicyIInv'
  BY DEF PolicyIInv, DeniedClosed

\* set_media_locked: a new decision and the connections change together.
LEMMA SetMediaSafe ==
    ASSUME PolicyIInv, power = "on", UNCHANGED <<power, stopping>>,
           NEW a, NEW c, SetMedia(a, c)
    PROVE  PolicyIInv'
<1>1. media' \in BOOLEAN BY DEF SetMedia
<1>2. CASE media /\ ~media'
  <2>1. sock' = [x \in Clients |-> IF sock[x] = "open" THEN "shut" ELSE sock[x]]
    BY <1>2 DEF SetMedia
  <2>2. \A x \in Clients : sock'[x] # "open" BY <2>1
  <2>3. sock' \in [Clients -> {"closed", "open", "shut"}] BY <2>1 DEF PolicyIInv
  <2> QED BY <1>1, <2>2, <2>3 DEF PolicyIInv, DeniedClosed
<1>3. CASE ~(media /\ ~media')
  <2>1. sock' = sock BY <1>3 DEF SetMedia
  <2> QED BY <1>1, <1>3, <2>1 DEF PolicyIInv, DeniedClosed
<1> QED BY <1>2, <1>3

\* Every step of the worker keeps it.
LEMMA WorkerPolicy == ASSUME PolicyIInv, Worker PROVE PolicyIInv'
<1> USE DEF memory, storage, route, outside, clock, local
<1>1. CASE Snapshot
  BY <1>1, SetMediaSafe DEF Snapshot, Refresh, ExpireNow, Expire, Running
<1>2. CASE StoreReg BY <1>2, PolicySame DEF StoreReg
<1>3. CASE StoreFile BY <1>3, PolicySame DEF StoreFile
<1>4. CASE Stored BY <1>4, PolicySame DEF Stored
<1>5. CASE Fetch BY <1>5, PolicySame DEF Fetch
<1>6. CASE Apply
  <2>0. power = "on" /\ UNCHANGED <<power, stopping>> BY <1>6 DEF Apply, Running
  <2>1. CASE UNCHANGED <<media, sock>> BY <2>0, <2>1, PolicySame
  <2>2. CASE SetMedia(w.answer # "deny", certificate) BY <2>0, <2>2, SetMediaSafe
  <2> QED BY <1>6, <2>1, <2>2 DEF Apply
<1>7. CASE EndpointsAccept BY <1>7, PolicySame DEF EndpointsAccept
<1>8. CASE WorkerExit BY <1>8, PolicySame DEF WorkerExit
<1> QED BY <1>1, <1>2, <1>3, <1>4, <1>5, <1>6, <1>7, <1>8 DEF Worker

\* Every step keeps it.
LEMMA PolicyStep == ASSUME PolicyIInv, [PolicyNext]_policyVars PROVE PolicyIInv'
<1> USE DEF memory, storage, route, outside, clock, local
<1>1. CASE PolicyInit
  <2>1. power' \in {"on", "storageless"} /\ sock' = sock /\ stopping' = stopping BY <1>1 DEF PolicyInit
  <2>2. media' \in BOOLEAN BY <1>1 DEF PolicyInit, PolicyIInv
  <2>3. \A x \in Clients : sock[x] = "closed" BY <1>1 DEF PolicyInit, PolicyIInv
  <2> QED BY <2>1, <2>2, <2>3 DEF PolicyIInv, DeniedClosed
<1>2. CASE IdentityPolicy
  BY <1>2, SetMediaSafe DEF IdentityPolicy, Expire, Running
<1>3. CASE Look BY <1>3, SetMediaSafe DEF Look, ExpireNow, Expire, Running
<1>4. CASE Worker BY <1>4, WorkerPolicy
<1>5. CASE PolicyStop
  <2>1. sock' = [x \in Clients |-> IF sock[x] = "open" THEN "shut" ELSE sock[x]]
    BY <1>5 DEF PolicyStop
  <2>2. stopping' \in BOOLEAN /\ power = "on" /\ UNCHANGED <<power, media>>
    BY <1>5 DEF PolicyStop, Running
  <2>3. \A x \in Clients : sock'[x] # "open" BY <2>1
  <2>4. sock' \in [Clients -> {"closed", "open", "shut"}] BY <2>1 DEF PolicyIInv
  <2> QED BY <2>2, <2>3, <2>4 DEF PolicyIInv, DeniedClosed
<1>6. CASE StopSave \/ Crash
  <2>1. sock' = [c \in Clients |-> "closed"] /\ power' = "off" BY <1>6 DEF StopSave, Crash, Gone
  <2>2. media' \in BOOLEAN /\ stopping' \in BOOLEAN BY <1>6 DEF StopSave, Crash, Gone
  <2> QED BY <2>1, <2>2 DEF PolicyIInv, DeniedClosed
<1>7. CASE Tick \/ ClockSet BY <1>7, PolicySame DEF Tick, ClockSet
<1>8. CASE ServerChanges BY <1>8, PolicySame DEF ServerChanges
<1>9. ASSUME NEW c \in PolicyCerts \cup {NoIdentity}, IdentityRoutes(c) PROVE PolicyIInv'
  BY <1>9, PolicySame DEF IdentityRoutes
<1>10. ASSUME NEW x \in Clients, MediaConnect(x) PROVE PolicyIInv'
  <2>1. media' \in BOOLEAN BY <1>10 DEF MediaConnect
  <2>2. media' /\ ~stopping /\ power = "on" /\ UNCHANGED <<power, stopping>>
    BY <1>10 DEF MediaConnect, Admitted, Running
  <2>3. sock' \in [Clients -> {"closed", "open", "shut"}] BY <1>10 DEF MediaConnect, PolicyIInv
  <2> QED BY <2>1, <2>2, <2>3 DEF PolicyIInv, DeniedClosed
<1>11. ASSUME NEW x \in Clients, Unregister(x) PROVE PolicyIInv'
  <2>1. sock' = [sock EXCEPT ![x] = "closed"] /\ UNCHANGED <<power, media, stopping>>
    BY <1>11 DEF Unregister
  <2> QED BY <2>1 DEF PolicyIInv, DeniedClosed
<1>12. CASE UNCHANGED policyVars BY <1>12, PolicySame DEF policyVars
<1> QED BY <1>1, <1>2, <1>3, <1>4, <1>5, <1>6, <1>7, <1>8, <1>9, <1>10, <1>11, <1>12
        DEF PolicyNext

\* No registered connection is left running while the decision is a denial or the
\* proxy stops, for every set of certificates and clients and every clock.
THEOREM DeniedClosedSafe == PolicySpec => []DeniedClosed
<1>1. PolicyIInv /\ [PolicyNext]_policyVars => PolicyIInv' BY PolicyStep
<1>2. PolicyIInv => DeniedClosed BY DEF PolicyIInv
<1> QED BY <1>1, <1>2, PolicyFirst, PTL DEF PolicySpec

-----------------------------------------------------------------------------
(* The RTP tunnel.                                                         *)

\* What the upstream has received is what the place of the worker says.
TunnelIInv ==
    /\ state \in {"off", "idle", "connecting", "greeted", "streaming", "backoff", "ended"}
    /\ state = "connecting" => remote \in {"none", "open"}
    /\ state = "greeted" => remote = "preamble"
    /\ state = "streaming" => remote = "media"
    /\ state \in {"off", "idle", "backoff", "ended"} => remote = "none"
    /\ tunnelActive = IF remote \in {"preamble", "media"} THEN 1 ELSE 0

\* Every step of the worker and of the world keeps it.
LEMMA TunnelStep == ASSUME TunnelIInv, [TunnelNext]_tunnelVars PROVE TunnelIInv'
<1> USE DEF TunnelIInv, tunnelWorld, Failure
<1>1. CASE TunnelWorker
  <2>1. CASE End BY <2>1 DEF End
  <2>2. CASE Denied BY <2>2 DEF Denied
  <2>3. CASE TunnelIdle BY <2>3 DEF TunnelIdle
  <2>4. CASE Connect BY <2>4 DEF Connect
  <2>5. CASE SendPreamble(TRUE) BY <2>5 DEF SendPreamble, Preamble
  <2>6. CASE SendFirst(TRUE) BY <2>6 DEF SendFirst
  <2>7. CASE Relay(TRUE) BY <2>7 DEF Relay
  <2>8. CASE IdleCloses BY <2>8 DEF IdleCloses
  <2>9. CASE Round BY <2>9 DEF Round
  <2>10. CASE Served BY <2>10 DEF Served
  <2>11. CASE BackoffSlice BY <2>11 DEF BackoffSlice
  <2>12. CASE BackoffEnds BY <2>12 DEF BackoffEnds
  <2> QED BY <1>1, <2>1, <2>2, <2>3, <2>4, <2>5, <2>6, <2>7, <2>8, <2>9, <2>10, <2>11, <2>12
          DEF TunnelWorker
<1>2. CASE Trouble
  <2>1. CASE ConnectFails BY <2>1 DEF ConnectFails
  <2>2. CASE SendPreamble(FALSE) BY <2>2 DEF SendPreamble
  <2>3. CASE SendFirst(FALSE) BY <2>3 DEF SendFirst
  <2>4. CASE Relay(FALSE) BY <2>4 DEF Relay
  <2> QED BY <1>2, <2>1, <2>2, <2>3, <2>4 DEF Trouble
<1>3. CASE \E a, b \in BOOLEAN : TunnelStart(a, b) BY <1>3 DEF TunnelStart
<1>4. CASE TunnelStop BY <1>4 DEF TunnelStop
<1>5. CASE \E m \in Kinds : Arrive(m) BY <1>5 DEF Arrive
<1>6. CASE Pass BY <1>6 DEF Pass
<1>7. CASE UpstreamFlips \/ PolicyFlips BY <1>7 DEF UpstreamFlips, PolicyFlips
<1>8. CASE UNCHANGED tunnelVars BY <1>8 DEF tunnelVars
<1> QED BY <1>1, <1>2, <1>3, <1>4, <1>5, <1>6, <1>7, <1>8 DEF TunnelNext

\* Whatever fails, is denied or stopped between them, the preamble goes before the
\* first frame of every connection, for every pause, buffer and timeout.
THEOREM PreambleSafe == TunnelSpec => []PreambleFirst
<1>1. TunnelInit => TunnelIInv BY DEF TunnelInit, TunnelIInv
<1>2. TunnelIInv /\ [TunnelNext]_tunnelVars => TunnelIInv' BY TunnelStep
<1>3. TunnelIInv => PreambleFirst BY DEF TunnelIInv, PreambleFirst
<1> QED BY <1>1, <1>2, <1>3, PTL DEF TunnelSpec

-----------------------------------------------------------------------------
(***************************************************************************)
(* A request the listener can see the end of reaches the backend whole,    *)
(* and each kind of CONNECT tunnel is open once at most, for every set of  *)
(* connections and requests, every size of header and buffer and every     *)
(* bound.                                                                  *)
(*                                                                         *)
(* A worker has read no more than arrived, and past the read loop it has   *)
(* the whole of such a request (Fed).  A slot is taken exactly when one    *)
(* worker is between TakeSlot and Hangup (Slotted).                        *)
(***************************************************************************)

RequestPlaces == {"idle", "begin", "reading", "info", "sn", "connect", "forward", "response", "slot",
                  "dial", "tunnel", "relay", "send", "hangup", "done"}
Tunnelling == {"dial", "tunnel", "relay", "send", "hangup"}

\* What the argument needs of a worker's types
IsRequestWorker(r) ==
  r \in [pc : RequestPlaces, req : Requests \cup {NoRequest}, snap : {r.snap}, ok : {r.ok}, arrived : Nat,
         got : Nat, quit : BOOLEAN, sent : Nat, ans : {r.ans}, sn : {r.sn}, chunks : {r.chunks},
         late : {r.late}, left : {r.left}, seen : {r.seen}]

\* The requests the read loop waits for to the end
Whole(r) == r.req.spelled /\ Pieces(r.req) <= Cap /\ ~r.quit

Fed(r) ==
  /\ r.got <= r.arrived /\ r.arrived <= Pieces(r.req)
  /\ r.pc \in {"connect", "forward"} /\ Whole(r) => r.got = Pieces(r.req)
  /\ r.pc = "response" /\ Whole(r) => r.sent = Pieces(r.req)

Sound(r) == IsRequestWorker(r) /\ Fed(r)

KindOf(r) == IF r.req.path = "registry" THEN "registry" ELSE "storage"
Holders(f, s) == {x \in HttpWorkers : f[x].pc \in Tunnelling /\ KindOf(f[x]) = s}

\* A slot is free and nobody holds it, or taken and one worker does
Slotted(f, g) ==
  \A s \in Slots : \/ g[s] = 0 /\ Holders(f, s) = {}
                   \/ g[s] = 1 /\ \E x \in HttpWorkers : Holders(f, s) = {x}

HttpInv ==
  /\ DOMAIN worker = HttpWorkers /\ worker = [x \in HttpWorkers |-> worker[x]]
  /\ slot \in [Slots -> {0, 1}]
  /\ \A x \in HttpWorkers : Sound(worker[x])
  /\ Slotted(worker, slot)

\* The pieces of a request are a number
LEMMA PiecesCounted ==
    ASSUME NEW q \in Requests \cup {NoRequest}
    PROVE  Pieces(q) \in Nat
<1>1. NoRequest.body = 0 BY DEF NoRequest
<1>2. q.body \in Nat BY <1>1, HttpAssumption
<1> QED BY <1>2, HttpAssumption DEF Pieces

\* A step of one worker that neither opens nor closes a tunnel
LEMMA OneMoves ==
    ASSUME HttpInv, NEW x \in HttpWorkers, NEW new, Step(x, new), Sound(new),
           new.pc \in Tunnelling <=> worker[x].pc \in Tunnelling,
           new.pc \in Tunnelling => new.req = worker[x].req
    PROVE  HttpInv'
<1>1. worker' = [worker EXCEPT ![x] = new] /\ slot' = slot
  BY DEF Step
<1>2. \A y \in HttpWorkers : worker'[y] = IF y = x THEN new ELSE worker[y]
  BY <1>1 DEF HttpInv
<1>3. DOMAIN worker' = HttpWorkers /\ worker' = [y \in HttpWorkers |-> worker'[y]]
  BY <1>1 DEF HttpInv
<1>4. \A y \in HttpWorkers : Sound(worker'[y])
  BY <1>2 DEF HttpInv
<1>5. \A s : Holders(worker', s) = Holders(worker, s)
  BY <1>2 DEF Holders, KindOf
<1>6. Slotted(worker', slot')
  BY <1>1, <1>5 DEF HttpInv, Slotted
<1> QED BY <1>1, <1>3, <1>4, <1>6 DEF HttpInv

\* A step that touches of the workers only what the argument does not use
LEMMA NoneMoves ==
    ASSUME HttpInv, slot' = slot, DOMAIN worker' = HttpWorkers,
           worker' = [y \in HttpWorkers |-> worker'[y]],
           \A y \in HttpWorkers : Sound(worker'[y]) /\ worker'[y].pc = worker[y].pc /\ worker'[y].req = worker[y].req
    PROVE  HttpInv'
<1>1. \A s : Holders(worker', s) = Holders(worker, s)
  BY DEF Holders, KindOf
<1>2. Slotted(worker', slot')
  BY <1>1 DEF HttpInv, Slotted
<1> QED BY <1>2 DEF HttpInv

\* News of the certificate are noted with the requests under way
LEMMA SeeingMoves ==
    ASSUME HttpInv, NEW c, NEW b, worker' = Seeing(worker, c, b), slot' = slot
    PROVE  HttpInv'
<1>1. worker' = [y \in HttpWorkers |-> worker'[y]] /\ DOMAIN worker' = HttpWorkers
  BY DEF Seeing
<1>2. ASSUME NEW y \in HttpWorkers
      PROVE  Sound(worker'[y]) /\ worker'[y].pc = worker[y].pc /\ worker'[y].req = worker[y].req
  <2>1. PICK r : r = worker[y] OBVIOUS
  <2>2. IsRequestWorker(r) /\ Fed(r) BY <2>1 DEF HttpInv, Sound
  <2>3. CASE worker'[y] = r
    BY <2>1, <2>2, <2>3 DEF Sound
  <2>4. CASE worker'[y] = [r EXCEPT !.seen = @ \cup {<<c, b>>}]
    <3>1. PICK n : n = worker'[y] OBVIOUS
    <3>2. n = [r EXCEPT !.seen = r.seen \cup {<<c, b>>}] BY <2>4, <3>1, <2>2 DEF IsRequestWorker
    <3>3. IsRequestWorker(n) /\ n.pc = r.pc /\ n.req = r.req /\ n.got = r.got /\ n.arrived = r.arrived
          /\ n.quit = r.quit /\ n.sent = r.sent
      BY <3>2, <2>2 DEF IsRequestWorker
    <3> QED BY <3>1, <3>3, <2>1, <2>2 DEF Sound, Fed, Whole
  <2> QED BY <2>1, <2>3, <2>4 DEF Seeing
<1> QED BY <1>1, <1>2, NoneMoves

\* A change of fields the argument does not use, away from the places it speaks of
LEMMA Elsewhere ==
    ASSUME HttpInv, NEW x \in HttpWorkers, NEW new, Step(x, new), IsRequestWorker(new),
           new.req = worker[x].req, new.got = worker[x].got, new.arrived = worker[x].arrived,
           new.pc \in Tunnelling <=> worker[x].pc \in Tunnelling,
           new.pc \notin {"connect", "forward", "response"}
    PROVE  HttpInv'
<1>1. Fed(new)
  BY DEF HttpInv, Sound, Fed
<1> QED BY <1>1, OneMoves DEF Sound

LEMMA RequestStepKeeps ==
    ASSUME HttpInv, NEW x \in HttpWorkers, RequestStep(x) \/ TunnelEnds(x) \/ Client(x)
    PROVE  HttpInv'
<1> PICK r : r = worker[x] OBVIOUS
<1>0. IsRequestWorker(r) /\ Fed(r)
  BY DEF HttpInv, Sound
<1>a. Pieces(r.req) \in Nat /\ Header \in Nat /\ Cap \in Nat
  BY <1>0, PiecesCounted, HttpAssumption DEF IsRequestWorker
<1> DEFINE Answered(a) == [r EXCEPT !.pc = "done", !.ans = a]
<1>b. \A a : IsRequestWorker(Answered(a)) /\ Answered(a).req = r.req /\ Answered(a).got = r.got
             /\ Answered(a).arrived = r.arrived /\ Answered(a).pc = "done"
  BY <1>0, ZenonT(60) DEF IsRequestWorker, RequestPlaces
<1>c. \A a : Answer(x, a) = Answered(a)
  BY DEF Answer
<1>d. ASSUME NEW a, Step(x, Answer(x, a)), r.pc \notin Tunnelling PROVE HttpInv'
  <2>1. PICK n : n = Answered(a) OBVIOUS
  <2>2. Step(x, n) BY <1>d, <1>c, <2>1
  <2>3. IsRequestWorker(n) /\ n.req = worker[x].req /\ n.got = worker[x].got /\ n.arrived = worker[x].arrived
        /\ n.pc = "done"
    BY <1>b, <2>1
  <2> QED BY <1>d, <2>2, <2>3, Elsewhere DEF Tunnelling
<1> HIDE DEF Answered
<1>1. CASE HttpBegin(x)
  <2>1. PICK n : n = [r EXCEPT !.pc = "reading", !.snap = inForce, !.ok = inForce # 0 /\ certReady] OBVIOUS
  <2>2. Step(x, n) /\ r.pc = "begin" BY <1>1, <2>1 DEF HttpBegin
  <2>3. IsRequestWorker(n) /\ n.req = r.req /\ n.got = r.got /\ n.arrived = r.arrived /\ n.pc = "reading"
    BY <1>0, <2>1, ZenonT(60) DEF IsRequestWorker, RequestPlaces
  <2> QED BY <2>2, <2>3, Elsewhere DEF Tunnelling
<1>2. CASE Read(x)
  <2>1. PICK n : n = [r EXCEPT !.got = Taken(r.arrived)] OBVIOUS
  <2>2. Step(x, n) /\ r.pc = "reading" BY <1>2, <2>1 DEF Read
  <2>3. Taken(r.arrived) \in Nat /\ Taken(r.arrived) <= r.arrived
    BY <1>0, <1>a DEF IsRequestWorker, Taken
  <2>4. IsRequestWorker(n) /\ n.req = r.req /\ n.got = Taken(r.arrived) /\ n.arrived = r.arrived
        /\ n.pc = "reading"
    BY <1>0, <2>1, <2>2, <2>3 DEF IsRequestWorker, RequestPlaces
  <2>5. Fed(n)
    BY <1>0, <2>2, <2>3, <2>4 DEF Fed
  <2> QED BY <2>2, <2>4, <2>5, OneMoves DEF Sound, Tunnelling
<1>3. CASE ReadFails(x)
  BY <1>3, <1>d DEF ReadFails, Answer, Tunnelling
<1>4. CASE Dispatch(x)
  <2>1. r.pc = "reading" /\ (r.got >= Wanted(r.req) \/ r.quit)
    BY <1>4 DEF Dispatch, ReadDone
  <2>2. ASSUME NEW to \in {"slot", "info", "sn"}, Step(x, [r EXCEPT !.pc = to]) PROVE HttpInv'
    <3>1. PICK n : n = [r EXCEPT !.pc = to] OBVIOUS
    <3>2. IsRequestWorker(n) /\ n.req = r.req /\ n.got = r.got /\ n.arrived = r.arrived /\ n.pc = to
      BY <1>0, <3>1 DEF IsRequestWorker, RequestPlaces
    <3> QED BY <2>1, <2>2, <3>1, <3>2, Elsewhere DEF Tunnelling
  <2>3. ASSUME Step(x, [r EXCEPT !.pc = "connect"]) PROVE HttpInv'
    <3>1. PICK n : n = [r EXCEPT !.pc = "connect"] OBVIOUS
    <3>2. IsRequestWorker(n) /\ n.req = r.req /\ n.got = r.got /\ n.arrived = r.arrived /\ n.pc = "connect"
          /\ n.quit = r.quit
      BY <1>0, <3>1 DEF IsRequestWorker, RequestPlaces
    <3>3. Whole(n) => n.got = Pieces(n.req)
      <4>1. SUFFICES ASSUME Whole(n) PROVE r.got = Pieces(r.req) BY <3>2
      <4>2. r.req.spelled /\ Pieces(r.req) <= Cap /\ ~r.quit BY <4>1, <3>2 DEF Whole
      <4>3. r.got >= Wanted(r.req) BY <4>2, <2>1
      <4>4. Wanted(r.req) = Pieces(r.req) BY <4>2, <1>a DEF Wanted
      <4> QED BY <4>3, <4>4, <1>0, <1>a DEF Fed, IsRequestWorker
    <3>4. Fed(n)
      BY <1>0, <3>2, <3>3 DEF Fed
    <3> QED BY <2>1, <2>3, <3>1, <3>2, <3>4, OneMoves DEF Sound, Tunnelling
  <2>4. CASE ProbeRefuses(r.req)
    BY <1>4, <2>1, <2>4, <1>d DEF Dispatch, Tunnelling
  <2>5. CASE ~ProbeRefuses(r.req) /\ r.req.method = "CONNECT"
    BY <1>4, <2>1, <2>2, <2>5, <1>d DEF Dispatch, Tunnelling
  <2>6. CASE ~ProbeRefuses(r.req) /\ r.req.method # "CONNECT" /\ r.req.method = "OPTIONS"
    BY <1>4, <2>1, <2>6, <1>d DEF Dispatch, Tunnelling
  <2>7. CASE ~ProbeRefuses(r.req) /\ r.req.method \notin {"CONNECT", "OPTIONS"} /\ r.req.path \in {"info", "sn"}
    <3>1. Step(x, [r EXCEPT !.pc = r.req.path]) BY <1>4, <2>7 DEF Dispatch
    <3>2. PICK to \in {"info", "sn"} : to = r.req.path BY <2>7
    <3> QED BY <3>1, <3>2, <2>2
  <2>8. CASE ~ProbeRefuses(r.req) /\ r.req.method \notin {"CONNECT", "OPTIONS"} /\ r.req.path \notin {"info", "sn"}
    BY <1>4, <2>1, <2>3, <2>8, <1>d DEF Dispatch, Tunnelling
  <2> QED BY <2>4, <2>5, <2>6, <2>7, <2>8
<1>5. CASE Info(x) \/ SnPage(x)
  <2>1. r.pc \notin Tunnelling BY <1>5 DEF Info, SnPage, Tunnelling
  <2>2. ASSUME Step(x, ReadyPage(x)) PROVE HttpInv'
    <3>1. PICK n : n = [r EXCEPT !.pc = "done", !.ans = "ready", !.sn = r.snap] OBVIOUS
    <3>2. ReadyPage(x) = n BY <3>1, <1>0 DEF ReadyPage, Answer, IsRequestWorker
    <3>3. IsRequestWorker(n) /\ n.req = r.req /\ n.got = r.got /\ n.arrived = r.arrived /\ n.pc = "done"
      BY <1>0, <3>1, ZenonT(60) DEF IsRequestWorker, RequestPlaces
    <3> QED BY <2>1, <2>2, <3>2, <3>3, Elsewhere DEF Tunnelling
  <2>3. Step(x, ReadyPage(x)) \/ \E a \in {"waiting", "503"} : Step(x, Answer(x, a))
    BY <1>5 DEF Info, SnPage, InfoAnswer, WaitingPage
  <2> QED BY <2>1, <2>2, <2>3, <1>d
<1>6. ASSUME NEW done \in BOOLEAN, ConnectBackend(x, done) PROVE HttpInv'
  <2>1. r.pc = "connect" BY <1>6 DEF ConnectBackend
  <2>2. ASSUME Step(x, [r EXCEPT !.pc = "forward"]) PROVE HttpInv'
    <3>1. PICK n : n = [r EXCEPT !.pc = "forward"] OBVIOUS
    <3>2. IsRequestWorker(n) /\ n.req = r.req /\ n.got = r.got /\ n.arrived = r.arrived /\ n.pc = "forward"
          /\ n.quit = r.quit
      BY <1>0, <3>1 DEF IsRequestWorker, RequestPlaces
    <3>3. Fed(n)
      BY <1>0, <2>1, <3>2 DEF Fed, Whole
    <3> QED BY <2>1, <2>2, <3>1, <3>2, <3>3, OneMoves DEF Sound, Tunnelling
  <2> QED BY <1>6, <2>1, <2>2, <1>d DEF ConnectBackend, Tunnelling
<1>7. ASSUME NEW done \in BOOLEAN, Forward(x, done) PROVE HttpInv'
  <2>1. r.pc = "forward" BY <1>7 DEF Forward
  <2>2. ASSUME Step(x, [r EXCEPT !.pc = "response", !.sent = r.got, !.sn = r.snap]) PROVE HttpInv'
    <3>1. PICK n : n = [r EXCEPT !.pc = "response", !.sent = r.got, !.sn = r.snap] OBVIOUS
    <3>2. n.req = r.req /\ n.got = r.got /\ n.arrived = r.arrived /\ n.pc = "response"
          /\ n.quit = r.quit /\ n.sent = r.got
      BY <1>0, <3>1 DEF IsRequestWorker
    <3>4. IsRequestWorker(n)
      BY <1>0, <3>1, <3>2 DEF IsRequestWorker, RequestPlaces
    <3>3. Fed(n)
      BY <1>0, <2>1, <3>2 DEF Fed, Whole
    <3> QED BY <2>1, <2>2, <3>1, <3>2, <3>3, <3>4, OneMoves DEF Sound, Tunnelling
  <2> QED BY <1>7, <2>1, <2>2, <1>d DEF Forward, Tunnelling
<1>8. CASE Response(x)
  BY <1>8, <1>d DEF Response, Tunnelling
<1>9. CASE RefuseSlot(x)
  BY <1>9, <1>d DEF RefuseSlot, Tunnelling
<1>10. CASE TakeSlot(x)
  <2>1. PICK n : n = [r EXCEPT !.pc = "dial"] OBVIOUS
  <2>2. worker' = [worker EXCEPT ![x] = n] /\ r.pc = "slot" /\ slot[KindOf(r)] = 0
        /\ slot' = [slot EXCEPT ![KindOf(r)] = 1]
    BY <1>10, <2>1 DEF TakeSlot, SlotOf, KindOf
  <2>3. IsRequestWorker(n) /\ n.req = r.req /\ n.got = r.got /\ n.arrived = r.arrived /\ n.pc = "dial"
    BY <1>0, <2>1 DEF IsRequestWorker, RequestPlaces
  <2>4. Sound(n) BY <1>0, <2>3 DEF Sound, Fed
  <2>5. \A y \in HttpWorkers : worker'[y] = IF y = x THEN n ELSE worker[y]
    BY <2>2 DEF HttpInv
  <2>6. DOMAIN worker' = HttpWorkers /\ worker' = [y \in HttpWorkers |-> worker'[y]]
    BY <2>2 DEF HttpInv
  <2>7. \A y \in HttpWorkers : Sound(worker'[y]) BY <2>4, <2>5 DEF HttpInv
  <2>8. KindOf(n) = KindOf(r) /\ KindOf(r) \in Slots BY <2>3 DEF KindOf, Slots
  <2>9. slot' \in [Slots -> {0, 1}] BY <2>2, <2>8 DEF HttpInv
  <2>10. ASSUME NEW s \in Slots
         PROVE  \/ slot'[s] = 0 /\ Holders(worker', s) = {}
                \/ slot'[s] = 1 /\ \E y \in HttpWorkers : Holders(worker', s) = {y}
    <3>1. CASE s = KindOf(r)
      <4>1. slot'[s] = 1 BY <2>2, <2>8, <3>1 DEF HttpInv
      <4>2. Holders(worker, s) = {} BY <2>2, <3>1, <2>8 DEF HttpInv, Slotted
      <4>3. Holders(worker', s) = {x}
        BY <2>3, <2>5, <2>8, <3>1, <4>2 DEF Holders, Tunnelling
      <4> QED BY <4>1, <4>3
    <3>2. CASE s # KindOf(r)
      <4>1. slot'[s] = slot[s] BY <2>2, <3>2 DEF HttpInv
      <4>2. Holders(worker', s) = Holders(worker, s)
        BY <2>2, <2>5, <2>8, <3>2 DEF Holders, Tunnelling
      <4> QED BY <4>1, <4>2 DEF HttpInv, Slotted
    <3> QED BY <3>1, <3>2
  <2> QED BY <2>6, <2>7, <2>9, <2>10 DEF HttpInv, Slotted
<1>11. CASE Hangup(x)
  <2>1. PICK n : n = [r EXCEPT !.pc = "done"] OBVIOUS
  <2>2. worker' = [worker EXCEPT ![x] = n] /\ r.pc = "hangup" /\ slot' = [slot EXCEPT ![KindOf(r)] = 0]
    BY <1>11, <2>1 DEF Hangup, Released, SlotOf, KindOf
  <2>3. IsRequestWorker(n) /\ n.req = r.req /\ n.got = r.got /\ n.arrived = r.arrived /\ n.pc = "done"
    BY <1>0, <2>1 DEF IsRequestWorker, RequestPlaces
  <2>4. Sound(n) BY <1>0, <2>3 DEF Sound, Fed
  <2>5. \A y \in HttpWorkers : worker'[y] = IF y = x THEN n ELSE worker[y]
    BY <2>2 DEF HttpInv
  <2>6. DOMAIN worker' = HttpWorkers /\ worker' = [y \in HttpWorkers |-> worker'[y]]
    BY <2>2 DEF HttpInv
  <2>7. \A y \in HttpWorkers : Sound(worker'[y]) BY <2>4, <2>5 DEF HttpInv
  <2>8. KindOf(r) \in Slots BY DEF KindOf, Slots
  <2>9. slot' \in [Slots -> {0, 1}] BY <2>2, <2>8 DEF HttpInv
  <2>10. ASSUME NEW s \in Slots
         PROVE  \/ slot'[s] = 0 /\ Holders(worker', s) = {}
                \/ slot'[s] = 1 /\ \E y \in HttpWorkers : Holders(worker', s) = {y}
    <3>1. CASE s = KindOf(r)
      <4>1. slot'[s] = 0 BY <2>2, <2>8, <3>1 DEF HttpInv
      <4>2. x \in Holders(worker, s) BY <2>2, <3>1 DEF Holders, Tunnelling
      <4>3. Holders(worker, s) = {x} BY <4>2 DEF HttpInv, Slotted
      <4>4. Holders(worker', s) = {}
        BY <2>3, <2>5, <4>3 DEF Holders, Tunnelling
      <4> QED BY <4>1, <4>4
    <3>2. CASE s # KindOf(r)
      <4>1. slot'[s] = slot[s] BY <2>2, <3>2 DEF HttpInv
      <4>2. Holders(worker', s) = Holders(worker, s)
        BY <2>3, <2>5, <3>2 DEF Holders, Tunnelling
      <4> QED BY <4>1, <4>2 DEF HttpInv, Slotted
    <3> QED BY <3>1, <3>2
  <2> QED BY <2>6, <2>7, <2>9, <2>10 DEF HttpInv, Slotted
<1>12. ASSUME NEW n, Step(x, n), r.pc \in Tunnelling, n.pc \in Tunnelling,
              n \in [pc : {n.pc}, req : {r.req}, snap : {r.snap}, ok : {r.ok}, arrived : {r.arrived},
                     got : {r.got}, quit : {r.quit}, sent : {r.sent}, ans : {n.ans}, sn : {r.sn},
                     chunks : {n.chunks}, late : {n.late}, left : {n.left}, seen : {r.seen}]
       PROVE  HttpInv'
  <2>1. n.req = r.req /\ n.got = r.got /\ n.arrived = r.arrived
    BY <1>12
  <2>2. n.pc \in RequestPlaces /\ n.pc \notin {"connect", "forward", "response"}
    BY <1>12 DEF RequestPlaces, Tunnelling
  <2>3. IsRequestWorker(n) BY <1>0, <1>12, <2>2 DEF IsRequestWorker
  <2> QED BY <1>12, <2>1, <2>2, <2>3, Elsewhere
<1>13. CASE \E done \in BOOLEAN : DialTarget(x, done)
  <2>1. PICK n : Step(x, n) /\ r.pc = "dial" /\ \E to \in {"tunnel", "hangup"}, a \in {"200", "502"} :
                                               n = [r EXCEPT !.pc = to, !.ans = a]
    BY <1>13 DEF DialTarget
  <2>2. n.pc \in {"tunnel", "hangup"} BY <1>0, <2>1 DEF IsRequestWorker
  <2>3. n \in [pc : {n.pc}, req : {r.req}, snap : {r.snap}, ok : {r.ok}, arrived : {r.arrived},
                got : {r.got}, quit : {r.quit}, sent : {r.sent}, ans : {n.ans}, sn : {r.sn},
                chunks : {n.chunks}, late : {n.late}, left : {n.left}, seen : {r.seen}]
    <3>1. PICK to \in {"tunnel", "hangup"}, a \in {"200", "502"} : n = [r EXCEPT !.pc = to, !.ans = a]
      BY <2>1
    <3> QED
      BY <1>0, <3>1 DEF IsRequestWorker
  <2> QED BY <2>1, <2>2, <2>3, <1>12 DEF Tunnelling
<1>14. CASE TunnelRound(x)
  <2>1. PICK n : Step(x, n) /\ r.pc = "tunnel" /\ \E m \in {1, 2} : n = [r EXCEPT !.pc = "relay", !.left = m]
    BY <1>14 DEF TunnelRound
  <2>2. n.pc = "relay" BY <1>0, <2>1 DEF IsRequestWorker
  <2>3. n \in [pc : {n.pc}, req : {r.req}, snap : {r.snap}, ok : {r.ok}, arrived : {r.arrived},
                got : {r.got}, quit : {r.quit}, sent : {r.sent}, ans : {n.ans}, sn : {r.sn},
                chunks : {n.chunks}, late : {n.late}, left : {n.left}, seen : {r.seen}]
    <3>1. PICK m \in {1, 2} : n = [r EXCEPT !.pc = "relay", !.left = m]
      BY <2>1
    <3> QED
      BY <1>0, <3>1 DEF IsRequestWorker
  <2> QED BY <2>1, <2>2, <2>3, <1>12 DEF Tunnelling
<1>15. CASE TunnelCheck(x) \/ TunnelEnds(x)
  <2>1. PICK n : Step(x, n) /\ r.pc \in {"relay", "tunnel"} /\ \E to \in {"send", "hangup"} : n = [r EXCEPT !.pc = to]
    BY <1>15 DEF TunnelCheck, TunnelEnds
  <2>2. n.pc \in {"send", "hangup"} BY <1>0, <2>1 DEF IsRequestWorker
  <2>3. n \in [pc : {n.pc}, req : {r.req}, snap : {r.snap}, ok : {r.ok}, arrived : {r.arrived},
                got : {r.got}, quit : {r.quit}, sent : {r.sent}, ans : {n.ans}, sn : {r.sn},
                chunks : {n.chunks}, late : {n.late}, left : {n.left}, seen : {r.seen}]
    <3>1. PICK to \in {"send", "hangup"} : n = [r EXCEPT !.pc = to]
      BY <2>1
    <3> QED
      BY <1>0, <3>1 DEF IsRequestWorker
  <2> QED BY <2>1, <2>2, <2>3, <1>12 DEF Tunnelling
<1>16. CASE TunnelSend(x)
  <2>1. PICK n : Step(x, n) /\ r.pc = "send"
                 /\ n = IF "media" \in policy
                        THEN [r EXCEPT !.pc = IF r.left = 1 THEN "tunnel" ELSE "relay",
                                       !.left = @ - 1, !.chunks = @ + 1,
                                       !.late = IF TunnelAllowed THEN @ ELSE @ + 1]
                        ELSE [r EXCEPT !.pc = "hangup"]
    BY <1>16 DEF TunnelSend
  <2>2. n.pc \in {"tunnel", "relay", "hangup"} BY <1>0, <2>1 DEF IsRequestWorker
  <2>3. n \in [pc : {n.pc}, req : {r.req}, snap : {r.snap}, ok : {r.ok}, arrived : {r.arrived},
                got : {r.got}, quit : {r.quit}, sent : {r.sent}, ans : {n.ans}, sn : {r.sn},
                chunks : {n.chunks}, late : {n.late}, left : {n.left}, seen : {r.seen}]
    <3>1. CASE "media" \in policy
      <4>1. PICK to, m, c, l : n = [r EXCEPT !.pc = to, !.left = m, !.chunks = c, !.late = l]
        BY <1>0, <2>1, <3>1 DEF IsRequestWorker
      <4> QED BY <1>0, <4>1 DEF IsRequestWorker
    <3>2. CASE "media" \notin policy
      BY <1>0, <2>1, <3>2 DEF IsRequestWorker
    <3> QED BY <3>1, <3>2
  <2> QED BY <2>1, <2>2, <2>3, <1>12, ZenonT(60) DEF Tunnelling
<1>17. CASE Exit(x)
  <2>1. Step(x, NoWorker) /\ r.pc = "done" BY <1>17 DEF Exit
  <2>2. NoWorker.pc = "idle" /\ NoWorker.req = NoRequest /\ NoWorker.got = 0 /\ NoWorker.arrived = 0
    BY DEF NoWorker
  <2>3. IsRequestWorker(NoWorker) BY DEF NoWorker, IsRequestWorker, RequestPlaces
  <2>4. Pieces(NoRequest) \in Nat BY PiecesCounted
  <2>5. Fed(NoWorker) BY <2>2, <2>4 DEF Fed
  <2> QED BY <2>1, <2>2, <2>3, <2>5, OneMoves DEF Sound, Tunnelling
<1>18. CASE AcceptRequest(x)
  <2>1. PICK q \in Requests :
          worker' = [worker EXCEPT ![x] = [NoWorker EXCEPT !.pc = "begin", !.req = q,
                        !.seen = IF q.method = "CONNECT" THEN {} ELSE {<<inForce, certReady>>}]]
    BY <1>18 DEF AcceptRequest
  <2>2. PICK n : n = [NoWorker EXCEPT !.pc = "begin", !.req = q,
                        !.seen = IF q.method = "CONNECT" THEN {} ELSE {<<inForce, certReady>>}]
    OBVIOUS
  <2>3. n.pc = "begin" /\ n.req = q /\ n.got = 0 /\ n.arrived = 0
    BY <2>2 DEF NoWorker
  <2>11. IsRequestWorker(n)
    <3>1. PICK z : n = [NoWorker EXCEPT !.pc = "begin", !.req = q, !.seen = z] BY <2>2
    <3>2. n = [pc |-> "begin", req |-> q, snap |-> 0, ok |-> FALSE, arrived |-> 0, got |-> 0, quit |-> FALSE,
               sent |-> 0, ans |-> "none", sn |-> 0, chunks |-> 0, late |-> 0, left |-> 0, seen |-> z]
      BY <3>1 DEF NoWorker
    <3> QED BY <3>2 DEF IsRequestWorker, RequestPlaces
  <2>4. Pieces(q) \in Nat BY PiecesCounted
  <2>5. Sound(n) BY <2>3, <2>4, <2>11 DEF Sound, Fed
  <2>6. slot' = slot /\ r.pc = "idle" BY <1>18 DEF AcceptRequest
  <2>7. \A y \in HttpWorkers : worker'[y] = IF y = x THEN n ELSE worker[y]
    BY <2>1, <2>2 DEF HttpInv
  <2>8. DOMAIN worker' = HttpWorkers /\ worker' = [y \in HttpWorkers |-> worker'[y]]
    BY <2>1 DEF HttpInv
  <2>9. \A s : Holders(worker', s) = Holders(worker, s)
    BY <2>3, <2>6, <2>7 DEF Holders, Tunnelling
  <2>10. Slotted(worker', slot') BY <2>6, <2>9 DEF HttpInv, Slotted
  <2> QED BY <2>5, <2>6, <2>7, <2>8, <2>10 DEF HttpInv
<1>19. CASE ClientSends(x)
  <2>1. PICK n : n = [r EXCEPT !.arrived = r.arrived + 1] OBVIOUS
  <2>2. Step(x, n) /\ r.pc \in {"begin", "reading"} /\ r.arrived < Pieces(r.req)
    BY <1>19, <1>0, <2>1 DEF ClientSends, IsRequestWorker
  <2>3. IsRequestWorker(n) /\ n.req = r.req /\ n.got = r.got /\ n.arrived = r.arrived + 1 /\ n.pc = r.pc
    BY <1>0, <2>1 DEF IsRequestWorker, RequestPlaces
  <2>4. Fed(n) BY <1>0, <1>a, <2>2, <2>3 DEF Fed, IsRequestWorker
  <2> QED BY <2>2, <2>3, <2>4, OneMoves DEF Sound, Tunnelling
<1>20. CASE ClientQuits(x)
  <2>1. PICK n : n = [r EXCEPT !.quit = TRUE] OBVIOUS
  <2>2. Step(x, n) /\ r.pc \in {"begin", "reading"}
    BY <1>20, <2>1 DEF ClientQuits
  <2>3. IsRequestWorker(n) /\ n.req = r.req /\ n.got = r.got /\ n.arrived = r.arrived /\ n.pc = r.pc
    BY <1>0, <2>1, ZenonT(60) DEF IsRequestWorker, RequestPlaces
  <2> QED BY <2>2, <2>3, Elsewhere DEF Tunnelling
<1> QED
  BY <1>1, <1>2, <1>3, <1>4, <1>5, <1>6, <1>7, <1>8, <1>9, <1>10, <1>11, <1>13, <1>14, <1>15, <1>16,
     <1>17, <1>18, <1>19, <1>20
  DEF RequestStep, Client

LEMMA ServiceKeeps == ASSUME HttpInv, Service PROVE HttpInv'
<1>1. CASE worker' = worker /\ slot' = slot
  BY <1>1, NoneMoves DEF HttpInv
<1>2. CASE SvcLoad \/ UpdateCreds \/ SvcStandby \/ StandbyEnds
  <2>1. slot' = slot /\ \E c, b : worker' = Seeing(worker, c, b)
    BY <1>2 DEF SvcLoad, UpdateCreds, SvcStandby, StandbyEnds
  <2> QED BY <2>1, SeeingMoves
<1>3. CASE PolicyChanges
  <2>1. worker' = [y \in HttpWorkers |-> [worker[y] EXCEPT !.late = IF TunnelAllowed' THEN 0 ELSE @]]
        /\ slot' = slot
    BY <1>3 DEF PolicyChanges
  <2>2. ASSUME NEW y \in HttpWorkers
        PROVE  Sound(worker'[y]) /\ worker'[y].pc = worker[y].pc /\ worker'[y].req = worker[y].req
    <3>1. PICK r : r = worker[y] OBVIOUS
    <3>2. IsRequestWorker(r) /\ Fed(r) BY <3>1 DEF HttpInv, Sound
    <3>3. PICK l : worker'[y] = [r EXCEPT !.late = l]
      BY <2>1, <3>1, <3>2 DEF IsRequestWorker
    <3>4. PICK n : n = worker'[y] OBVIOUS
    <3>5. IsRequestWorker(n) /\ n.pc = r.pc /\ n.req = r.req /\ n.got = r.got /\ n.arrived = r.arrived
          /\ n.quit = r.quit /\ n.sent = r.sent
      BY <3>2, <3>3, <3>4 DEF IsRequestWorker
    <3> QED BY <3>1, <3>2, <3>4, <3>5 DEF Sound, Fed, Whole
  <2>3. worker' = [y \in HttpWorkers |-> worker'[y]] /\ DOMAIN worker' = HttpWorkers
    BY <2>1
  <2> QED BY <2>1, <2>2, <2>3, NoneMoves
<1> QED
  BY <1>1, <1>2, <1>3 DEF Service, SvcSwap, FreeReplaced, HttpStart, HttpStop

LEMMA HttpStepKeeps == ASSUME HttpInv, [HttpNext]_httpVars PROVE HttpInv'
<1>1. CASE UNCHANGED httpVars
  BY <1>1, NoneMoves DEF HttpInv, httpVars
<1> QED BY <1>1, RequestStepKeeps, ServiceKeeps DEF HttpNext, Quiet

LEMMA HttpFirst == HttpInit => HttpInv
<1> SUFFICES ASSUME HttpInit PROVE HttpInv OBVIOUS
<1>1. worker = [x \in HttpWorkers |-> NoWorker] /\ slot = [s \in Slots |-> 0]
  BY DEF HttpInit
<1>2. NoWorker.pc = "idle" /\ NoWorker.req = NoRequest /\ NoWorker.got = 0 /\ NoWorker.arrived = 0
  BY DEF NoWorker
<1>3. IsRequestWorker(NoWorker) BY DEF NoWorker, IsRequestWorker, RequestPlaces
<1>4. Pieces(NoRequest) \in Nat BY PiecesCounted
<1>5. Sound(NoWorker) BY <1>2, <1>3, <1>4 DEF Fed, Sound
<1>6. Slotted(worker, slot) BY <1>1, <1>2 DEF Slotted, Holders, Tunnelling
<1> QED BY <1>1, <1>5, <1>6 DEF HttpInv

\* A request whose length the listener recognises, that fits its buffer and whose client stays is
\* sent to the backend whole, however it was cut into segments and whatever happens to the
\* certificate meanwhile (handle_client of http_proxy.c).
THEOREM ForwardedWholeSafe == HttpSpec => []ForwardedWhole
<1>1. HttpInv => ForwardedWhole
  BY DEF HttpInv, Sound, Fed, Whole, ForwardedWhole
<1>2. HttpInv /\ [HttpNext]_httpVars => HttpInv' BY HttpStepKeeps
<1> QED BY <1>1, <1>2, HttpFirst, PTL DEF HttpSpec

\* One tunnel of each kind at most is between taking its slot and giving it back, and the slot says
\* which way it is, on every way out (registry_connect.h, fm_connect.h).
THEOREM OneTunnelSafe == HttpSpec => []OneTunnel
<1>1. HttpInv => OneTunnel
  <2> SUFFICES ASSUME HttpInv, NEW s \in Slots
               PROVE  Cardinality({x \in HttpWorkers :
                         worker[x].pc \in {"dial", "tunnel", "relay", "send", "hangup"} /\ SlotOf(x) = s}) = slot[s]
    BY DEF OneTunnel
  <2>1. {x \in HttpWorkers : worker[x].pc \in {"dial", "tunnel", "relay", "send", "hangup"} /\ SlotOf(x) = s}
          = Holders(worker, s)
    BY DEF Holders, Tunnelling, KindOf, SlotOf
  <2>2. CASE slot[s] = 0 /\ Holders(worker, s) = {}
    BY <2>1, <2>2, FS_EmptySet
  <2>3. CASE slot[s] = 1 /\ \E x \in HttpWorkers : Holders(worker, s) = {x}
    BY <2>1, <2>3, FS_Singleton
  <2> QED BY <2>2, <2>3 DEF HttpInv, Slotted
<1>2. HttpInv /\ [HttpNext]_httpVars => HttpInv' BY HttpStepKeeps
<1> QED BY <1>1, <1>2, HttpFirst, PTL DEF HttpSpec

HIDE ConstantsOK

-----------------------------------------------------------------------------
(***************************************************************************)
(* The pump loses, repeats and reorders no byte, for every number and size *)
(* of records and every size of the buffers.                               *)
(*                                                                         *)
(* The bytes and the units on their way are numbered without a gap from    *)
(* one buffer to the next (Counts, Marks): what the plain side has, what   *)
(* is decrypted, and the records behind it on the wire; and what the peer  *)
(* has, what schannel_send is at, and what waits in the plain socket.      *)
(***************************************************************************)

Unit == Nat \X {1, 2}
Number(u) == 2 * u[1] + u[2]
Counts(q, n) == \A pos \in 1 .. Len(q) : q[pos] = n + pos
Marks(q, n) == \A pos \in 1 .. Len(q) : Number(q[pos]) = n + pos + 2

PumpTyped ==
    /\ pumpPc \in {"top", "first", "sending", "second", "reading", "closed"}
    /\ tls \in [connected : BOOLEAN, recvBuf : Seq(Unit), plainBuf : Seq(Nat), sending : Seq(Nat)]
    /\ peer \in [written : 0 .. Len(Ends), wire : Seq(Unit), fin : BOOLEAN, got : Seq(Nat)]
    /\ arrived \in Seq(Unit)
    /\ plain \in [written : 0 .. PlainBytes, unread : Seq(Nat), fin : BOOLEAN, got : Seq(Nat)]

\* d records have been decrypted
Decrypted(d) ==
    /\ Counts(plain.got, 0) /\ Counts(tls.plainBuf, Len(plain.got))
    /\ Len(plain.got) + Len(tls.plainBuf) = EndOf(d)
    /\ Marks(tls.recvBuf, 2 * d) /\ Marks(arrived, 2 * d + Len(tls.recvBuf))
    /\ Marks(peer.wire, 2 * d + Len(tls.recvBuf) + Len(arrived))
    /\ 2 * d + Len(tls.recvBuf) + Len(arrived) + Len(peer.wire) = 2 * peer.written

Encrypted ==
    /\ Counts(peer.got, 0) /\ Counts(tls.sending, Len(peer.got))
    /\ pumpPc # "closed" => Counts(plain.unread, Len(peer.got) + Len(tls.sending))
    /\ pumpPc # "closed" => Len(peer.got) + Len(tls.sending) + Len(plain.unread) = plain.written

\* A buffer is empty where it is filled
Emptied ==
    /\ pumpPc \in {"first", "sending", "second", "reading"} => tls.plainBuf = <<>>
    /\ pumpPc \notin {"sending", "closed"} => tls.sending = <<>>

PumpInv == PumpTyped /\ (\E d \in Nat : d <= peer.written /\ Decrypted(d)) /\ Encrypted /\ Emptied

LEMMA CountsJoin ==
    ASSUME NEW q \in Seq(Nat), NEW r \in Seq(Nat), NEW n \in Nat, Counts(q, n), Counts(r, n + Len(q))
    PROVE  Counts(q \o r, n) /\ Len(q \o r) = Len(q) + Len(r) /\ q \o r \in Seq(Nat)
<1>1. Len(q) \in Nat /\ Len(r) \in Nat
  BY LenProperties
<1>2. /\ q \o r \in Seq(Nat) /\ Len(q \o r) = Len(q) + Len(r)
      /\ \A pos \in 1 .. Len(q) + Len(r) : (q \o r)[pos] = IF pos <= Len(q) THEN q[pos] ELSE r[pos - Len(q)]
  BY ConcatProperties
<1>3. ASSUME NEW pos \in 1 .. Len(q \o r) PROVE (q \o r)[pos] = n + pos
  <2>1. CASE pos <= Len(q)
    BY <1>1, <1>2, <2>1 DEF Counts
  <2>2. CASE ~(pos <= Len(q))
    <3>1. pos - Len(q) \in 1 .. Len(r)
      BY <1>1, <1>2, <2>2
    <3>2. r[pos - Len(q)] = n + Len(q) + (pos - Len(q))
      BY <3>1 DEF Counts
    <3> QED
      BY <1>1, <1>2, <2>2, <3>2
  <2> QED
    BY <2>1, <2>2
<1> QED
  BY <1>2, <1>3 DEF Counts

LEMMA MarksJoin ==
    ASSUME NEW q \in Seq(Unit), NEW r \in Seq(Unit), NEW n \in Nat, Marks(q, n), Marks(r, n + Len(q))
    PROVE  Marks(q \o r, n) /\ Len(q \o r) = Len(q) + Len(r) /\ q \o r \in Seq(Unit)
<1>1. Len(q) \in Nat /\ Len(r) \in Nat
  BY LenProperties
<1>2. /\ q \o r \in Seq(Unit) /\ Len(q \o r) = Len(q) + Len(r)
      /\ \A pos \in 1 .. Len(q) + Len(r) : (q \o r)[pos] = IF pos <= Len(q) THEN q[pos] ELSE r[pos - Len(q)]
  BY ConcatProperties
<1>3. ASSUME NEW pos \in 1 .. Len(q \o r) PROVE Number((q \o r)[pos]) = n + pos + 2
  <2>1. CASE pos <= Len(q)
    BY <1>1, <1>2, <2>1 DEF Marks
  <2>2. CASE ~(pos <= Len(q))
    <3>1. pos - Len(q) \in 1 .. Len(r)
      BY <1>1, <1>2, <2>2
    <3>2. Number(r[pos - Len(q)]) = n + Len(q) + (pos - Len(q)) + 2
      BY <3>1 DEF Marks
    <3> QED
      BY <1>1, <1>2, <2>2, <3>2
  <2> QED
    BY <2>1, <2>2
<1> QED
  BY <1>2, <1>3 DEF Marks

\* What a cut at m leaves on its two sides
LEMMA Cut ==
    ASSUME NEW T, NEW q \in Seq(T), NEW m \in Nat
    PROVE  /\ FirstFew(q, m) \in Seq(T) /\ RestOf(q, m) \in Seq(T)
           /\ Len(FirstFew(q, m)) + Len(RestOf(q, m)) = Len(q)
           /\ Len(FirstFew(q, m)) = IF m < Len(q) THEN m ELSE Len(q)
           /\ \A pos \in 1 .. Len(FirstFew(q, m)) : pos \in 1 .. Len(q) /\ FirstFew(q, m)[pos] = q[pos]
           /\ \A pos \in 1 .. Len(RestOf(q, m)) :
                 m + pos \in 1 .. Len(q) /\ RestOf(q, m)[pos] = q[m + pos] /\ m = Len(FirstFew(q, m))
<1> DEFINE e == IF m < Len(q) THEN m ELSE Len(q)
<1>1. Len(q) \in Nat /\ \A pos \in 1 .. Len(q) : q[pos] \in T
  BY LenProperties, ElementOfSeq
<1>2. e \in Nat /\ e <= Len(q) /\ \A pos \in 1 .. e : q[pos] \in T
  BY <1>1
<1>3. /\ SubSeq(q, 1, e) \in Seq(T) /\ Len(SubSeq(q, 1, e)) = (IF 1 <= e THEN e - 1 + 1 ELSE 0)
      /\ \A pos \in 1 .. e - 1 + 1 : SubSeq(q, 1, e)[pos] = q[1 + pos - 1]
  <2> HIDE DEF e
  <2> QED
    BY <1>2, SubSeqProperties
<1>4. \A pos \in m + 1 .. Len(q) : q[pos] \in T
  BY <1>1
<1>5. /\ SubSeq(q, m + 1, Len(q)) \in Seq(T)
      /\ Len(SubSeq(q, m + 1, Len(q))) = (IF m + 1 <= Len(q) THEN Len(q) - (m + 1) + 1 ELSE 0)
      /\ \A pos \in 1 .. Len(q) - (m + 1) + 1 : SubSeq(q, m + 1, Len(q))[pos] = q[(m + 1) + pos - 1]
  BY <1>1, <1>4, SubSeqProperties
<1>6. FirstFew(q, m) = SubSeq(q, 1, e) /\ RestOf(q, m) = SubSeq(q, m + 1, Len(q))
  BY DEF FirstFew, RestOf
<1>7. Len(FirstFew(q, m)) = e
  BY <1>2, <1>3, <1>6
<1>8. \A pos \in 1 .. Len(FirstFew(q, m)) : pos \in 1 .. Len(q) /\ FirstFew(q, m)[pos] = q[pos]
  <2> SUFFICES ASSUME NEW pos \in 1 .. e PROVE pos \in 1 .. Len(q) /\ SubSeq(q, 1, e)[pos] = q[pos]
    BY <1>6, <1>7
  <2>1. pos \in 1 .. e - 1 + 1 /\ 1 + pos - 1 = pos /\ pos \in 1 .. Len(q)
    BY <1>2
  <2> QED
    BY <1>3, <2>1
<1>9. Len(RestOf(q, m)) = IF m < Len(q) THEN Len(q) - m ELSE 0
  BY <1>1, <1>5, <1>6
<1>10. ASSUME NEW pos \in 1 .. Len(RestOf(q, m)) PROVE m + pos \in 1 .. Len(q) /\ RestOf(q, m)[pos] = q[m + pos] /\ m = e
  <2>1. pos \in 1 .. Len(q) - (m + 1) + 1 /\ (m + 1) + pos - 1 = m + pos /\ m + pos \in 1 .. Len(q) /\ m < Len(q)
    BY <1>1, <1>9
  <2> QED
    BY <1>5, <1>6, <2>1
<1>11. Len(FirstFew(q, m)) + Len(RestOf(q, m)) = Len(q)
  BY <1>1, <1>7, <1>9
<1> QED
  BY <1>3, <1>5, <1>6, <1>7, <1>8, <1>10, <1>11

LEMMA CountsCut ==
    ASSUME NEW q \in Seq(Nat), NEW n \in Nat, NEW m \in Nat, Counts(q, n)
    PROVE  Counts(FirstFew(q, m), n) /\ Counts(RestOf(q, m), n + Len(FirstFew(q, m)))
<1>1. Counts(FirstFew(q, m), n)
  BY Cut DEF Counts
<1>2. ASSUME NEW pos \in 1 .. Len(RestOf(q, m)) PROVE RestOf(q, m)[pos] = n + Len(FirstFew(q, m)) + pos
  <2>1. m + pos \in 1 .. Len(q) /\ RestOf(q, m)[pos] = q[m + pos] /\ m = Len(FirstFew(q, m))
    BY Cut
  <2>2. q[m + pos] = n + (m + pos)
    BY <2>1 DEF Counts
  <2>3. pos \in Nat
    <3>1. Len(RestOf(q, m)) \in Nat
      BY Cut, LenProperties
    <3> QED
      BY <3>1
  <2>4. n + (m + pos) = n + m + pos
    BY <2>3
  <2> QED
    BY <2>1, <2>2, <2>4
<1> QED
  BY <1>1, <1>2 DEF Counts

\* What remains of the units behind the first record
LEMMA MarksCut ==
    ASSUME NEW q \in Seq(Unit), NEW n \in Nat, Marks(q, n), Len(q) >= 2
    PROVE  /\ Marks(RestOf(q, 2), n + 2) /\ RestOf(q, 2) \in Seq(Unit)
           /\ Len(RestOf(q, 2)) + 2 = Len(q)
<1>0. Len(q) \in Nat /\ 2 \in Nat
  BY LenProperties
<1>1. RestOf(q, 2) \in Seq(Unit) /\ Len(RestOf(q, 2)) \in Nat /\ Len(FirstFew(q, 2)) \in Nat
  BY <1>0, Cut, LenProperties
<1>2. Len(RestOf(q, 2)) + 2 = Len(q)
  <2>1. Len(FirstFew(q, 2)) + Len(RestOf(q, 2)) = Len(q) /\ Len(FirstFew(q, 2)) = IF 2 < Len(q) THEN 2 ELSE Len(q)
    BY <1>0, Cut
  <2> DEFINE a == Len(FirstFew(q, 2))
             b == Len(RestOf(q, 2))
             c == Len(q)
  <2>2. a \in Nat /\ b \in Nat /\ c \in Nat /\ c >= 2 /\ a + b = c /\ a = IF 2 < c THEN 2 ELSE c
    BY <1>0, <1>1, <2>1
  <2> HIDE DEF a, b, c
  <2>3. b + 2 = c
    BY <2>2
  <2> QED
    BY <2>3 DEF b, c
<1>3. ASSUME NEW pos \in 1 .. Len(RestOf(q, 2)) PROVE Number(RestOf(q, 2)[pos]) = n + 2 + pos + 2
  <2>1. 2 + pos \in 1 .. Len(q) /\ RestOf(q, 2)[pos] = q[2 + pos]
    BY <1>0, Cut
  <2>2. Number(q[2 + pos]) = n + (2 + pos) + 2
    BY <2>1 DEF Marks
  <2>3. n + (2 + pos) + 2 = n + 2 + pos + 2
    BY <1>1
  <2> QED
    BY <2>1, <2>2, <2>3
<1> QED
  BY <1>1, <1>2, <1>3 DEF Marks

\* A whole record at the head of recvBuf is the next one to decrypt
LEMMA NextRecord ==
    ASSUME NEW q \in Seq(Unit), NEW d \in Nat, Marks(q, 2 * d), Len(q) >= 2
    PROVE  q[1][1] = d + 1
<1>1. Len(q) \in Nat /\ 1 \in 1 .. Len(q)
  BY LenProperties
<1>2. q[1] \in Unit
  BY <1>1, ElementOfSeq
<1>3. 2 * q[1][1] + q[1][2] = 2 * d + 1 + 2
  BY <1>1 DEF Marks, Number
<1>4. q[1][1] \in Nat /\ q[1][2] \in {1, 2}
  BY <1>2 DEF Unit
<1> HIDE DEF Unit
<1> DEFINE a == q[1][1]
           b == q[1][2]
<1>5. a \in Nat /\ b \in {1, 2} /\ 2 * a + b = 2 * d + 1 + 2
  BY <1>3, <1>4
<1>6. a = d + 1
  <2> HIDE DEF a, b
  <2> QED
    BY <1>5
<1> QED
  BY <1>6

\* The plaintext of a record continues the numbers of the records before it
LEMMA PlaintextCounts ==
    ASSUME NEW i \in 1 .. Len(Ends)
    PROVE  /\ Plaintext(i) \in Seq(Nat) /\ Counts(Plaintext(i), EndOf(i - 1))
           /\ EndOf(i - 1) \in Nat /\ EndOf(i - 1) + Len(Plaintext(i)) = EndOf(i)
<1>0. Ends \in Seq(Nat) /\ \A j, pos \in 1 .. Len(Ends) : j <= pos => Ends[j] <= Ends[pos]
  BY PumpAssumption
<1>1. Len(Ends) \in Nat /\ i \in Nat /\ i # 0
  BY <1>0, LenProperties
<1>2. Ends[i] \in Nat
  BY <1>0, ElementOfSeq
<1>3. EndOf(i) = Ends[i]
  BY <1>1 DEF EndOf
<1>4. EndOf(i - 1) \in Nat /\ EndOf(i - 1) <= EndOf(i)
  <2>1. CASE i = 1
    BY <1>2, <1>3, <2>1 DEF EndOf
  <2>2. CASE i # 1
    <3>1. i - 1 \in 1 .. Len(Ends) /\ i - 1 <= i /\ i - 1 # 0
      BY <1>1, <2>2
    <3>2. EndOf(i - 1) = Ends[i - 1]
      BY <3>1 DEF EndOf
    <3>3. Ends[i - 1] \in Nat
      BY <1>0, <3>1, ElementOfSeq
    <3>4. Ends[i - 1] <= Ends[i]
      BY <1>0, <3>1
    <3> QED
      BY <1>3, <3>2, <3>3, <3>4
  <2> QED
    BY <2>1, <2>2
<1> DEFINE lo == EndOf(i - 1)
           n == EndOf(i) - lo
<1>5. lo \in Nat /\ n \in Nat /\ lo + n = EndOf(i)
  BY <1>2, <1>3, <1>4
<1>6. Plaintext(i) = [pos \in 1 .. n |-> lo + pos]
  BY DEF Plaintext
<1> HIDE DEF lo, n
<1>7. \A pos \in 1 .. n : lo + pos \in Nat
  BY <1>5
<1>8. [pos \in 1 .. n |-> lo + pos] \in Seq(Nat) /\ Len([pos \in 1 .. n |-> lo + pos]) = n
  BY <1>5, <1>7, IsASeq, LenProperties
<1> QED
  BY <1>5, <1>6, <1>8 DEF Counts, lo
\* A unit moves from the head of one buffer to the end of the one before it
LEMMA MarksMove ==
    ASSUME NEW q \in Seq(Unit), NEW r \in Seq(Unit), NEW n \in Nat,
           Marks(q, n), Marks(r, n + Len(q)), r # <<>>
    PROVE  /\ Append(q, Head(r)) \in Seq(Unit) /\ Len(Append(q, Head(r))) = Len(q) + 1
           /\ Tail(r) \in Seq(Unit) /\ Len(Tail(r)) + 1 = Len(r)
           /\ Marks(Append(q, Head(r)), n) /\ Marks(Tail(r), n + Len(q) + 1)
<1>1. Len(q) \in Nat /\ Len(r) \in Nat \ {0}
  BY LenProperties, EmptySeq
<1>2. /\ Head(r) \in Unit /\ Tail(r) \in Seq(Unit) /\ Len(Tail(r)) = Len(r) - 1
      /\ \A pos \in 1 .. Len(Tail(r)) : Tail(r)[pos] = r[pos + 1]
  BY HeadTailProperties
<1>3. /\ Append(q, Head(r)) \in Seq(Unit) /\ Len(Append(q, Head(r))) = Len(q) + 1
      /\ \A pos \in 1 .. Len(q) : Append(q, Head(r))[pos] = q[pos]
      /\ Append(q, Head(r))[Len(q) + 1] = Head(r)
  BY <1>2, AppendProperties
<1>4. Head(r) = r[1]
  BY <1>1
<1>5. Number(r[1]) = n + Len(q) + 1 + 2
  BY <1>1 DEF Marks
<1>6. ASSUME NEW pos \in 1 .. Len(q) + 1 PROVE Number(Append(q, Head(r))[pos]) = n + pos + 2
  <2>1. CASE pos = Len(q) + 1
    <3>1. n + Len(q) + 1 + 2 = n + (Len(q) + 1) + 2
      BY <1>1
    <3> QED
      BY <1>3, <1>4, <1>5, <2>1, <3>1
  <2>2. CASE pos # Len(q) + 1
    <3>1. pos \in 1 .. Len(q)
      BY <1>1, <2>2
    <3> QED
      BY <1>3, <3>1 DEF Marks
  <2> QED
    BY <2>1, <2>2
<1>7. ASSUME NEW pos \in 1 .. Len(Tail(r)) PROVE Number(Tail(r)[pos]) = n + Len(q) + 1 + pos + 2
  <2>1. pos + 1 \in 1 .. Len(r)
    BY <1>1, <1>2
  <2>2. Number(r[pos + 1]) = n + Len(q) + (pos + 1) + 2
    BY <2>1 DEF Marks
  <2>3. n + Len(q) + (pos + 1) + 2 = n + Len(q) + 1 + pos + 2
    BY <1>1
  <2> QED
    BY <1>2, <2>2, <2>3
<1>8. Marks(Append(q, Head(r)), n) /\ Marks(Tail(r), n + Len(q) + 1)
  BY <1>3, <1>6, <1>7 DEF Marks
<1>9. Len(Tail(r)) + 1 = Len(r)
  BY <1>1, <1>2
<1> QED
  BY <1>2, <1>3, <1>8, <1>9

LEMMA CountsAppend ==
    ASSUME NEW q \in Seq(Nat), NEW n \in Nat, Counts(q, n)
    PROVE  /\ Append(q, n + Len(q) + 1) \in Seq(Nat) /\ Counts(Append(q, n + Len(q) + 1), n)
           /\ Len(Append(q, n + Len(q) + 1)) = Len(q) + 1
<1> DEFINE e == n + Len(q) + 1
<1>1. Len(q) \in Nat
  BY LenProperties
<1>2. e \in Nat /\ e = n + (Len(q) + 1)
  BY <1>1
<1> HIDE DEF e
<1>3. /\ Append(q, e) \in Seq(Nat) /\ Len(Append(q, e)) = Len(q) + 1
      /\ \A pos \in 1 .. Len(q) : Append(q, e)[pos] = q[pos]
      /\ Append(q, e)[Len(q) + 1] = e
  BY <1>2, AppendProperties
<1>4. ASSUME NEW pos \in 1 .. Len(q) + 1 PROVE Append(q, e)[pos] = n + pos
  <2>1. CASE pos = Len(q) + 1
    BY <1>2, <1>3, <2>1
  <2>2. CASE pos # Len(q) + 1
    <3>1. pos \in 1 .. Len(q)
      BY <1>1, <2>2
    <3> QED
      BY <1>3, <3>1 DEF Counts
  <2> QED
    BY <2>1, <2>2
<1> QED
  BY <1>3, <1>4 DEF Counts, e

LEMMA UnitsMarks ==
    ASSUME NEW i \in Nat
    PROVE  Units(i + 1) \in Seq(Unit) /\ Len(Units(i + 1)) = 2 /\ Marks(Units(i + 1), 2 * i)
<1>1. i + 1 \in Nat /\ 2 * (i + 1) + 1 = 2 * i + 1 + 2 /\ 2 * (i + 1) + 2 = 2 * i + 2 + 2
  OBVIOUS
<1>2. Units(i + 1) = <<<<i + 1, 1>>, <<i + 1, 2>>>>
  BY DEF Units
<1>3. Len(Units(i + 1)) = 2 /\ Units(i + 1)[1] = <<i + 1, 1>> /\ Units(i + 1)[2] = <<i + 1, 2>>
  BY <1>2
<1>4. <<i + 1, 1>> \in Unit /\ <<i + 1, 2>> \in Unit
  BY <1>1 DEF Unit
<1>5. Units(i + 1) \in Seq(Unit)
  <2>1. \A x, y \in Unit : <<x, y>> \in Seq(Unit)
    OBVIOUS
  <2> QED
    BY <1>2, <1>4, <2>1
<1>6. Number(<<i + 1, 1>>) = 2 * i + 1 + 2 /\ Number(<<i + 1, 2>>) = 2 * i + 2 + 2
  BY <1>1 DEF Number
<1>7. ASSUME NEW pos \in 1 .. 2 PROVE Number(Units(i + 1)[pos]) = 2 * i + pos + 2
  <2>1. pos = 1 \/ pos = 2
    OBVIOUS
  <2> QED
    BY <1>3, <1>6, <2>1
<1> QED
  BY <1>3, <1>5, <1>7 DEF Marks

-----------------------------------------------------------------------------
(* The invariant, initially and step by step                               *)

LEMMA Lens ==
    ASSUME PumpTyped
    PROVE  /\ Len(tls.recvBuf) \in Nat /\ Len(tls.plainBuf) \in Nat /\ Len(tls.sending) \in Nat
           /\ Len(peer.wire) \in Nat /\ Len(peer.got) \in Nat /\ Len(arrived) \in Nat
           /\ Len(plain.unread) \in Nat /\ Len(plain.got) \in Nat
           /\ peer.written \in Nat /\ plain.written \in Nat /\ Len(Ends) \in Nat
<1>1. Len(Ends) \in Nat
  BY PumpAssumption, LenProperties
<1> QED
  BY <1>1, PumpAssumption, LenProperties DEF PumpTyped

LEMMA PumpInitial == PumpInit => PumpInv
<1> SUFFICES ASSUME PumpInit PROVE PumpInv
  OBVIOUS
<1>1. /\ pumpPc = "top" /\ arrived = <<>>
      /\ tls.recvBuf = <<>> /\ tls.plainBuf = <<>> /\ tls.sending = <<>>
      /\ peer.wire = <<>> /\ peer.got = <<>> /\ peer.written = 0
      /\ plain.unread = <<>> /\ plain.got = <<>> /\ plain.written = 0
  BY DEF PumpInit
<1>2. Len(<<>>) = 0 /\ <<>> \in Seq(Unit) /\ <<>> \in Seq(Nat)
  BY EmptySeq
<1>3. Len(Ends) \in Nat /\ PlainBytes \in Nat
  BY PumpAssumption, LenProperties
<1>4. PumpTyped
  <2>1. 0 \in 0 .. Len(Ends) /\ 0 \in 0 .. PlainBytes
    BY <1>3
  <2> QED
    BY <1>2, <2>1 DEF PumpInit, PumpTyped
<1>5. Decrypted(0) /\ 0 \in Nat /\ 0 <= peer.written
  BY <1>1, <1>2 DEF Decrypted, Counts, Marks, EndOf
<1>6. Encrypted /\ Emptied
  BY <1>1, <1>2 DEF Encrypted, Emptied, Counts
<1> QED
  BY <1>4, <1>5, <1>6 DEF PumpInv

\* schannel_recv appends what the socket has to recvBuf
LEMMA ReadSocketStep == PumpInv /\ ReadSocket => PumpInv'
<1> SUFFICES ASSUME PumpInv, ReadSocket PROVE PumpInv'
  OBVIOUS
<1> USE DEF PumpInv
<1>1. PICK d \in Nat : d <= peer.written /\ Decrypted(d)
  OBVIOUS
<1>2. /\ tls' = [tls EXCEPT !.recvBuf = @ \o arrived] /\ arrived' = <<>>
      /\ pumpPc' = pumpPc /\ peer' = peer /\ plain' = plain
  BY DEF ReadSocket
<1>3. /\ tls'.recvBuf = tls.recvBuf \o arrived /\ tls'.plainBuf = tls.plainBuf
      /\ tls'.sending = tls.sending /\ tls'.connected = tls.connected
  BY <1>2 DEF PumpTyped
<1>4. 2 * d \in Nat /\ tls.recvBuf \in Seq(Unit) /\ arrived \in Seq(Unit)
  BY DEF PumpTyped
<1>5. /\ Marks(tls.recvBuf \o arrived, 2 * d) /\ tls.recvBuf \o arrived \in Seq(Unit)
      /\ Len(tls.recvBuf \o arrived) = Len(tls.recvBuf) + Len(arrived)
  BY <1>1, <1>4, MarksJoin DEF Decrypted
<1>6. Len(<<>>) = 0 /\ <<>> \in Seq(Unit)
  BY EmptySeq
<1>7. PumpTyped'
  BY <1>2, <1>5, <1>6 DEF PumpTyped
<1>8. 2 * d + (Len(tls.recvBuf) + Len(arrived)) + 0 = 2 * d + Len(tls.recvBuf) + Len(arrived)
  <2> DEFINE a == Len(tls.recvBuf)
             b == Len(arrived)
             c == 2 * d
  <2>1. a \in Nat /\ b \in Nat /\ c \in Nat
    BY <1>4, Lens
  <2> HIDE DEF a, b, c
  <2>2. c + (a + b) + 0 = c + a + b
    BY <2>1
  <2> QED
    BY <2>2 DEF a, b, c
<1>9. Decrypted(d)'
  <2>1. Marks(<<>>, 2 * d + Len(tls'.recvBuf))
    BY <1>6 DEF Marks
  <2>2. 2 * d + Len(tls'.recvBuf) + Len(arrived') = 2 * d + Len(tls.recvBuf) + Len(arrived)
    BY <1>2, <1>3, <1>5, <1>6, <1>8
  <2> QED
    BY <1>1, <1>2, <1>3, <1>5, <2>1, <2>2 DEF Decrypted
<1>10. Encrypted' /\ Emptied'
  BY <1>2, <1>3 DEF Encrypted, Emptied
<1> QED
  BY <1>1, <1>2, <1>7, <1>9, <1>10

\* A record is decrypted: plainBuf was empty, what the caller cannot take fills it
LEMMA DecryptStep == PumpInv /\ Decrypt => PumpInv'
<1> SUFFICES ASSUME PumpInv, Decrypt PROVE PumpInv'
  OBVIOUS
<1> USE DEF PumpInv
<1>1. PICK d \in Nat : d <= peer.written /\ Decrypted(d)
  OBVIOUS
<1> DEFINE i == tls.recvBuf[1][1]
           bytes == Plaintext(i)
<1>2. /\ tls' = [tls EXCEPT !.recvBuf = RestOf(tls.recvBuf, 2), !.plainBuf = RestOf(bytes, BufLen)]
      /\ plain' = [plain EXCEPT !.got = @ \o FirstFew(bytes, BufLen)]
      /\ pumpPc' \in {"reading", "top"} /\ pumpPc' = (IF bytes = <<>> THEN "reading" ELSE "top")
      /\ pumpPc = "reading" /\ Len(tls.recvBuf) >= 2 /\ peer' = peer /\ arrived' = arrived
  BY DEF Decrypt, WholeRecord, Extra, Stashed, Deliver
<1>3. 2 * d \in Nat /\ tls.recvBuf \in Seq(Unit) /\ plain.got \in Seq(Nat) /\ BufLen \in Nat \ {0}
  BY PumpAssumption DEF PumpTyped
<1>4. i = d + 1
  BY <1>1, <1>2, <1>3, NextRecord DEF Decrypted
<1> HIDE DEF i
<1>5. i \in 1 .. Len(Ends) /\ i <= peer.written /\ i - 1 = d
  <2>1. 2 * (d + 1) <= 2 * peer.written
    <3>1. 2 * d + Len(tls.recvBuf) + Len(arrived) + Len(peer.wire) = 2 * peer.written
      BY <1>1 DEF Decrypted
    <3> DEFINE a == Len(tls.recvBuf)
               b == Len(arrived)
               c == Len(peer.wire)
               done == peer.written
    <3>2. a \in Nat /\ b \in Nat /\ c \in Nat /\ done \in Nat /\ a >= 2 /\ 2 * d + a + b + c = 2 * done
      BY <1>2, <3>1, Lens
    <3> HIDE DEF a, b, c, done
    <3>3. 2 * (d + 1) <= 2 * done
      BY <3>2
    <3> QED
      BY <3>3 DEF done
  <2>2. peer.written <= Len(Ends)
    BY Lens DEF PumpTyped
  <2> QED
    BY <1>4, <2>1, <2>2, Lens
<1>6. /\ bytes \in Seq(Nat) /\ Counts(bytes, EndOf(d)) /\ EndOf(d) \in Nat
      /\ EndOf(d) + Len(bytes) = EndOf(i)
  BY <1>5, PlaintextCounts
<1> HIDE DEF bytes
<1>7. tls.plainBuf = <<>> /\ tls.sending = <<>> /\ Len(plain.got) = EndOf(d)
  <2>1. tls.plainBuf = <<>> /\ tls.sending = <<>>
    BY <1>2 DEF Emptied
  <2>2. Len(<<>>) = 0
    BY EmptySeq
  <2>3. Len(plain.got) + Len(tls.plainBuf) = EndOf(d)
    BY <1>1 DEF Decrypted
  <2> QED
    BY <2>1, <2>2, <2>3, Lens
<1> DEFINE few == FirstFew(bytes, BufLen)
           rest == RestOf(bytes, BufLen)
<1>8. /\ few \in Seq(Nat) /\ rest \in Seq(Nat) /\ Len(few) + Len(rest) = Len(bytes)
      /\ Counts(few, EndOf(d)) /\ Counts(rest, EndOf(d) + Len(few))
  BY <1>3, <1>6, Cut, CountsCut
<1>9. /\ tls'.recvBuf = RestOf(tls.recvBuf, 2) /\ tls'.plainBuf = rest
      /\ tls'.sending = tls.sending /\ tls'.connected = tls.connected
      /\ plain'.got = plain.got \o few /\ plain'.written = plain.written
      /\ plain'.unread = plain.unread /\ plain'.fin = plain.fin
  BY <1>2 DEF PumpTyped
<1>10. bytes = <<>> => rest = <<>>
  <2> SUFFICES ASSUME bytes = <<>> PROVE rest = <<>>
    OBVIOUS
  <2>1. Len(bytes) = 0 /\ Len(few) \in Nat /\ Len(rest) \in Nat
    BY <1>8, EmptySeq, LenProperties
  <2> QED
    BY <1>8, <2>1, EmptySeq
<1> HIDE DEF few, rest
<1>11. /\ Counts(plain.got \o few, 0) /\ plain.got \o few \in Seq(Nat)
       /\ Len(plain.got \o few) = Len(plain.got) + Len(few)
  <2>1. Counts(plain.got, 0) /\ 0 \in Nat /\ 0 + Len(plain.got) = EndOf(d)
    BY <1>1, <1>6, <1>7 DEF Decrypted
  <2>2. Counts(few, 0 + Len(plain.got))
    BY <1>8, <2>1
  <2> QED
    BY <1>3, <1>8, <2>1, <2>2, CountsJoin
<1>12. /\ Marks(RestOf(tls.recvBuf, 2), 2 * d + 2) /\ RestOf(tls.recvBuf, 2) \in Seq(Unit)
       /\ Len(RestOf(tls.recvBuf, 2)) + 2 = Len(tls.recvBuf)
  BY <1>1, <1>2, <1>3, MarksCut DEF Decrypted
<1>13. PumpTyped'
  <2>1. /\ tls' \in [connected : BOOLEAN, recvBuf : Seq(Unit), plainBuf : Seq(Nat), sending : Seq(Nat)]
        /\ plain' \in [written : 0 .. PlainBytes, unread : Seq(Nat), fin : BOOLEAN, got : Seq(Nat)]
    BY <1>2, <1>8, <1>11, <1>12 DEF PumpTyped, rest, few
  <2> QED
    BY <1>2, <2>1 DEF PumpTyped
<1>14. Decrypted(d + 1)'
  <2>1. 2 * i = 2 * d + 2 /\ 2 * i + Len(tls'.recvBuf) = 2 * d + Len(tls.recvBuf)
    <3>1. Len(RestOf(tls.recvBuf, 2)) \in Nat
      BY <1>12, LenProperties
    <3> DEFINE r == Len(RestOf(tls.recvBuf, 2))
               a == Len(tls.recvBuf)
    <3>2. r \in Nat /\ a \in Nat /\ r + 2 = a /\ i = d + 1
      BY <1>4, <1>12, <3>1, Lens
    <3> HIDE DEF r, a
    <3>3. 2 * i = 2 * d + 2 /\ 2 * i + r = 2 * d + a
      BY <3>2
    <3> QED
      BY <1>9, <3>3 DEF r, a
  <2>2. Len(plain'.got) = EndOf(d) + Len(few) /\ Len(plain'.got) + Len(tls'.plainBuf) = EndOf(i)
    <3>1. Len(few) \in Nat /\ Len(rest) \in Nat /\ Len(bytes) \in Nat
      BY <1>6, <1>8, LenProperties
    <3> QED
      BY <1>6, <1>7, <1>8, <1>9, <1>11, <3>1
  <2>3. Marks(tls'.recvBuf, 2 * i)
    BY <1>9, <1>12, <2>1
  <2>4. Counts(plain'.got, 0) /\ Counts(tls'.plainBuf, Len(plain'.got))
    BY <1>8, <1>9, <1>11, <2>2
  <2>5. /\ Marks(arrived', 2 * i + Len(tls'.recvBuf))
        /\ Marks(peer'.wire, 2 * i + Len(tls'.recvBuf) + Len(arrived'))
        /\ 2 * i + Len(tls'.recvBuf) + Len(arrived') + Len(peer'.wire) = 2 * peer'.written
    BY <1>1, <1>2, <2>1 DEF Decrypted
  <2>6. Decrypted(d + 1)' <=>
           /\ Counts(plain'.got, 0) /\ Counts(tls'.plainBuf, Len(plain'.got))
           /\ Len(plain'.got) + Len(tls'.plainBuf) = EndOf(d + 1)
           /\ Marks(tls'.recvBuf, 2 * (d + 1)) /\ Marks(arrived', 2 * (d + 1) + Len(tls'.recvBuf))
           /\ Marks(peer'.wire, 2 * (d + 1) + Len(tls'.recvBuf) + Len(arrived'))
           /\ 2 * (d + 1) + Len(tls'.recvBuf) + Len(arrived') + Len(peer'.wire) = 2 * peer'.written
    BY DEF Decrypted
  <2> QED
    BY <1>4, <2>2, <2>3, <2>4, <2>5, <2>6
<1>15. Encrypted'
  BY <1>2, <1>9 DEF Encrypted
<1>16. Emptied'
  BY <1>2, <1>7, <1>9, <1>10 DEF Emptied
<1>17. d + 1 \in Nat /\ d + 1 <= peer'.written
  BY <1>2, <1>4, <1>5
<1> QED
  BY <1>13, <1>14, <1>15, <1>16, <1>17
\* plainBuf is handed on before anything is read
LEMMA DrainPlainStep == PumpInv /\ DrainPlain => PumpInv'
<1> SUFFICES ASSUME PumpInv, DrainPlain PROVE PumpInv'
  OBVIOUS
<1> USE DEF PumpInv
<1>1. PICK d \in Nat : d <= peer.written /\ Decrypted(d)
  OBVIOUS
<1> DEFINE few == FirstFew(tls.plainBuf, BufLen)
           rest == RestOf(tls.plainBuf, BufLen)
<1>2. /\ tls' = [tls EXCEPT !.plainBuf = rest] /\ plain' = [plain EXCEPT !.got = @ \o few]
      /\ pumpPc = "top" /\ pumpPc' = pumpPc /\ peer' = peer /\ arrived' = arrived
  BY DEF DrainPlain, Deliver
<1>3. plain.got \in Seq(Nat) /\ tls.plainBuf \in Seq(Nat) /\ BufLen \in Nat /\ 0 \in Nat
  BY PumpAssumption DEF PumpTyped
<1>4. Counts(plain.got, 0) /\ Counts(tls.plainBuf, Len(plain.got)) /\ 0 + Len(plain.got) = Len(plain.got)
  BY <1>1, Lens DEF Decrypted
<1>5. /\ few \in Seq(Nat) /\ rest \in Seq(Nat) /\ Len(few) + Len(rest) = Len(tls.plainBuf)
      /\ Counts(few, Len(plain.got)) /\ Counts(rest, Len(plain.got) + Len(few))
  BY <1>3, <1>4, Lens, Cut, CountsCut
<1>6. /\ tls'.recvBuf = tls.recvBuf /\ tls'.plainBuf = rest /\ tls'.sending = tls.sending
      /\ plain'.got = plain.got \o few /\ plain'.written = plain.written /\ plain'.unread = plain.unread
  BY <1>2 DEF PumpTyped
<1> HIDE DEF few, rest
<1>7. /\ Counts(plain.got \o few, 0) /\ plain.got \o few \in Seq(Nat)
      /\ Len(plain.got \o few) = Len(plain.got) + Len(few)
  BY <1>3, <1>4, <1>5, CountsJoin
<1>8. PumpTyped'
  BY <1>2, <1>5, <1>7 DEF PumpTyped
<1>9. Len(plain'.got) + Len(tls'.plainBuf) = EndOf(d)
  <2> DEFINE g == Len(plain.got)
             a == Len(few)
             b == Len(rest)
  <2>1. g \in Nat /\ a \in Nat /\ b \in Nat /\ g + (a + b) = EndOf(d)
    BY <1>1, <1>5, Lens, LenProperties DEF Decrypted
  <2>2. Len(plain'.got) = g + a /\ Len(tls'.plainBuf) = b
    BY <1>6, <1>7
  <2> HIDE DEF g, a, b
  <2>3. g + a + b = g + (a + b)
    BY <2>1
  <2> QED
    BY <2>1, <2>2, <2>3
<1>10. Decrypted(d)'
  BY <1>1, <1>2, <1>5, <1>6, <1>7, <1>9 DEF Decrypted
<1>11. Encrypted' /\ Emptied'
  BY <1>2, <1>6 DEF Encrypted, Emptied
<1> QED
  BY <1>1, <1>2, <1>8, <1>10, <1>11

\* A record of what schannel_send holds goes to the peer
LEMMA SendRecordStep == PumpInv /\ SendRecord => PumpInv'
<1> SUFFICES ASSUME PumpInv, SendRecord PROVE PumpInv'
  OBVIOUS
<1> USE DEF PumpInv
<1>1. PICK d \in Nat : d <= peer.written /\ Decrypted(d)
  OBVIOUS
<1> DEFINE few == FirstFew(tls.sending, MaxMsg)
           rest == RestOf(tls.sending, MaxMsg)
<1>2. /\ tls' = [tls EXCEPT !.sending = rest] /\ peer' = [peer EXCEPT !.got = @ \o few]
      /\ pumpPc = "sending" /\ pumpPc' = (IF rest = <<>> THEN "second" ELSE "sending")
      /\ plain' = plain /\ arrived' = arrived
  BY DEF SendRecord
<1>3. peer.got \in Seq(Nat) /\ tls.sending \in Seq(Nat) /\ MaxMsg \in Nat /\ 0 \in Nat
  BY PumpAssumption DEF PumpTyped
<1>4. Counts(peer.got, 0) /\ Counts(tls.sending, Len(peer.got)) /\ 0 + Len(peer.got) = Len(peer.got)
  BY Lens DEF Encrypted
<1>5. /\ few \in Seq(Nat) /\ rest \in Seq(Nat) /\ Len(few) + Len(rest) = Len(tls.sending)
      /\ Counts(few, Len(peer.got)) /\ Counts(rest, Len(peer.got) + Len(few))
  BY <1>3, <1>4, Lens, Cut, CountsCut
<1>6. /\ tls'.recvBuf = tls.recvBuf /\ tls'.plainBuf = tls.plainBuf /\ tls'.sending = rest
      /\ peer'.got = peer.got \o few /\ peer'.written = peer.written /\ peer'.wire = peer.wire
  BY <1>2 DEF PumpTyped
<1> HIDE DEF few, rest
<1>7. /\ Counts(peer.got \o few, 0) /\ peer.got \o few \in Seq(Nat)
      /\ Len(peer.got \o few) = Len(peer.got) + Len(few)
  BY <1>3, <1>4, <1>5, CountsJoin
<1>8. PumpTyped'
  BY <1>2, <1>5, <1>7 DEF PumpTyped
<1>9. Len(peer'.got) + Len(tls'.sending) = Len(peer.got) + Len(tls.sending)
  <2> DEFINE g == Len(peer.got)
             a == Len(few)
             b == Len(rest)
  <2>1. g \in Nat /\ a \in Nat /\ b \in Nat /\ Len(tls.sending) = a + b
    BY <1>5, Lens, LenProperties
  <2>2. Len(peer'.got) = g + a /\ Len(tls'.sending) = b
    BY <1>6, <1>7
  <2> HIDE DEF a, b
  <2>3. g + a + b = g + (a + b)
    <3> HIDE DEF g
    <3> QED
      BY <2>1
  <2> QED
    BY <2>1, <2>2, <2>3
<1>10. Decrypted(d)'
  BY <1>1, <1>2, <1>6 DEF Decrypted
<1>11. Encrypted'
  BY <1>2, <1>5, <1>6, <1>7, <1>9 DEF Encrypted
<1>12. Emptied'
  BY <1>2, <1>6 DEF Emptied
<1> QED
  BY <1>1, <1>2, <1>6, <1>8, <1>10, <1>11, <1>12

\* What recv returned of the plain socket is given to schannel_send
LEMMA PumpPlainStep == PumpInv /\ PumpPlain => PumpInv'
<1> SUFFICES ASSUME PumpInv, PumpPlain PROVE PumpInv'
  OBVIOUS
<1> USE DEF PumpInv
<1>1. PICK d \in Nat : d <= peer.written /\ Decrypted(d)
  OBVIOUS
<1>2. pumpPc = "first" /\ peer' = peer /\ arrived' = arrived /\ tls.plainBuf = <<>> /\ tls.sending = <<>>
  BY DEF PumpPlain, Emptied
<1>3. CASE plain.unread = <<>>
  <2>1. pumpPc' = "closed" /\ tls' = tls /\ plain' = plain
    BY <1>3 DEF PumpPlain
  <2>2. PumpTyped' /\ Decrypted(d)' /\ Encrypted' /\ Emptied'
    BY <1>1, <1>2, <2>1 DEF PumpTyped, Decrypted, Encrypted, Emptied
  <2> QED
    BY <1>1, <1>2, <2>2
<1>4. CASE plain.unread # <<>>
  <2> DEFINE few == FirstFew(plain.unread, BufLen)
             rest == RestOf(plain.unread, BufLen)
  <2>1. /\ tls' = [tls EXCEPT !.sending = few] /\ plain' = [plain EXCEPT !.unread = rest]
        /\ pumpPc' = "sending"
    BY <1>4 DEF PumpPlain
  <2>2. plain.unread \in Seq(Nat) /\ BufLen \in Nat
    BY PumpAssumption DEF PumpTyped
  <2>3. /\ Len(peer.got) + Len(tls.sending) = Len(peer.got) /\ Counts(peer.got, 0)
        /\ Counts(plain.unread, Len(peer.got)) /\ Len(peer.got) + Len(plain.unread) = plain.written
    <3>1. Len(peer.got) + Len(tls.sending) = Len(peer.got)
      BY <1>2, Lens, EmptySeq
    <3> QED
      BY <1>2, <3>1 DEF Encrypted
  <2>4. /\ few \in Seq(Nat) /\ rest \in Seq(Nat) /\ Len(few) + Len(rest) = Len(plain.unread)
        /\ Counts(few, Len(peer.got)) /\ Counts(rest, Len(peer.got) + Len(few))
    BY <2>2, <2>3, Lens, Cut, CountsCut
  <2>5. /\ tls'.recvBuf = tls.recvBuf /\ tls'.plainBuf = tls.plainBuf /\ tls'.sending = few
        /\ plain'.got = plain.got /\ plain'.written = plain.written /\ plain'.unread = rest
    BY <2>1 DEF PumpTyped
  <2> HIDE DEF few, rest
  <2>6. PumpTyped'
    BY <1>2, <2>1, <2>4 DEF PumpTyped
  <2>7. Len(peer.got) + Len(few) + Len(rest) = plain.written
    <3> DEFINE g == Len(peer.got)
               a == Len(few)
               b == Len(rest)
    <3>1. g \in Nat /\ a \in Nat /\ b \in Nat /\ g + (a + b) = plain.written
      BY <2>3, <2>4, Lens, LenProperties
    <3> HIDE DEF g, a, b
    <3>2. g + a + b = g + (a + b)
      BY <3>1
    <3> QED
      BY <3>1, <3>2 DEF g, a, b
  <2>8. Decrypted(d)'
    BY <1>1, <1>2, <2>5 DEF Decrypted
  <2>9. Encrypted'
    BY <1>2, <2>3, <2>4, <2>5, <2>7 DEF Encrypted
  <2>10. Emptied'
    BY <1>2, <2>1, <2>5 DEF Emptied
  <2> QED
    BY <1>1, <1>2, <2>6, <2>8, <2>9, <2>10
<1> QED
  BY <1>3, <1>4

\* The peer writes its next record
LEMMA PeerWritesStep == PumpInv /\ PeerWrites => PumpInv'
<1> SUFFICES ASSUME PumpInv, PeerWrites PROVE PumpInv'
  OBVIOUS
<1> USE DEF PumpInv
<1>1. PICK d \in Nat : d <= peer.written /\ Decrypted(d)
  OBVIOUS
<1> DEFINE done == peer.written
           u == Units(done + 1)
<1>2. /\ peer' = [peer EXCEPT !.written = @ + 1, !.wire = @ \o u] /\ done < Len(Ends)
      /\ tls' = tls /\ arrived' = arrived /\ plain' = plain /\ pumpPc' = pumpPc
  BY DEF PeerWrites
<1>3. done \in Nat /\ done + 1 \in 0 .. Len(Ends) /\ d <= done + 1 /\ 2 * (done + 1) = 2 * done + 2 /\ peer.wire \in Seq(Unit)
  BY <1>1, <1>2, Lens, SMTT(40) DEF PumpTyped
<1>4. u \in Seq(Unit) /\ Len(u) = 2 /\ Marks(u, 2 * done)
  BY <1>3, UnitsMarks
<1>5. peer'.written = done + 1 /\ peer'.wire = peer.wire \o u /\ peer'.got = peer.got
  BY <1>2 DEF PumpTyped
<1> DEFINE n == 2 * d + Len(tls.recvBuf) + Len(arrived)
<1>6. n \in Nat /\ Marks(peer.wire, n) /\ n + Len(peer.wire) = 2 * done
  <2>1. n \in Nat
    <3>1. 2 * d \in Nat /\ Len(tls.recvBuf) \in Nat /\ Len(arrived) \in Nat
      BY Lens
    <3>2. \A x, y, z \in Nat : x + y + z \in Nat
      OBVIOUS
    <3> QED
      BY <3>1, <3>2
  <2>2. Marks(peer.wire, n) /\ n + Len(peer.wire) = 2 * done
    BY <1>1 DEF Decrypted
  <2> QED
    BY <2>1, <2>2
<1> HIDE DEF u, n
<1>7. /\ Marks(peer.wire \o u, n) /\ peer.wire \o u \in Seq(Unit)
      /\ Len(peer.wire \o u) = Len(peer.wire) + 2
  BY <1>3, <1>4, <1>6, MarksJoin
<1>8. n + (Len(peer.wire) + 2) = 2 * (done + 1)
  <2> DEFINE a == Len(peer.wire)
             b == 2 * done
  <2>1. a \in Nat /\ n \in Nat /\ n + a = b /\ 2 * (done + 1) = b + 2
    BY <1>3, <1>6, Lens
  <2> HIDE DEF a, b
  <2>2. n + (a + 2) = b + 2
    BY <2>1
  <2> QED
    BY <2>1, <2>2 DEF a
<1>9. PumpTyped'
  BY <1>2, <1>3, <1>7 DEF PumpTyped
<1>10. Decrypted(d)'
  BY <1>1, <1>2, <1>5, <1>7, <1>8 DEF Decrypted, n
<1>11. Encrypted' /\ Emptied'
  BY <1>2, <1>5 DEF Encrypted, Emptied
<1> QED
  BY <1>3, <1>5, <1>9, <1>10, <1>11

\* A segment of one unit arrives
LEMMA SegmentArrivesStep == PumpInv /\ SegmentArrives => PumpInv'
<1> SUFFICES ASSUME PumpInv, SegmentArrives PROVE PumpInv'
  OBVIOUS
<1> USE DEF PumpInv
<1>1. PICK d \in Nat : d <= peer.written /\ Decrypted(d)
  OBVIOUS
<1>2. /\ peer' = [peer EXCEPT !.wire = Tail(peer.wire)] /\ arrived' = Append(arrived, Head(peer.wire))
      /\ peer.wire # <<>> /\ tls' = tls /\ plain' = plain /\ pumpPc' = pumpPc
  BY DEF SegmentArrives
<1>3. peer'.written = peer.written /\ peer'.wire = Tail(peer.wire) /\ peer'.got = peer.got
  BY <1>2 DEF PumpTyped
<1> DEFINE n == 2 * d + Len(tls.recvBuf)
<1>4. /\ n \in Nat /\ arrived \in Seq(Unit) /\ peer.wire \in Seq(Unit)
      /\ Marks(arrived, n) /\ Marks(peer.wire, n + Len(arrived))
      /\ n + Len(arrived) + Len(peer.wire) = 2 * peer.written
  BY <1>1, Lens DEF Decrypted, PumpTyped
<1> HIDE DEF n
<1>5. /\ Append(arrived, Head(peer.wire)) \in Seq(Unit) /\ Len(Append(arrived, Head(peer.wire))) = Len(arrived) + 1
      /\ Tail(peer.wire) \in Seq(Unit) /\ Len(Tail(peer.wire)) + 1 = Len(peer.wire)
      /\ Marks(Append(arrived, Head(peer.wire)), n) /\ Marks(Tail(peer.wire), n + Len(arrived) + 1)
  BY <1>2, <1>4, MarksMove
<1>6. PumpTyped'
  BY <1>2, <1>5 DEF PumpTyped
<1>7. n + (Len(arrived) + 1) = n + Len(arrived) + 1 /\ n + Len(arrived) + 1 + Len(Tail(peer.wire)) = 2 * peer.written
  <2> DEFINE a == Len(arrived)
             b == Len(Tail(peer.wire))
             c == 2 * peer.written
             e == Len(peer.wire)
  <2>1. n \in Nat /\ a \in Nat /\ b \in Nat /\ b + 1 = e /\ n + a + e = c
    BY <1>4, <1>5, LenProperties
  <2> HIDE DEF a, b, c, e
  <2>2. n + (a + 1) = n + a + 1 /\ n + a + 1 + b = c
    BY <2>1
  <2> QED
    BY <2>2 DEF a, b, c
<1>8. Decrypted(d)'
  BY <1>1, <1>2, <1>3, <1>5, <1>7 DEF Decrypted, n
<1>9. Encrypted' /\ Emptied'
  BY <1>2, <1>3 DEF Encrypted, Emptied
<1> QED
  BY <1>1, <1>3, <1>6, <1>8, <1>9

\* The plain side writes a byte
LEMMA PlainWritesStep == PumpInv /\ PlainWrites => PumpInv'
<1> SUFFICES ASSUME PumpInv, PlainWrites PROVE PumpInv'
  OBVIOUS
<1> USE DEF PumpInv
<1>1. PICK d \in Nat : d <= peer.written /\ Decrypted(d)
  OBVIOUS
<1> DEFINE done == plain.written
           more == Append(plain.unread, done + 1)
<1>2. /\ plain' = [plain EXCEPT !.written = @ + 1, !.unread = more] /\ done < PlainBytes
      /\ tls' = tls /\ arrived' = arrived /\ peer' = peer /\ pumpPc' = pumpPc
  BY DEF PlainWrites
<1>3. done + 1 \in 0 .. PlainBytes /\ done + 1 \in Nat /\ plain.unread \in Seq(Nat)
  BY <1>2, Lens, PumpAssumption, SMTT(40) DEF PumpTyped
<1>4. plain'.written = done + 1 /\ plain'.unread = more /\ plain'.got = plain.got
  BY <1>2 DEF PumpTyped
<1>5. more \in Seq(Nat) /\ Len(more) = Len(plain.unread) + 1
  BY <1>3, AppendProperties
<1>6. PumpTyped'
  <2> HIDE DEF more
  <2> QED
    BY <1>2, <1>3, <1>5 DEF PumpTyped
<1>7. Decrypted(d)' /\ Emptied'
  BY <1>1, <1>2, <1>4 DEF Decrypted, Emptied
<1> DEFINE n == Len(peer.got) + Len(tls.sending)
<1>8. ASSUME pumpPc # "closed" PROVE Counts(more, n) /\ n + Len(more) = done + 1
  <2>1. n \in Nat /\ Counts(plain.unread, n) /\ n + Len(plain.unread) = done
    <3>1. n \in Nat
      <4>1. Len(peer.got) \in Nat /\ Len(tls.sending) \in Nat
        BY Lens
      <4>2. \A x, y \in Nat : x + y \in Nat
        OBVIOUS
      <4> QED
        BY <4>1, <4>2
    <3>2. Counts(plain.unread, n) /\ n + Len(plain.unread) = done
      BY <1>8 DEF Encrypted
    <3> QED
      BY <3>1, <3>2
  <2> HIDE DEF n
  <2>2. Append(plain.unread, n + Len(plain.unread) + 1) = more
    BY <2>1
  <2>3. Counts(more, n)
    BY <1>3, <2>1, <2>2, CountsAppend
  <2>4. n + (Len(plain.unread) + 1) = n + Len(plain.unread) + 1
    BY <2>1, Lens
  <2> QED
    BY <1>5, <2>1, <2>3, <2>4
<1>9. Encrypted'
  <2> HIDE DEF more
  <2> QED
    BY <1>2, <1>4, <1>8 DEF Encrypted
<1> QED
  BY <1>1, <1>2, <1>6, <1>7, <1>9

\* The steps that move no byte
LEMMA PumpMovesOn ==
    PumpInv /\ (\/ ReadEof \/ LoopEnds \/ SelectSockets \/ SelectTimeout \/ SkipPlain \/ SendFails
                \/ ServeTls \/ TlsPeerCloses \/ PlainCloses \/ StopServer \/ UNCHANGED pumpVars) => PumpInv'
<1> SUFFICES ASSUME PumpInv,
                    \/ ReadEof \/ LoopEnds \/ SelectSockets \/ SelectTimeout \/ SkipPlain \/ SendFails
                    \/ ServeTls \/ TlsPeerCloses \/ PlainCloses \/ StopServer \/ UNCHANGED pumpVars
             PROVE  PumpInv'
  OBVIOUS
<1> USE DEF PumpInv
<1>1. PICK d \in Nat : d <= peer.written /\ Decrypted(d)
  OBVIOUS
<1>2. /\ tls' = tls \/ tls' = [tls EXCEPT !.connected = FALSE]
      /\ peer' = peer \/ peer' = [peer EXCEPT !.fin = TRUE]
      /\ plain' = plain \/ plain' = [plain EXCEPT !.fin = TRUE]
      /\ arrived' = arrived
  BY DEF ReadEof, LoopEnds, SelectSockets, SelectTimeout, SkipPlain, SendFails, ServeTls,
         TlsPeerCloses, PlainCloses, StopServer, pumpVars
<1>3. \/ pumpPc' = pumpPc \/ pumpPc' = "closed"
      \/ pumpPc = "top" /\ pumpPc' = "first" /\ tls.plainBuf = <<>>
      \/ pumpPc = "first" /\ pumpPc' = "second"
      \/ pumpPc = "second" /\ pumpPc' \in {"reading", "top"}
  BY DEF ReadEof, LoopEnds, SelectSockets, SelectTimeout, SkipPlain, SendFails, ServeTls,
         TlsPeerCloses, PlainCloses, StopServer, pumpVars
<1>4. /\ tls'.recvBuf = tls.recvBuf /\ tls'.plainBuf = tls.plainBuf /\ tls'.sending = tls.sending
      /\ peer'.written = peer.written /\ peer'.wire = peer.wire /\ peer'.got = peer.got
      /\ plain'.written = plain.written /\ plain'.unread = plain.unread /\ plain'.got = plain.got
  BY <1>2 DEF PumpTyped
<1>5. PumpTyped'
  BY <1>2, <1>3 DEF PumpTyped
<1>6. Decrypted(d)'
  BY <1>1, <1>2, <1>4 DEF Decrypted
<1>7. Encrypted'
  BY <1>3, <1>4 DEF Encrypted
<1>8. Emptied'
  BY <1>3, <1>4 DEF Emptied
<1> QED
  BY <1>1, <1>4, <1>5, <1>6, <1>7, <1>8

\* Where records end does not decrease with their number
LEMMA EndsGrow ==
    ASSUME NEW i \in 0 .. Len(Ends), NEW j \in 0 .. Len(Ends), i <= j
    PROVE  EndOf(i) <= EndOf(j)
<1>1. Ends \in Seq(Nat) /\ \A pos, l \in 1 .. Len(Ends) : pos <= l => Ends[pos] <= Ends[l]
  BY PumpAssumption
<1>2. Len(Ends) \in Nat /\ \A pos \in 1 .. Len(Ends) : Ends[pos] \in Nat
  BY <1>1, LenProperties, ElementOfSeq
<1>3. CASE i = 0 /\ j = 0
  BY <1>3 DEF EndOf
<1>4. CASE i = 0 /\ j # 0
  <2>1. j \in 1 .. Len(Ends)
    BY <1>2, <1>4
  <2> QED
    BY <1>2, <1>4, <2>1 DEF EndOf
<1>5. CASE i # 0
  <2>1. i \in 1 .. Len(Ends) /\ j \in 1 .. Len(Ends) /\ j # 0
    BY <1>2, <1>5
  <2> QED
    BY <1>1, <1>5, <2>1 DEF EndOf
<1> QED
  BY <1>3, <1>4, <1>5

LEMMA PumpInductive == PumpInv /\ [PumpNext]_pumpVars => PumpInv'
  BY ReadSocketStep, DecryptStep, DrainPlainStep, SendRecordStep, PumpPlainStep, PeerWritesStep,
     SegmentArrivesStep, PlainWritesStep, PumpMovesOn
  DEF PumpNext, PumpWorker, PumpTraffic, PumpDone

\* The pump relays every byte once and in order, whatever the number and sizes of
\* the peer's records, the size of cbMaximumMessage and of the caller's buffer, and
\* however the halves of records fall into TCP segments: schannel_recv,
\* schannel_send and the loops of mqtt_client_worker, stream_client_worker and
\* reverse_client_worker give each side a prefix of what the other wrote.
THEOREM PumpInOrder == PumpSpec => []InOrder
<1>1. PumpInit => PumpInv
  BY PumpInitial
<1>2. PumpInv /\ [PumpNext]_pumpVars => PumpInv'
  BY PumpInductive
<1>3. PumpInv => InOrder
  <2> SUFFICES ASSUME PumpInv PROVE InOrder
    OBVIOUS
  <2>1. PICK d \in Nat : d <= peer.written /\ Decrypted(d)
    BY DEF PumpInv
  <2>2. PumpTyped
    BY DEF PumpInv
  <2>3. ASSUME NEW q \in Seq(Nat), Counts(q, 0) PROVE q = [pos \in 1 .. Len(q) |-> pos]
    <3>1. Len(q) \in Nat /\ q \in [1 .. Len(q) -> Nat]
      BY LenProperties
    <3>2. \A pos \in 1 .. Len(q) : q[pos] = pos
      BY <2>3, <3>1 DEF Counts
    <3> QED
      BY <3>1, <3>2
  <2>4. plain.got \in Seq(Nat) /\ peer.got \in Seq(Nat)
    BY <2>2 DEF PumpTyped
  <2>5. Counts(plain.got, 0) /\ Counts(peer.got, 0) /\ Len(plain.got) + Len(tls.plainBuf) = EndOf(d)
    BY <2>1 DEF PumpInv, Decrypted, Encrypted
  <2>6. d \in 0 .. Len(Ends) /\ peer.written \in 0 .. Len(Ends)
    BY <2>1, <2>2, Lens DEF PumpTyped
  <2>7. EndOf(d) <= EndOf(peer.written)
    BY <2>1, <2>6, EndsGrow
  <2>8. /\ plain.got = [pos \in 1 .. Len(plain.got) |-> pos]
        /\ peer.got = [pos \in 1 .. Len(peer.got) |-> pos]
    BY <2>3, <2>4, <2>5
  <2> QED
    BY <2>5, <2>7, <2>8 DEF InOrder
<1> QED
  BY <1>1, <1>2, <1>3, PTL DEF PumpSpec

\* The pump keeps its types, and a loop that has ended has one reason for it: every
\* break of the three loops closes both sides once.
THEOREM PumpTypes == PumpSpec => []PumpTypeOK
<1> DEFINE Why ==
        /\ loop \in Loops
        /\ pumpReady \subseteq {"tls", "plain"}
        /\ why \in {"none", "tls", "plain", "stop", "timeout"}
        /\ (why = "none") = (pumpPc # "closed")
<1>1. PumpInit => PumpInv /\ Why
  BY PumpInitial DEF PumpInit
<1>2. PumpInv /\ Why /\ [PumpNext]_pumpVars => PumpInv' /\ Why'
  <2> SUFFICES ASSUME PumpInv, Why, [PumpNext]_pumpVars PROVE PumpInv' /\ Why'
    OBVIOUS
  <2>1. PumpInv'
    BY PumpInductive
  <2>2. CASE \/ ReadSocket \/ DrainPlain \/ PumpTraffic \/ SegmentArrives \/ StopServer
             \/ PumpDone \/ UNCHANGED pumpVars
    BY <2>1, <2>2 DEF ReadSocket, DrainPlain, PumpTraffic, PeerWrites, TlsPeerCloses, PlainWrites,
                PlainCloses, SegmentArrives, StopServer, PumpDone, pumpVars
  <2>3. CASE ReadEof \/ LoopEnds \/ SendFails \/ SelectTimeout
    BY <2>1, <2>3 DEF ReadEof, LoopEnds, SendFails, SelectTimeout
  <2>4. CASE Decrypt \/ SkipPlain \/ SendRecord \/ ServeTls
    <3>1. /\ pumpPc # "closed" /\ pumpPc' \in {"second", "sending", "reading", "top"}
          /\ UNCHANGED <<loop, pumpReady, why>>
      BY <2>4 DEF Decrypt, SkipPlain, SendRecord, ServeTls
    <3> QED
      BY <2>1, <3>1
  <2>5. CASE SelectSockets
    BY <2>1, <2>5 DEF SelectSockets, Selected
  <2>6. CASE PumpPlain
    BY <2>1, <2>6 DEF PumpPlain
  <2> QED
    BY <2>1, <2>2, <2>3, <2>4, <2>5, <2>6 DEF PumpNext, PumpWorker
<1>3. PumpInv /\ Why => PumpTypeOK
  BY DEF PumpInv, PumpTyped, PumpTypeOK
<1> QED
  BY <1>1, <1>2, <1>3, PTL DEF PumpSpec

=============================================================================
