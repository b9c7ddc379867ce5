------------------------ MODULE VertexDomainRecords -------------------------
(***************************************************************************)
(* What the invariant of VertexDomainProofs gives for the DNS records, for *)
(* any number of Pods, addresses, claims and faults: the address of a      *)
(* record was published for the Pod that exists now (VertexDomain) and is  *)
(* reserved for it (AddressReuse), live Pods stay registered, and the      *)
(* reconciler implements the registry of DnsRegistry.                      *)
(***************************************************************************)
EXTENDS AddressReuse, VertexDomainProofs

-----------------------------------------------------------------------------
(* Steps of the API server's Pods *)

\* What one step does to the Pod under a name: it stays and is not undeleted, it
\* goes, or a new one with the next uid takes a free name.
PodStep(p) ==
  \/ /\ uids'[p] = uids[p] /\ published[p] \subseteq published'[p]
     /\ \/ Api(p)'.uid = Api(p).uid /\ (Api(p).dt => Api(p)'.dt)
        \/ Api(p)'.uid = 0
  \/ /\ Api(p).uid = 0
     /\ uids'[p] = uids[p] + 1 /\ Api(p)'.uid = uids'[p] /\ published'[p] = {}

\* The Pod that a write leaves is the one written, or none.
LEMMA StoredFacts ==
  ASSUME NEW s \in Snapshot
  PROVE  Stored(s) \in Snapshot /\ (Stored(s) = s \/ Stored(s).uid = 0)
  BY SnapshotTypes DEF Stored, NoPod

\* A write of a state that continues the Pod is a step of that Pod only.
LEMMA WritePodStep ==
  ASSUME TypeOK, NEW q \in Pods, NEW s \in Snapshot, Write(q, Stored(s)),
         s.uid = Api(q).uid, Api(q).dt => s.dt, UNCHANGED <<uids, published>>
  PROVE  \A p \in Pods : PodStep(p)
<1>1. Stored(s) \in Snapshot /\ (Stored(s) = s \/ Stored(s).uid = 0)
  BY StoredFacts
<1>2. Api(q)' = Stored(s) /\ \A p \in Pods \ {q} : Api(p)' = Api(p)
  BY <1>1, WriteFacts
<1> QED
  BY <1>1, <1>2 DEF PodStep

\* Every step of the manager and its surroundings is a step of every Pod.
LEMMA NextPodStep ==
  ASSUME IInv, Next
  PROVE  \A p \in Pods : PodStep(p)
<1>1. TypeOK /\ \A p \in Pods : Api(p) \in Snapshot
  BY Elements DEF IInv
<1>2. ASSUME \A p \in Pods : Api(p)' = Api(p), uids' = uids,
             \A p \in Pods : published[p] \subseteq published'[p]
      PROVE  \A p \in Pods : PodStep(p)
  BY <1>2 DEF PodStep
<1>3. ASSUME hist' = hist PROVE \A p \in Pods : Api(p)' = Api(p)
  BY <1>3 DEF Api
<1>4. ASSUME NEW s \in Snapshot, ~s.dt \/ ~s.over \/ s.fin
      PROVE  Stored(s) = s
  BY <1>4 DEF Stored
<1>5. CASE AddFinalizer
  <2> DEFINE s == [w.obj EXCEPT !.fin = TRUE]
  <2>1. /\ w.pod \in Pods /\ w.obj \in PodState /\ Api(w.pod) = w.obj /\ Write(w.pod, s)
        /\ UNCHANGED <<uids, published>>
    BY <1>1, <1>5 DEF AddFinalizer, TypeOK
  <2>2. s \in Snapshot /\ s.uid = w.obj.uid /\ s.dt = w.obj.dt /\ s.fin
    BY <2>1 DEF PodState, Snapshot
  <2> HIDE DEF s
  <2>3. Stored(s) = s
    BY <1>4, <2>2
  <2> QED
    BY <1>1, <2>1, <2>2, <2>3, WritePodStep
<1>6. CASE RemoveFinalizer
  <2> DEFINE s == [w.obj EXCEPT !.fin = FALSE]
  <2>1. /\ w.pod \in Pods /\ w.obj \in PodState /\ Api(w.pod) = w.obj /\ Write(w.pod, Stored(s))
        /\ UNCHANGED <<uids, published>>
    BY <1>1, <1>6 DEF RemoveFinalizer, TypeOK
  <2>2. s \in Snapshot /\ s.uid = w.obj.uid /\ s.dt = w.obj.dt
    BY <2>1 DEF PodState, Snapshot
  <2> HIDE DEF s
  <2> QED
    BY <1>1, <2>1, <2>2, WritePodStep
<1>7. ASSUME NEW q \in Pods, NEW i \in 1..NumClaims, BindClaim(q, i)
      PROVE  \A p \in Pods : PodStep(p)
  <2> DEFINE s == [Api(q) EXCEPT !.bound = @ \cup {i}]
  <2>1. /\ Api(q) \in PodState /\ ~Api(q).dt /\ Write(q, s) /\ UNCHANGED <<uids, published>>
    BY <1>1, <1>7, SnapshotTypes DEF BindClaim
  <2>2. s \in Snapshot /\ s.uid = Api(q).uid /\ s.dt = Api(q).dt
    BY <2>1 DEF PodState, Snapshot
  <2> HIDE DEF s
  <2>3. Stored(s) = s
    BY <1>4, <2>1, <2>2
  <2> QED
    BY <1>1, <2>1, <2>2, <2>3, WritePodStep
<1>8. ASSUME NEW q \in Pods, NEW over \in BOOLEAN, DeletePod(q, over)
      PROVE  \A p \in Pods : PodStep(p)
  <2> DEFINE s == [Api(q) EXCEPT !.dt = TRUE, !.over = over]
  <2>1. Api(q) \in PodState /\ Write(q, Stored(s)) /\ UNCHANGED <<uids, published>>
    BY <1>1, <1>8, SnapshotTypes DEF DeletePod
  <2>2. s \in Snapshot /\ s.uid = Api(q).uid /\ s.dt
    BY <2>1 DEF PodState, Snapshot
  <2> HIDE DEF s
  <2> QED
    BY <1>1, <2>1, <2>2, WritePodStep
<1>9. ASSUME NEW q \in Pods, KubeletDone(q)
      PROVE  \A p \in Pods : PodStep(p)
  <2> DEFINE s == [Api(q) EXCEPT !.over = TRUE]
  <2>1. Api(q) \in PodState /\ Write(q, Stored(s)) /\ UNCHANGED <<uids, published>>
    BY <1>1, <1>9, SnapshotTypes DEF KubeletDone
  <2>2. s \in Snapshot /\ s.uid = Api(q).uid /\ s.dt = Api(q).dt
    BY <2>1 DEF PodState, Snapshot
  <2> HIDE DEF s
  <2> QED
    BY <1>1, <2>1, <2>2, WritePodStep
<1>10. ASSUME NEW q \in Pods, NEW t \in Templates, CreatePod(q, t)
       PROVE  \A p \in Pods : PodStep(p)
  <2> DEFINE s == [NoPod EXCEPT !.uid = uids[q] + 1, !.label = t.label, !.fqdn = t.fqdn]
  <2>1. /\ Write(q, s) /\ Api(q).uid = 0 /\ uids[q] \in Nat /\ uids[q] + 1 \in 1..MaxIncarnations
        /\ \A p \in Pods \ {q} : uids'[p] = uids[p] /\ published'[p] = published[p]
        /\ uids'[q] = uids[q] + 1 /\ published'[q] = {}
    BY <1>1, <1>10, ConstantsAssumption DEF CreatePod, TypeOK
  <2>2. t.label \in BOOLEAN /\ t.fqdn \in FQDNs \cup {None}
    BY ConstantsAssumption
  <2>3. s \in Snapshot /\ s.uid = uids[q] + 1
    BY <2>1, <2>2 DEF NoPod, PodState, Snapshot
  <2> HIDE DEF s
  <2>4. Api(q)' = s /\ \A p \in Pods \ {q} : Api(p)' = Api(p)
    BY <1>1, <2>1, <2>3, WriteFacts
  <2> QED
    BY <2>1, <2>3, <2>4 DEF PodStep
<1>11. ASSUME NEW q \in Pods, Deliver(q)
       PROVE  \A p \in Pods : PodStep(p)
  <2>1. /\ Len(hist[q]) > 1 /\ hist' = [hist EXCEPT ![q] = Tail(@)]
        /\ UNCHANGED <<uids, published>>
    BY <1>11 DEF Deliver
  <2>2. \A p \in Pods : Api(p)' = Api(p)
    BY <1>1, <2>1, DeliverFacts
  <2> QED
    BY <1>2, <2>1, <2>2
<1>12. CASE Restart \/ \E q \in Pods : Relist(q)
  <2>1. TypeOK' /\ UNCHANGED <<uids, published>>
    <3>1. TypeOK'
      BY <1>1, ClusterType, WorkerStepType
    <3> QED
      BY <1>12, <3>1 DEF Restart, Relist
  <2>2. ASSUME NEW p \in Pods PROVE hist'[p] = hist[p] \/ hist'[p] = <<Api(p)>>
    BY <1>1, <1>12 DEF Restart, Relist, TypeOK
  <2>3. ASSUME NEW p \in Pods PROVE Api(p)' = Api(p)
    <3>1. CASE hist'[p] = hist[p]
      BY <3>1 DEF Api
    <3>2. CASE hist'[p] = <<Api(p)>>
      BY <1>1, <2>1, <3>2, RelistFacts DEF TypeOK
    <3> QED
      BY <2>2, <3>1, <3>2
  <2> QED
    BY <1>2, <2>1, <2>3
<1>13. ASSUME NEW q \in Pods, NEW i \in 1..NumClaims, NEW ip \in IPs, PublishIP(q, i, ip)
       PROVE  \A p \in Pods : PodStep(p)
  BY <1>1, <1>2, <1>3, <1>13 DEF PublishIP, TypeOK
<1>14. CASE \/ ExtractIP \/ Put \/ Delete \/ CallFails \/ WipeStore
            \/ \E q \in Pods : Dequeue(q) \/ Resync(q)
            \/ \E c \in Claims : DeliverClaim(c)
  <2>1. UNCHANGED <<hist, uids, published>>
    BY <1>14, ZenonT(60) DEF ExtractIP, Put, Delete, CallFails, WipeStore, Dequeue, Resync,
         DeliverClaim
  <2> QED
    BY <1>2, <1>3, <2>1
<1> QED
  BY <1>5, <1>6, <1>7, <1>8, <1>9, <1>10, <1>11, <1>12, <1>13, <1>14 DEF Next, WorkerStep

-----------------------------------------------------------------------------
(* Records are their own Pod's *)

\* An address in claim c is an earlier Pod's, or was published for the newest,
\* whose uid is u[c[1]] and whose published addresses are pub[c[1]].
Known(c, ip, u, pub) ==
  \/ ip = None
  \/ c[2] < u[c[1]]
  \/ c[2] = u[c[1]] /\ ip \in pub[c[1]]

\* The Pod under a name is the newest one; every claim, cached or not, and every
\* address that the worker is about to write, is known.
OwnInv ==
  /\ \A p \in Pods : Api(p).uid \in {0, uids[p]}
  /\ \A c \in Claims : /\ Known(c, claims[c], uids, published)
                       /\ Known(c, claimCache[c], uids, published)
  /\ w.pc = "put" => w.ip \in published[w.pod]
  /\ RecordIsOwn

\* What is known stays known: a new Pod only makes more addresses an earlier one's.
LEMMA KnownStays ==
  ASSUME TypeOK, NEW c \in Claims, PodStep(c[1]), NEW ip, Known(c, ip, uids, published)
  PROVE  Known(c, ip, uids', published')
<1>1. c[1] \in Pods /\ c[2] \in Nat /\ uids[c[1]] \in Nat
  BY ConstantsAssumption DEF Claims, TypeOK
<1> QED
  BY <1>1 DEF PodStep, Known

\* A name whose Pod holds the finalizer is not free for a new Pod.
LEMMA HeldName ==
  ASSUME IInv, NEW p \in Pods, PodStep(p), Api(p).fin
  PROVE  published[p] \subseteq published'[p]
<1>1. Api(p).uid # 0
  BY Elements, SnapshotTypes, ConstantsAssumption DEF IInv
<1> QED
  BY <1>1 DEF PodStep

\* A step preserves the invariant.
LEMMA OwnStep ==
  ASSUME IInv, OwnInv, Next
  PROVE  OwnInv'
<1>1. TypeOK /\ TypeOK' /\ \A p \in Pods : PodStep(p)
  BY NextPodStep, WorkerStepType, ClusterType DEF IInv
<1>2. ASSUME NEW p \in Pods PROVE Api(p)'.uid \in {0, uids'[p]}
  BY <1>1 DEF PodStep, OwnInv
<1>4. ASSUME NEW q \in Pods, NEW i \in 1..NumClaims, NEW ip \in IPs, PublishIP(q, i, ip),
             NEW c \in Claims
      PROVE  Known(c, claims'[c], uids', published')
  <2>1. /\ i \in Api(q).bound /\ ip \in published'[q] /\ uids' = uids
        /\ c = <<q, Api(q).uid, i>> => claims'[c] = ip
        /\ c # <<q, Api(q).uid, i>> => claims'[c] = claims[c]
    BY <1>1, <1>4 DEF PublishIP, TypeOK
  <2>2. Api(q).uid = uids[q]
    <3>1. Api(q) \in Snapshot /\ Api(q).bound # {}
      BY <1>1, <2>1, Elements
    <3>2. Api(q).uid # 0
      BY <3>1, SnapshotTypes, ConstantsAssumption
    <3> QED
      BY <3>2 DEF OwnInv
  <2>3. CASE c = <<q, Api(q).uid, i>>
    BY <2>1, <2>2, <2>3 DEF Known
  <2>4. CASE c # <<q, Api(q).uid, i>>
    <3>1. Known(c, claims[c], uids, published) /\ c[1] \in Pods
      BY SMTT(30) DEF OwnInv, Claims
    <3> QED
      BY <1>1, <2>1, <2>4, <3>1, KnownStays
  <2> QED
    BY <2>3, <2>4
<1>5. ASSUME NEW c \in Claims PROVE Known(c, claims'[c], uids', published')
  <2>1. CASE \E q \in Pods, i \in 1..NumClaims, ip \in IPs : PublishIP(q, i, ip)
    BY <1>4, <2>1
  <2>2. CASE claims' = claims
    <3>1. Known(c, claims[c], uids, published) /\ c[1] \in Pods
      BY DEF OwnInv, Claims
    <3> QED
      BY <1>1, <2>2, <3>1, KnownStays
  <2> QED
    BY <2>1, <2>2, ZenonT(60) DEF Next, WorkerStep, Dequeue, AddFinalizer, ExtractIP, Put,
         Delete, RemoveFinalizer, CallFails, Deliver, Relist, Resync, DeliverClaim, Restart,
         CreatePod, BindClaim, DeletePod, KubeletDone, WipeStore
<1>6. ASSUME NEW c \in Claims PROVE Known(c, claimCache'[c], uids', published')
  <2>1. /\ Known(c, claims[c], uids, published)
        /\ Known(c, claimCache[c], uids, published)
        /\ c[1] \in Pods
    BY SMTT(30) DEF OwnInv, Claims
  <2>2. claimCache'[c] \in {claimCache[c], claims[c]}
    BY <1>1, ZenonT(60) DEF TypeOK, Next, WorkerStep, Dequeue, AddFinalizer, ExtractIP, Put, Delete,
         RemoveFinalizer, CallFails, Deliver, Relist, Resync, DeliverClaim, Restart, CreatePod,
         BindClaim, PublishIP, DeletePod, KubeletDone, WipeStore
  <2> QED
    BY <1>1, <2>1, <2>2, KnownStays
<1>7. ASSUME w'.pc = "put" PROVE w'.ip \in published'[w'.pod]
  <2>1. CASE w' = w
    <3>1. w.pod \in Pods /\ Api(w.pod).fin /\ w.ip \in published[w.pod]
      BY <1>7, <2>1 DEF IInv, WorkerInv, TypeOK, OwnInv
    <3> QED
      BY <1>1, <2>1, <3>1, HeldName
  <2>2. CASE w' # w
    <3>1. ExtractIP
      <4>1. CASE \E q \in Pods : Dequeue(q)
        BY <1>7, <4>1 DEF Dequeue, FirstStep, Idle
      <4>2. CASE AddFinalizer \/ Put \/ Delete \/ RemoveFinalizer \/ CallFails
        <5>1. w'.pc \in {"idle", "extractIP", "removeFinalizer"}
          BY <1>1, <4>2, IdleType DEF AddFinalizer, Put, Delete, RemoveFinalizer, CallFails,
               Continue, ReturnRequeue, TypeOK, Worker
        <5> QED
          BY <1>7, <5>1
      <4>3. CASE Restart
        BY <1>7, <4>3, IdleType DEF Restart
      <4> QED
        BY <2>2, <4>1, <4>2, <4>3, ZenonT(60)
           DEF Next, WorkerStep, Deliver, Relist, Resync, DeliverClaim, CreatePod, BindClaim,
               PublishIP, DeletePod, KubeletDone, WipeStore
    <3>2. /\ w.pc = "extractIP" /\ w.pod \in Pods /\ w.obj \in PodState /\ w.idx \in Nat
          /\ Api(w.pod).uid = w.obj.uid /\ Api(w.pod).fin
      BY <1>1, <3>1 DEF ExtractIP, IInv, WorkerInv, TypeOK, Worker
    <3> DEFINE c == <<w.pod, w.obj.uid, w.idx>>
               ip == ClaimIP(w.obj, w.pod, w.idx)
    <3>3. ip # None /\ w' = [w EXCEPT !.pc = "put", !.ip = ip] /\ published' = published
      BY <1>1, <1>7, <3>1, <3>2, IdleType, SMTT(30) DEF ExtractIP, ReturnRequeue, TypeOK, Worker
    <3>4. w'.pod = w.pod /\ w'.ip = ip
      BY <1>1, <3>3 DEF TypeOK, Worker
    <3>5. w.idx \in w.obj.bound /\ ip = claimCache[c]
      BY <3>3 DEF ClaimIP
    <3>6. c \in Claims /\ w.obj.uid # 0 /\ c[1] = w.pod /\ c[2] = w.obj.uid
      BY <3>2, <3>5, ConstantsAssumption DEF PodState, Claims
    <3>7. w.obj.uid = uids[w.pod]
      BY <3>2, <3>6 DEF OwnInv
    <3>8. Known(c, ip, uids, published)
      BY <3>5, <3>6 DEF OwnInv
    <3>9. ip \in published[w.pod]
      <4>1. uids[w.pod] \in Nat
        BY <1>1, <3>2, ConstantsAssumption DEF TypeOK
      <4> HIDE DEF c, ip
      <4> QED
        BY <3>3, <3>6, <3>7, <3>8, <4>1 DEF Known
    <3> QED
      BY <3>3, <3>4, <3>9, SMTT(30)
  <2> QED
    BY <2>1, <2>2
<1>8. RecordIsOwn'
  <2> SUFFICES ASSUME NEW f \in FQDNs, NEW p \in Pods, rec'[<<f, p>>] # None
               PROVE  rec'[<<f, p>>] \in published'[p]
    BY DEF RecordIsOwn
  <2>1. CASE rec'[<<f, p>>] = rec[<<f, p>>]
    <3>1. rec[<<f, p>>] \in published[p] /\ Api(p).fin
      BY <2>1 DEF OwnInv, RecordIsOwn, IInv, NoOrphanRecord
    <3> QED
      BY <1>1, <2>1, <3>1, HeldName
  <2>2. CASE rec'[<<f, p>>] # rec[<<f, p>>]
    <3>1. Put
      BY <1>1, <2>2, ZenonT(60) DEF TypeOK, Next, WorkerStep, Dequeue, AddFinalizer, ExtractIP,
           Delete,
         RemoveFinalizer, CallFails, Deliver, Relist, Resync, DeliverClaim, Restart, CreatePod,
         BindClaim, PublishIP, DeletePod, KubeletDone, WipeStore
    <3>2. w.pc = "put" /\ rec'[<<f, p>>] = w.ip /\ p = w.pod /\ published' = published
      BY <1>1, <2>2, <3>1 DEF Put, TypeOK
    <3> QED
      BY <3>2, SMTT(30) DEF OwnInv
  <2> QED
    BY <2>1, <2>2
<1> QED
  BY <1>2, <1>5, <1>6, <1>7, <1>8 DEF OwnInv

\* So does a step that changes nothing here.
LEMMA OwnInvStep ==
  ASSUME IInv, OwnInv, [Next]_vars
  PROVE  OwnInv'
<1>1. ASSUME UNCHANGED vars PROVE OwnInv'
  BY <1>1 DEF vars, OwnInv, Known, RecordIsOwn, Api
<1> QED
  BY <1>1, OwnStep, SMTT(30)

\* At first nothing is published.
LEMMA OwnInit ==
  ASSUME Init
  PROVE  OwnInv
<1>1. /\ \A p \in Pods : Api(p).uid = 0
      /\ \A c \in Claims : claims[c] = None /\ claimCache[c] = None
      /\ w.pc = "idle"
      /\ \A f \in FQDNs, p \in Pods : rec[<<f, p>>] = None
  BY DEF Init, Api, NoPod, Idle
<1> QED
  BY <1>1 DEF OwnInv, Known, RecordIsOwn

\* A DNS record carries an address that was published for the Pod that exists now,
\* never one of an earlier Pod of that name, whatever the caches still hold.
THEOREM RecordsAreOwn == Spec => []RecordIsOwn
<1>1. Init => OwnInv
  BY OwnInit
<1>2. IInv /\ OwnInv /\ [Next]_vars => OwnInv'
  BY OwnInvStep
<1>3. OwnInv => RecordIsOwn
  BY DEF OwnInv
<1> QED
  BY <1>1, <1>2, <1>3, Invariance, PTL DEF Spec

-----------------------------------------------------------------------------
(* Records are backed by the pool *)

\* Every published address is still in a claim of the newest Pod, and the pool
\* holds what is in the claims of a running Pod.
ReuseInv ==
  /\ IInv
  /\ OwnInv
  /\ pool \in [Claims -> IPs \cup {None}]
  /\ \A p \in Pods : \A ip \in published[p] : \E i \in 1..NumClaims :
       <<p, uids[p], i>> \in Claims /\ claims[<<p, uids[p], i>>] = ip
  /\ \A c \in Claims : claims[c] # None /\ Running(c) => pool[c] = claims[c]

\* The claim that a Pod's address is published in, and its Pod.
LEMMA PublishedClaim ==
  ASSUME IInv, OwnInv, NEW p \in Pods, NEW i \in 1..NumClaims, i \in Api(p).bound
  PROVE  <<p, Api(p).uid, i>> \in Claims /\ Api(p).uid = uids[p]
<1>1. Api(p) \in Snapshot /\ Api(p).bound # {}
  BY Elements DEF IInv
<1>2. Api(p).uid \in 1..MaxIncarnations
  BY <1>1, SnapshotTypes
<1> QED
  BY <1>2, ConstantsAssumption DEF OwnInv, Claims

\* A step preserves the invariant.
LEMMA ReuseStep ==
  ASSUME ReuseInv, [ReuseNext]_reuseVars
  PROVE  ReuseInv'
<1>1. /\ IInv /\ OwnInv /\ TypeOK /\ pool \in [Claims -> IPs \cup {None}]
      /\ \A p \in Pods : \A ip \in published[p] : \E i \in 1..NumClaims :
           <<p, uids[p], i>> \in Claims /\ claims[<<p, uids[p], i>>] = ip
      /\ \A c \in Claims : claims[c] # None /\ Running(c) => pool[c] = claims[c]
  BY SMTT(30) DEF ReuseInv, IInv
<1>2. [Next]_vars
  BY DEF ReuseNext, Prepare, Next, Release, EndPod, reuseVars
<1>3. IInv' /\ OwnInv' /\ TypeOK'
  BY <1>1, <1>2, InvStep, OwnInvStep DEF IInv
<1>4. ASSUME NEW c \in Claims
      PROVE  c[1] \in Pods /\ c[2] \in Nat \ {0} /\ uids[c[1]] \in Nat
  BY <1>1, ConstantsAssumption DEF Claims, TypeOK
<1>5. CASE Next /\ UNCHANGED <<claims, pool, ended>>
  <2>1. \A p \in Pods : PodStep(p)
    BY <1>1, <1>5, NextPodStep
  <2>2. ASSUME NEW p \in Pods, NEW i \in 1..NumClaims, NEW ip \in IPs PROVE ~PublishIP(p, i, ip)
    <3>1. SUFFICES ASSUME PublishIP(p, i, ip) PROVE FALSE
      OBVIOUS
    <3>2. <<p, Api(p).uid, i>> \in Claims
      BY <1>1, <3>1, PublishedClaim DEF PublishIP
    <3> QED
      BY <1>1, <1>5, <3>1, <3>2 DEF PublishIP, TypeOK
  <2>3. \A p \in Pods : published'[p] = published[p] \/ published'[p] = {}
    <3>1. CASE \E q \in Pods, t \in Templates : CreatePod(q, t)
      BY <1>1, <3>1 DEF CreatePod, TypeOK
    <3>2. CASE ~\E q \in Pods, t \in Templates : CreatePod(q, t)
      <4>1. published' = published
        BY <1>5, <2>2, <3>2, ZenonT(60) DEF Next, WorkerStep, Dequeue, AddFinalizer, ExtractIP,
             Put, Delete,
             RemoveFinalizer, CallFails, Deliver, Relist, Resync, DeliverClaim, Restart,
             BindClaim, DeletePod, KubeletDone, WipeStore
      <4> QED
        BY <4>1, SMTT(30)
    <3> QED
      BY <3>1, <3>2
  <2>4. ASSUME NEW p \in Pods, NEW ip \in published'[p]
        PROVE  \E i \in 1..NumClaims :
                 <<p, uids'[p], i>> \in Claims /\ claims'[<<p, uids'[p], i>>] = ip
    <3>1. published'[p] = published[p] /\ uids'[p] = uids[p]
      BY <2>1, <2>3, <2>4 DEF PodStep
    <3> QED
      BY <1>1, <1>5, <2>4, <3>1, SMTT(30)
  <2>5. ASSUME NEW c \in Claims, claims[c] # None, Running(c)' PROVE Running(c)
    <3>1. PodStep(c[1]) /\ Api(c[1])'.uid = c[2] /\ ~Api(c[1])'.dt
      BY <1>4, <2>1, <2>5 DEF Running
    <3>2. Known(c, claims[c], uids, published)
      BY <1>1 DEF OwnInv
    <3>3. c[2] <= uids[c[1]]
      BY <1>4, <2>5, <3>2 DEF Known
    <3>4. Api(c[1]).uid = c[2] /\ ~Api(c[1]).dt
      BY <1>4, <3>1, <3>3, SMTT(30) DEF PodStep
    <3> QED
      BY <1>5, <2>5, <3>4 DEF Running
  <2> QED
    BY <1>1, <1>3, <1>5, <2>4, <2>5 DEF ReuseInv
<1>6. ASSUME NEW p \in Pods, NEW i \in 1..NumClaims, NEW ip \in IPs, Prepare(p, i, ip)
      PROVE  ReuseInv'
  <2> DEFINE c == <<p, Api(p).uid, i>>
  <2>1. c \in Claims /\ Api(p).uid = uids[p]
    BY <1>1, <1>6, PublishedClaim DEF Prepare, PublishIP
  <2>2. /\ claims[c] = None /\ claims' = [claims EXCEPT ![c] = ip]
        /\ pool' = [pool EXCEPT ![c] = ip] /\ ended' = ended
        /\ published' = [published EXCEPT ![p] = @ \cup {ip}]
        /\ UNCHANGED <<hist, uids>>
    BY <1>6 DEF Prepare, PublishIP
  <2>3. claims'[c] = ip /\ pool'[c] = ip
    BY <1>1, <2>1, <2>2 DEF TypeOK
  <2>4. \A d \in Claims \ {c} : claims'[d] = claims[d] /\ pool'[d] = pool[d]
    BY <1>1, <2>2, SMTT(30) DEF TypeOK
  <2>5. \A d \in Claims : Running(d)' <=> Running(d)
    BY <2>2 DEF Running, Api
  <2>6. pool' \in [Claims -> IPs \cup {None}]
    BY <1>1, <2>2
  <2>7. ASSUME NEW q \in Pods, NEW a \in published'[q]
        PROVE  \E j \in 1..NumClaims :
                 <<q, uids'[q], j>> \in Claims /\ claims'[<<q, uids'[q], j>>] = a
    <3>1. CASE a \in published[q]
      <4>1. PICK j \in 1..NumClaims : <<q, uids[q], j>> \in Claims /\ claims[<<q, uids[q], j>>] = a
        BY <1>1, <3>1
      <4>2. a # None
        BY <1>1, <3>1, ConstantsAssumption DEF TypeOK
      <4>3. <<q, uids[q], j>> # c
        BY <2>2, <4>1, <4>2
      <4> HIDE DEF c
      <4> QED
        BY <2>2, <2>4, <4>1, <4>3
    <3>2. CASE a \notin published[q]
      <4>1. q = p /\ a = ip
        BY <1>1, <2>2, <2>7, <3>2, SMTT(30) DEF TypeOK
      <4> QED
        BY <2>1, <2>2, <2>3, <4>1
    <3> QED
      BY <3>1, <3>2
  <2>8. ASSUME NEW d \in Claims, claims'[d] # None, Running(d)' PROVE pool'[d] = claims'[d]
    <3> HIDE DEF c
    <3> QED
      BY <1>1, <2>3, <2>4, <2>5, <2>8
  <2> QED
    BY <1>3, <2>6, <2>7, <2>8 DEF ReuseInv
<1>7. ASSUME UNCHANGED vars, pool' \in [Claims -> IPs \cup {None}],
             \A c \in Claims : Running(c)' => Running(c) /\ pool'[c] = pool[c]
      PROVE  ReuseInv'
  <2>1. UNCHANGED <<claims, uids, published>>
    BY <1>7 DEF vars
  <2> QED
    BY <1>1, <1>3, <1>7, <2>1 DEF ReuseInv
<1>8. ASSUME NEW c \in Claims, Release(c) PROVE ReuseInv'
  <2>1. /\ ~Running(c) /\ pool' = [pool EXCEPT ![c] = None]
        /\ UNCHANGED vars /\ UNCHANGED <<hist, ended>>
    BY <1>8 DEF Release, vars
  <2>2. \A d \in Claims : Running(d)' <=> Running(d)
    BY <2>1 DEF Running, Api
  <2> QED
    BY <1>1, <1>7, <2>1, <2>2
<1>9. ASSUME NEW p \in Pods, EndPod(p) PROVE ReuseInv'
  <2>1. UNCHANGED vars /\ pool' = pool /\ hist' = hist /\ ended \subseteq ended'
    BY <1>9 DEF EndPod, vars
  <2>2. \A d \in Claims : Running(d)' => Running(d)
    BY <2>1 DEF Running, Api
  <2> QED
    BY <1>1, <1>7, <2>1, <2>2
<1>10. CASE UNCHANGED reuseVars
  <2>1. UNCHANGED vars /\ pool' = pool /\ hist' = hist /\ ended' = ended
    BY <1>10 DEF reuseVars, vars
  <2>2. \A d \in Claims : Running(d)' => Running(d)
    BY <2>1 DEF Running, Api
  <2> QED
    BY <1>1, <1>7, <2>1, <2>2
<1> QED
  BY <1>5, <1>6, <1>8, <1>9, <1>10 DEF ReuseNext

\* A record of a Pod that runs gives an address that is reserved for a claim of
\* that very Pod, whatever was released to the pool and given out again.
THEOREM RecordsAreBacked == ReuseSpec => []RecordBacked
<1>1. ReuseInit => ReuseInv
  <2> SUFFICES ASSUME ReuseInit PROVE ReuseInv
    OBVIOUS
  <2>1. IInv /\ OwnInv
    BY InvInit, OwnInit DEF ReuseInit
  <2>2. /\ \A p \in Pods : published[p] = {}
        /\ \A c \in Claims : claims[c] = None
        /\ pool \in [Claims -> IPs \cup {None}]
    BY DEF ReuseInit, Init
  <2> QED
    BY <2>1, <2>2 DEF ReuseInv
<1>2. ReuseInv /\ [ReuseNext]_reuseVars => ReuseInv'
  BY ReuseStep
<1>3. ReuseInv => RecordBacked
  <2> SUFFICES ASSUME ReuseInv, NEW f \in FQDNs, NEW p \in Pods, rec[<<f, p>>] # None,
                      ~Api(p).dt, <<p, Api(p).uid>> \notin ended
               PROVE  \E c \in Claims : c[1] = p /\ c[2] = Api(p).uid /\ pool[c] = rec[<<f, p>>]
    BY ZenonT(60) DEF RecordBacked
  <2>1. Api(p).fin /\ rec[<<f, p>>] \in published[p]
    BY DEF ReuseInv, IInv, NoOrphanRecord, OwnInv, RecordIsOwn
  <2>2. Api(p).uid = uids[p]
    <3>1. Api(p).uid # 0
      BY <2>1, Elements, SnapshotTypes, ConstantsAssumption DEF ReuseInv, IInv
    <3> QED
      BY <3>1 DEF ReuseInv, OwnInv
  <2>3. PICK i \in 1..NumClaims :
          <<p, uids[p], i>> \in Claims /\ claims[<<p, uids[p], i>>] = rec[<<f, p>>]
    BY <2>1 DEF ReuseInv
  <2>4. Running(<<p, uids[p], i>>)
    BY <2>2 DEF Running
  <2>5. pool[<<p, uids[p], i>>] = rec[<<f, p>>]
    BY <2>3, <2>4 DEF ReuseInv
  <2> QED
    BY <2>2, <2>3, <2>5
<1> QED
  BY <1>1, <1>2, <1>3, PTL DEF ReuseSpec

-----------------------------------------------------------------------------
(* Live Pods stay registered *)

\* The steps that change the zone: only they touch rec.
LEMMA RecordSteps ==
  ASSUME Next
  PROVE  Put \/ Delete \/ WipeStore \/ rec' = rec
  BY ZenonT(60) DEF Next, WorkerStep, Dequeue, AddFinalizer, ExtractIP, RemoveFinalizer,
       CallFails, Deliver, Relist, Resync, DeliverClaim, Restart, CreatePod, BindClaim,
            PublishIP, DeletePod,
       KubeletDone

\* Store.Delete of a record that exists is for a Pod that the API server is
\* deleting, however old the snapshot is that the worker acts on.
LEMMA DeleteIsDue ==
  ASSUME IInv, Delete, rec[<<w.obj.fqdn, w.pod>>] # None
  PROVE  /\ w.pod \in Pods
         /\ w.obj.fqdn \in FQDNs
         /\ Api(w.pod).fin /\ Api(w.pod).dt /\ Api(w.pod).fqdn = w.obj.fqdn
<1>1. w.pod \in Pods /\ w.obj.fqdn \in FQDNs /\ w.pc = "delete"
  BY DEF IInv, TypeOK, WorkerInv, Delete
<1>2. Api(w.pod).fin /\ Api(w.pod).fqdn = w.obj.fqdn
  BY <1>1 DEF IInv, NoOrphanRecord
<1>3. Len(hist[w.pod]) \in 1..Len(hist[w.pod])
  BY <1>1, Elements DEF IInv
<1>4. Api(w.pod).dt
  BY <1>1, <1>2, <1>3 DEF IInv, WorkerInv, Api
<1> QED
  BY <1>1, <1>2, <1>4

\* Neither another Pod's deletion nor a stale work item takes the record of a
\* live Pod away.
THEOREM NoEarlyDeregistration == Spec => NoPrematureDeregistration
<1> DEFINE Due == \A f \in FQDNs, p \in Pods :
                    rec[<<f, p>>] # None /\ rec'[<<f, p>>] = None =>
                      Api(p).dt \/ wipes' # wipes
<1>1. IInv /\ [Next]_vars => [Due]_vars
  <2> SUFFICES ASSUME IInv, Next, NEW f \in FQDNs, NEW p \in Pods,
                      rec[<<f, p>>] # None, rec'[<<f, p>>] = None
               PROVE  Api(p).dt \/ wipes' # wipes
    OBVIOUS
  <2> USE DEF IInv
  <2>1. CASE Put
    <3>1. w.ip \in IPs /\ rec' = [rec EXCEPT ![<<w.obj.fqdn, w.pod>>] = w.ip]
      BY <2>1 DEF Put, WorkerInv
    <3> QED
      BY <3>1, ConstantsAssumption DEF TypeOK
  <2>2. CASE Delete
    <3>1. f = w.obj.fqdn /\ p = w.pod
      BY <2>2 DEF Delete, TypeOK
    <3> QED
      BY <2>2, <3>1, DeleteIsDue
  <2>3. CASE WipeStore
    BY <2>3 DEF WipeStore, TypeOK
  <2> QED
    BY <2>1, <2>2, <2>3, RecordSteps
<1> QED
  BY <1>1, Invariance, PTL DEF Spec, NoPrematureDeregistration

-----------------------------------------------------------------------------
(* The reconciler implements the registry *)

\* The mapped state depends on what the API server holds only.
LEMMA MappedUnchanged ==
  ASSUME \A q \in Pods : Api(q)' = Api(q)
  PROVE  Holds' = Holds /\ Leaving' = Leaving
BY DEF Holds, Leaving

\* A write of p maps to a change of p alone.
LEMMA MappedWrite ==
  ASSUME TypeOK, NEW p \in Pods, NEW s \in Snapshot, Write(p, s)
  PROVE  /\ Holds' = [Holds EXCEPT ![p] = IF s.fin THEN s.fqdn ELSE None]
         /\ Leaving' = [Leaving EXCEPT ![p] = s.fin /\ s.dt]
<1>1. Api(p)' = s /\ \A q \in Pods \ {p} : Api(q)' = Api(q)
  BY WriteFacts
<1>2. Holds' = [Holds EXCEPT ![p] = IF s.fin THEN s.fqdn ELSE None]
  <2>1. Holds' = [q \in Pods |-> IF Api(q)'.fin THEN Api(q)'.fqdn ELSE None]
    BY DEF Holds
  <2>2. Holds' = [q \in Pods |-> IF q = p THEN IF s.fin THEN s.fqdn ELSE None
                                 ELSE IF Api(q).fin THEN Api(q).fqdn ELSE None]
    BY <1>1, <2>1
  <2> QED
    BY <2>2 DEF Holds
<1>3. Leaving' = [q \in Pods |-> Api(q)'.fin /\ Api(q)'.dt]
  BY DEF Leaving
<1>4. Leaving' = [q \in Pods |-> IF q = p THEN s.fin /\ s.dt ELSE Api(q).fin /\ Api(q).dt]
  BY <1>1, <1>3
<1>5. Leaving' = [Leaving EXCEPT ![p] = s.fin /\ s.dt]
  BY <1>4 DEF Leaving
<1> QED
  BY <1>2, <1>5

\* A write that keeps the finalizer, the FQDN and the deletion timestamp, or
\* concerns a Pod without the finalizer, leaves the mapped state alone.
LEMMA MappedStutter ==
  ASSUME TypeOK, NEW p \in Pods, NEW s \in Snapshot, Write(p, s),
         \/ s.fin = Api(p).fin /\ s.fqdn = Api(p).fqdn /\ s.dt = Api(p).dt
         \/ ~s.fin /\ ~Api(p).fin
  PROVE  Holds' = Holds /\ Leaving' = Leaving
<1>1. /\ Holds' = [Holds EXCEPT ![p] = IF s.fin THEN s.fqdn ELSE None]
      /\ Leaving' = [Leaving EXCEPT ![p] = s.fin /\ s.dt]
  BY MappedWrite
<1>2. /\ Holds[p] = IF s.fin THEN s.fqdn ELSE None
      /\ Leaving[p] = (s.fin /\ s.dt)
  BY DEF Holds, Leaving
<1> QED
  BY <1>1, <1>2, ZenonT(60) DEF Holds, Leaving

\* Every step of the worker is a step of the registry or changes nothing in it.
LEMMA WorkerStepMaps ==
  ASSUME IInv, WorkerStep
  PROVE  Registry!Next \/ UNCHANGED Registry!vars
<1> USE ConstantsAssumption DEF IInv
<1>1. CASE AddFinalizer
  <2>1. PICK p \in Pods : p = w.pod
    BY <1>1 DEF AddFinalizer, TypeOK
  <2>2. PICK o \in PodState : o = w.obj
    BY <1>1 DEF AddFinalizer, TypeOK
  <2> DEFINE s == [o EXCEPT !.fin = TRUE]
  <2>3. /\ Write(p, s) /\ rec' = rec /\ Api(p) = o
        /\ ~o.fin /\ ~o.dt /\ o.fqdn \in FQDNs
    BY <1>1, <2>1, <2>2 DEF AddFinalizer, WorkerInv
  <2>4. s \in PodState /\ s.fin /\ ~s.dt /\ s.fqdn = o.fqdn
    BY <2>3 DEF PodState
  <2> HIDE DEF s
  <2>5. /\ Holds' = [Holds EXCEPT ![p] = o.fqdn]
        /\ Leaving' = [Leaving EXCEPT ![p] = FALSE]
    BY <2>3, <2>4, SnapshotTypes, MappedWrite
  <2>6. Holds[p] = None /\ Leaving[p] = FALSE
    BY <2>3 DEF Holds, Leaving
  <2>7. Leaving' = Leaving
    BY <2>5, <2>6 DEF Leaving
  <2>8. Registry!Acquire(p, o.fqdn)
    BY <2>3, <2>5, <2>6, <2>7 DEF Registry!Acquire
  <2> QED
    BY <2>3, <2>8 DEF Registry!Next
<1>2. CASE Put
  <2>1. PICK p \in Pods : p = w.pod
    BY <1>2, ZenonT(60) DEF Put, TypeOK
  <2>2. /\ rec' = [rec EXCEPT ![<<w.obj.fqdn, p>>] = w.ip] /\ hist' = hist
        /\ w.obj.fqdn \in FQDNs /\ w.ip \in IPs
        /\ Api(p).fin /\ Api(p).fqdn = w.obj.fqdn
    BY <1>2, <2>1 DEF Put, WorkerInv
  <2>3. Holds' = Holds /\ Leaving' = Leaving
    BY <2>2, MappedUnchanged DEF Api
  <2>4. Holds[p] = w.obj.fqdn /\ Holds[p] # None
    BY <2>2 DEF Holds
  <2>5. Registry!Register(p, w.ip)
    BY <2>2, <2>3, <2>4 DEF Registry!Register
  <2> QED
    BY <2>2, <2>5 DEF Registry!Next
<1>3. CASE Delete
  <2>1. PICK p \in Pods : p = w.pod
    BY <1>3 DEF Delete, TypeOK
  <2>2. rec' = [rec EXCEPT ![<<w.obj.fqdn, p>>] = None] /\ hist' = hist
    BY <1>3, <2>1 DEF Delete
  <2>3. Holds' = Holds /\ Leaving' = Leaving
    BY <2>2, MappedUnchanged DEF Api
  <2>4. CASE rec[<<w.obj.fqdn, p>>] = None
    <3>1. rec' = rec
      BY <2>2, <2>4 DEF TypeOK
    <3> QED
      BY <2>3, <3>1 DEF Registry!vars
  <2>5. CASE rec[<<w.obj.fqdn, p>>] # None
    <3>1. Api(p).fin /\ Api(p).dt /\ Api(p).fqdn = w.obj.fqdn
      BY <1>3, <2>1, <2>5, DeleteIsDue
    <3>2. Leaving[p] /\ Holds[p] = w.obj.fqdn
      BY <3>1 DEF Holds, Leaving
    <3>3. Registry!Deregister(p)
      BY <2>2, <2>3, <3>2 DEF Registry!Deregister
    <3> QED
      BY <3>3 DEF Registry!Next
  <2> QED
    BY <2>4, <2>5
<1>4. CASE RemoveFinalizer
  <2>1. PICK p \in Pods : p = w.pod
    BY <1>4 DEF RemoveFinalizer, TypeOK
  <2>2. PICK o \in PodState : o = w.obj
    BY <1>4, SMTT(30) DEF RemoveFinalizer, TypeOK
  <2> DEFINE r == [o EXCEPT !.fin = FALSE]
             s == Stored(r)
  <2>3. /\ Write(p, s) /\ rec' = rec /\ Api(p) = o
        /\ o.fin /\ o.dt /\ rec[<<o.fqdn, p>>] = None
    BY <1>4, <2>1, <2>2 DEF RemoveFinalizer, WorkerInv
  <2>4. r \in PodState /\ ~r.fin
    BY DEF PodState
  <2> HIDE DEF r
  <2>5. s \in Snapshot /\ ~s.fin
    BY <2>4, SnapshotTypes DEF Stored, NoPod
  <2> HIDE DEF s
  <2>6. /\ Holds' = [Holds EXCEPT ![p] = None]
        /\ Leaving' = [Leaving EXCEPT ![p] = FALSE]
    BY <2>3, <2>5, MappedWrite
  <2>7. Leaving[p] /\ \A f \in FQDNs : rec[<<f, p>>] = None
    BY <2>3 DEF Leaving, NoOrphanRecord
  <2>8. Registry!Release(p)
    BY <2>3, <2>6, <2>7 DEF Registry!Release
  <2> QED
    BY <2>8 DEF Registry!Next
<1>5. CASE ExtractIP \/ CallFails
  <2>1. hist' = hist /\ rec' = rec
    BY <1>5, ZenonT(60) DEF ExtractIP, CallFails
  <2> QED
    BY <2>1, MappedUnchanged DEF Api, Registry!vars
<1> QED
  BY <1>1, <1>2, <1>3, <1>4, <1>5 DEF WorkerStep

\* The manager's other steps leave the registry alone; in the cluster, the
\* deletion of a Pod that carries the finalizer and the loss of the store show.
LEMMA ClusterMaps ==
  ASSUME IInv, Next, ~WorkerStep
  PROVE  Registry!Next \/ UNCHANGED Registry!vars
<1> USE ConstantsAssumption DEF IInv
<1>1. ASSUME hist' = hist, rec' = rec PROVE UNCHANGED Registry!vars
  BY <1>1, MappedUnchanged DEF Api, Registry!vars
<1>2. ASSUME \A q \in Pods : Api(q)' = Api(q), rec' = rec PROVE UNCHANGED Registry!vars
  BY <1>2, MappedUnchanged DEF Registry!vars
<1>3. ASSUME NEW p \in Pods,
             Dequeue(p) \/ Resync(p) \/ (\E i \in 1..NumClaims, ip \in IPs : PublishIP(p, i, ip))
      PROVE  UNCHANGED Registry!vars
  BY <1>1, <1>3 DEF Dequeue, Resync, PublishIP
<1>4. ASSUME NEW c \in Claims, DeliverClaim(c) PROVE UNCHANGED Registry!vars
  BY <1>1, <1>4 DEF DeliverClaim
<1>5. ASSUME NEW p \in Pods, Deliver(p) PROVE UNCHANGED Registry!vars
  BY <1>2, <1>5, DeliverFacts DEF Deliver
<1>6. ASSUME NEW p \in Pods, Relist(p) PROVE UNCHANGED Registry!vars
  <2>1. hist'[p] = <<Api(p)>> /\ \A q \in Pods \ {p} : hist'[q] = hist[q]
    BY <1>6 DEF Relist, TypeOK
  <2>2. \A q \in Pods : Api(q)' = Api(q)
    BY <2>1, SMTT(30) DEF Api
  <2> QED
    BY <1>2, <1>6, <2>2 DEF Relist
<1>7. CASE Restart
  <2>1. \A q \in Pods : hist'[q] = <<Api(q)>>
    BY <1>7 DEF Restart
  <2>2. \A q \in Pods : Api(q)' = Api(q)
    BY <2>1 DEF Api
  <2> QED
    BY <1>2, <1>7, <2>2 DEF Restart
<1>8. CASE WipeStore
  <2>1. hist' = hist /\ rec' = [k \in FQDNs \X Pods |-> None]
    BY <1>8 DEF WipeStore
  <2>2. Holds' = Holds /\ Leaving' = Leaving
    BY <2>1, MappedUnchanged DEF Api
  <2> QED
    BY <2>1, <2>2 DEF Registry!Next, Registry!Wipe
<1>9. ASSUME NEW p \in Pods, NEW t \in Templates, CreatePod(p, t)
      PROVE  UNCHANGED Registry!vars
  <2> DEFINE s == [NoPod EXCEPT !.uid = uids[p] + 1, !.label = t.label, !.fqdn = t.fqdn]
  <2>1. /\ Write(p, s) /\ rec' = rec /\ Api(p).uid = 0
        /\ uids[p] + 1 \in 1..MaxIncarnations
        /\ t.label \in BOOLEAN /\ t.fqdn \in FQDNs \cup {None}
    BY <1>9 DEF CreatePod, TypeOK
  <2>2. s \in PodState /\ ~s.fin
    BY <2>1 DEF PodState, NoPod
  <2>3. ~Api(p).fin
    BY <2>1, Elements, SnapshotTypes DEF PodState, NoPod
  <2> HIDE DEF s
  <2> QED
    BY <2>1, <2>2, <2>3, SnapshotTypes, MappedStutter DEF Registry!vars
<1>10. ASSUME NEW p \in Pods, NEW i \in 1..NumClaims, BindClaim(p, i)
       PROVE  UNCHANGED Registry!vars
  <2> DEFINE s == [Api(p) EXCEPT !.bound = @ \cup {i}]
  <2>1. Api(p) \in PodState /\ Write(p, s) /\ rec' = rec
    BY <1>10, Elements, SnapshotTypes DEF BindClaim
  <2>2. /\ s \in PodState /\ s.fin = Api(p).fin /\ s.fqdn = Api(p).fqdn
        /\ s.dt = Api(p).dt
    BY <2>1 DEF PodState
  <2> HIDE DEF s
  <2> QED
    BY <2>1, <2>2, SnapshotTypes, MappedStutter DEF Registry!vars
<1>11. ASSUME NEW p \in Pods, KubeletDone(p)
       PROVE  UNCHANGED Registry!vars
  <2> DEFINE r == [Api(p) EXCEPT !.over = TRUE]
             s == Stored(r)
  <2>1. Api(p) \in PodState /\ Write(p, s) /\ rec' = rec
    BY <1>11, Elements, SnapshotTypes DEF KubeletDone
  <2>2. /\ r \in PodState /\ r.fin = Api(p).fin /\ r.fqdn = Api(p).fqdn
        /\ r.dt = Api(p).dt
    BY <2>1 DEF PodState
  <2> HIDE DEF r
  <2>3. s \in Snapshot
    BY <2>2, SnapshotTypes
  <2>4. s = r \/ (~s.fin /\ ~Api(p).fin)
    BY <2>2 DEF Stored, NoPod
  <2> HIDE DEF s
  <2> QED
    BY <2>1, <2>2, <2>3, <2>4, MappedStutter DEF Registry!vars
<1>12. ASSUME NEW p \in Pods, NEW over \in BOOLEAN, DeletePod(p, over)
       PROVE  Registry!Next \/ UNCHANGED Registry!vars
  <2> DEFINE r == [Api(p) EXCEPT !.dt = TRUE, !.over = over]
             s == Stored(r)
  <2>1. Api(p) \in PodState /\ Write(p, s) /\ rec' = rec /\ ~Api(p).dt
    BY <1>12, Elements, SnapshotTypes DEF DeletePod
  <2>2. r \in PodState /\ r.fin = Api(p).fin /\ r.fqdn = Api(p).fqdn /\ r.dt = TRUE
    BY <2>1 DEF PodState
  <2> HIDE DEF r
  <2>3. s \in Snapshot /\ (Api(p).fin => s = r) /\ (~Api(p).fin => ~s.fin)
    BY <2>2, SnapshotTypes DEF Stored, NoPod
  <2> HIDE DEF s
  <2>4. CASE ~Api(p).fin
    BY <2>1, <2>3, <2>4, MappedStutter DEF Registry!vars
  <2>5. CASE Api(p).fin
    <3>1. /\ Holds' = [Holds EXCEPT ![p] = IF s.fin THEN s.fqdn ELSE None]
          /\ Leaving' = [Leaving EXCEPT ![p] = s.fin /\ s.dt]
      BY <2>1, <2>3, MappedWrite
    <3>2. s.fin /\ s.fqdn = Api(p).fqdn /\ s.dt = TRUE /\ (s.fin /\ s.dt) = TRUE
      BY <2>2, <2>3, <2>5
    <3>3. Holds[p] = s.fqdn /\ ~Leaving[p]
      BY <2>1, <2>5, <3>2 DEF Holds, Leaving
    <3>4. Holds' = Holds
      BY <3>1, <3>2, <3>3 DEF Holds
    <3>5. Leaving' = [Leaving EXCEPT ![p] = TRUE]
      BY <3>1, <3>2
    <3>6. Holds[p] # None
      BY <2>5, <3>3, Elements DEF HistoryInv, FinalizerInv, Holds
    <3>7. Registry!Leave(p)
      BY <2>1, <3>3, <3>4, <3>5, <3>6 DEF Registry!Leave
    <3> QED
      BY <3>7, ZenonT(60) DEF Registry!Next
  <2> QED
    BY <2>4, <2>5
<1> QED
  BY <1>3, <1>4, <1>5, <1>6, <1>7, <1>8, <1>9, <1>10, <1>11, <1>12 DEF Next

\* The reconciler, with its caches, retries and restarts, implements the zone.
THEOREM Refinement == Spec => ImplementsRegistry
<1>1. Init => Registry!Init
  <2> SUFFICES ASSUME Init PROVE Registry!Init
    OBVIOUS
  <2>1. NoPod.fin = FALSE
    BY DEF NoPod
  <2>2. \A p \in Pods : hist[p] = <<NoPod>> /\ Len(hist[p]) = 1 /\ Api(p) = NoPod
    BY DEF Init, Api
  <2>3. \A p \in Pods : Api(p).fin = FALSE
    BY <2>1, <2>2
  <2>4. Holds = [p \in Pods |-> None]
    BY <2>3 DEF Holds
  <2>5. Leaving = [p \in Pods |-> FALSE]
    BY <2>3 DEF Leaving
  <2> QED
    BY <2>4, <2>5 DEF Init, Registry!Init
<1>2. IInv /\ [Next]_vars => [Registry!Next]_(Registry!vars)
  <2>1. ASSUME UNCHANGED vars PROVE UNCHANGED Registry!vars
    BY <2>1 DEF vars, Registry!vars, Holds, Leaving, Api
  <2> QED
    BY <2>1, WorkerStepMaps, ClusterMaps
<1> QED
  BY <1>1, <1>2, Invariance, PTL DEF Spec, ImplementsRegistry, Registry!Spec

=============================================================================
