-------------------------- MODULE VertexDomainProofs --------------------------
(***************************************************************************)
(* Proofs about VertexDomain for any sets of Pods, FQDNs, addresses and    *)
(* templates and any bounds.                                               *)
(***************************************************************************)
EXTENDS VertexDomain, TLAPS

-----------------------------------------------------------------------------
(* The inductive invariant *)

\* Snapshots carry uids that were handed out.
UidsInv ==
  \A p \in Pods : \A i \in 1..Len(hist[p]) : hist[p][i].uid <= uids[p]

\* The states of one Pod are consecutive in the history of its name, and its
\* deletion timestamp stays once it is set.
OrderInv ==
  \A p \in Pods : \A i \in 1..Len(hist[p]) :
    \A j \in i..Len(hist[p]) :
      /\ hist[p][i].uid = hist[p][j].uid /\ hist[p][i].dt => hist[p][j].dt
      /\ hist[p][i].uid = Api(p).uid /\ Api(p).uid # 0 => hist[p][j].uid = Api(p).uid

\* While the API server's Pod carries the finalizer the informer has seen that
\* very Pod, which has an FQDN; a live Pod that was seen with the finalizer still
\* has it.
FinalizerInv ==
  \A p \in Pods : \A i \in 1..Len(hist[p]) :
    /\ Api(p).fin => hist[p][i].uid = Api(p).uid /\ Api(p).fqdn \in FQDNs
    /\ hist[p][i].fin /\ ~hist[p][i].dt =>
         /\ Api(p).uid = hist[p][i].uid
         /\ Api(p).fin
         /\ Api(p).fqdn = hist[p][i].fqdn

\* The snapshot a worker acts on may be stale, and this is what stays true of it.
WorkerInv ==
  w.pc # "idle" =>
    /\ w.obj.fqdn \in FQDNs
    /\ w.obj.uid <= uids[w.pod]
    /\ w.pc = "addFinalizer" =>
         /\ ~w.obj.fin
         /\ ~w.obj.dt
         /\ Api(w.pod).uid = w.obj.uid =>
              \A i \in 1..Len(hist[w.pod]) : hist[w.pod][i].uid = w.obj.uid
    /\ w.pc \in {"extractIP", "put"} =>
         /\ Api(w.pod).uid = w.obj.uid
         /\ Api(w.pod).fin
         /\ Api(w.pod).fqdn = w.obj.fqdn
    /\ w.pc = "put" => w.ip \in IPs
    /\ w.pc \in {"delete", "removeFinalizer"} =>
         /\ w.obj.dt
         /\ w.obj.fin
         /\ Api(w.pod).fin => Api(w.pod).uid = w.obj.uid
         /\ \A i \in 1..Len(hist[w.pod]) :
              hist[w.pod][i].uid = w.obj.uid => hist[w.pod][i].dt
    /\ w.pc = "removeFinalizer" => rec[<<w.obj.fqdn, w.pod>>] = None

HistoryInv == UidsInv /\ OrderInv /\ FinalizerInv

IInv == TypeOK /\ HistoryInv /\ WorkerInv /\ NoOrphanRecord

-----------------------------------------------------------------------------
(* Ways in which histories change *)

\* The informers consume a prefix of every history, k[p] states of p.
Consumes(k) ==
  \A p \in Pods : /\ Len(hist'[p]) = Len(hist[p]) - k[p]
                  /\ Len(hist'[p]) > 0
                  /\ \A i \in 1..Len(hist'[p]) : hist'[p][i] = hist[p][i + k[p]]
                  /\ Api(p)' = Api(p)

\* A write that advances the Pod, removes it or creates a new one.
Advances(p, s) ==
  /\ Write(p, s)
  /\ uids[p] <= uids'[p]
  /\ s.uid <= uids'[p]
  /\ \A q \in Pods \ {p} : uids'[q] = uids[q]
  /\ \/ s.uid = Api(p).uid /\ (Api(p).dt => s.dt)
     \/ s = NoPod
     \/ s.uid > uids[p]

\* A write by anyone but the reconciler that keeps the finalizer, its Pod and its
\* FQDN where there is one, and adds none.
ClusterWrite(p, s) ==
  /\ Advances(p, s)
  /\ Api(p).fin => s.uid = Api(p).uid /\ s.fin /\ s.fqdn = Api(p).fqdn
  /\ s.fin => Api(p).fin
  /\ UNCHANGED <<w, rec>>

-----------------------------------------------------------------------------
(* Facts about snapshots and histories *)

\* What the actions write is a snapshot.
LEMMA SnapshotTypes ==
  /\ NoPod \in Snapshot
  /\ PodState \subseteq Snapshot
  /\ \A s \in Snapshot : Stored(s) \in Snapshot
  /\ \A s \in Snapshot : s.uid # 0 \/ s.label \/ s.dt \/ s.fin \/ s.bound # {} => s \in PodState
  /\ \A s \in Snapshot : s \notin PodState => s = NoPod
  /\ \A s \in PodState : s.uid \in 1..MaxIncarnations
  /\ \A s \in Snapshot : s.uid \in 0..MaxIncarnations
  BY ConstantsAssumption DEF NoPod, Snapshot, PodState, Stored

\* An idle worker has the worker's type.
LEMMA IdleType == Idle \in Worker /\ Idle.pc = "idle"
  BY SnapshotTypes DEF Idle, Worker, Steps

\* Every element of a history is a snapshot, the first and the last included.
LEMMA Elements ==
  ASSUME TypeOK
  PROVE  \A p \in Pods :
           /\ Len(hist[p]) \in Nat \ {0}
           /\ \A i \in 1..Len(hist[p]) : hist[p][i] \in Snapshot
           /\ Api(p) \in Snapshot
           /\ Cached(p) \in Snapshot
<1> SUFFICES ASSUME NEW p \in Pods
             PROVE  /\ Len(hist[p]) \in Nat \ {0}
                    /\ \A i \in 1..Len(hist[p]) : hist[p][i] \in Snapshot
                    /\ Api(p) \in Snapshot
                    /\ Cached(p) \in Snapshot
  OBVIOUS
<1>1. hist[p] \in Seq(Snapshot) /\ Len(hist[p]) > 0
  BY DEF TypeOK
<1>2. Len(hist[p]) \in Nat \ {0} /\ \A i \in 1..Len(hist[p]) : hist[p][i] \in Snapshot
  BY <1>1
<1> QED
  BY <1>2 DEF Api, Cached

\* What the history invariant says concerns hist and uids only.
LEMMA HistoryKept ==
  ASSUME HistoryInv, UNCHANGED <<hist, uids>>
  PROVE  HistoryInv' /\ \A p \in Pods : Api(p)' = Api(p)
<1>1. \A p \in Pods : Api(p)' = Api(p)
  BY DEF Api
<1>2. UidsInv'
  BY DEF HistoryInv, UidsInv
<1>3. OrderInv'
  BY DEF HistoryInv, OrderInv, Api
<1>4. FinalizerInv'
  BY DEF HistoryInv, FinalizerInv, Api
<1> QED
  BY <1>1, <1>2, <1>3, <1>4 DEF HistoryInv

\* What the invariant says concerns hist, uids, w and rec only.
LEMMA UnchangedInv ==
  ASSUME HistoryInv, WorkerInv, NoOrphanRecord, UNCHANGED <<hist, uids, w, rec>>
  PROVE  HistoryInv' /\ WorkerInv' /\ NoOrphanRecord'
<1>1. WorkerInv'
  BY DEF WorkerInv, Api
<1>2. NoOrphanRecord'
  BY DEF NoOrphanRecord, Api
<1> QED
  BY <1>1, <1>2, HistoryKept

\* At the start no name has had a Pod.
LEMMA InitHistory ==
  ASSUME Init
  PROVE  /\ UidsInv /\ OrderInv
         /\ \A p \in Pods : Api(p) = NoPod /\ \A i \in 1..Len(hist[p]) : hist[p][i] = NoPod
<1>1. \A p \in Pods : hist[p] = <<NoPod>> /\ Len(hist[p]) = 1 /\ Api(p) = NoPod
  BY ZenonT(60) DEF Init, Api
<1>2. \A p \in Pods : \A i \in 1..Len(hist[p]) : hist[p][i] = NoPod
  BY <1>1, SMTT(30)
<1>3. UidsInv
  BY <1>2, SMTT(30) DEF Init, UidsInv, NoPod
<1>4. OrderInv
  <2> SUFFICES ASSUME NEW p \in Pods, NEW i \in 1..Len(hist[p]), NEW j \in i..Len(hist[p])
               PROVE  /\ hist[p][j] = hist[p][i]
                      /\ Api(p).uid = 0
    BY DEF OrderInv
  <2>1. j \in 1..Len(hist[p])
    BY <1>1, SMTT(30)
  <2> QED
    BY <1>1, <1>2, <2>1 DEF NoPod
<1> QED
  BY <1>1, <1>2, <1>3, <1>4

\* A worker that takes p from the queue acts on the snapshot in the cache.
LEMMA DequeueStepInv ==
  ASSUME TypeOK, HistoryInv, NoOrphanRecord, NEW p \in Pods, Dequeue(p)
  PROVE  HistoryInv' /\ WorkerInv' /\ NoOrphanRecord'
<1> USE ConstantsAssumption
<1>1. UNCHANGED <<hist, uids, rec>>
  BY DEF Dequeue
<1>2. HistoryInv' /\ NoOrphanRecord'
  BY <1>1, HistoryKept DEF NoOrphanRecord
<1>3. CASE w' = Idle
  BY <1>2, <1>3, IdleType DEF WorkerInv
<1>4. CASE w' # Idle
  <2> DEFINE s == Cached(p)
  <2>1. /\ w' = [Idle EXCEPT !.pc = FirstStep(s), !.pod = p, !.obj = s]
        /\ FirstStep(s) # "idle"
    BY <1>4 DEF Dequeue
  <2>2. w'.pc = FirstStep(s) /\ w'.pod = p /\ w'.obj = s
    BY <2>1, SMTT(30) DEF Idle
  <2>3. s \in Snapshot /\ 1 \in 1..Len(hist[p]) /\ s = hist[p][1]
    BY Elements DEF Cached
  <2> HIDE DEF s
  <2>4. s \in PodState /\ s.uid # 0 /\ s.uid <= uids[p] /\ s.fqdn \in FQDNs
    BY <2>1, <2>3, SnapshotTypes DEF FirstStep, HistoryInv, UidsInv, PodState
  <2>5. Len(hist[p]) \in Nat \ {0} /\ Api(p)' = Api(p)
    BY <1>1, Elements, SMTT(30) DEF Api
  <2>6. \A j \in 1..Len(hist[p]) :
          /\ s.uid = hist[p][j].uid /\ s.dt => hist[p][j].dt
          /\ s.uid = Api(p).uid => hist[p][j].uid = s.uid
    BY <2>3, <2>4, SMTT(30) DEF HistoryInv, OrderInv
  <2>7. /\ Api(p).fin => s.uid = Api(p).uid
        /\ s.fin /\ ~s.dt => Api(p).uid = s.uid /\ Api(p).fin /\ Api(p).fqdn = s.fqdn
    BY <2>3, SMTT(30) DEF HistoryInv, FinalizerInv
  <2>8. Api(w.pod)' = Api(p) /\ w'.pc # "put" /\ w'.pc # "removeFinalizer"
    BY <1>1, <2>2, <2>5 DEF Api, FirstStep
  <2>9. /\ w'.pc = "addFinalizer" => ~s.fin /\ ~s.dt
        /\ w'.pc = "extractIP" => s.fin /\ ~s.dt
        /\ w'.pc = "delete" => s.fin /\ s.dt
    BY <2>2, SMTT(30) DEF FirstStep
  <2>10. WorkerInv'
    BY <1>1, <2>2, <2>4, <2>5, <2>6, <2>7, <2>8, <2>9, ZenonT(60) DEF WorkerInv
  <2> QED
    BY <1>2, <2>10
<1> QED
  BY <1>3, <1>4

\* A store that comes back empty has no record that could lack its Pod.
LEMMA WipeInv ==
  ASSUME TypeOK, HistoryInv, WorkerInv, WipeStore
  PROVE  HistoryInv' /\ WorkerInv' /\ NoOrphanRecord'
<1>1. UNCHANGED <<hist, uids, w>> /\ \A f \in FQDNs, p \in Pods : rec'[<<f, p>>] = None
  BY DEF WipeStore
<1>2. HistoryInv' /\ NoOrphanRecord'
  BY <1>1, HistoryKept DEF NoOrphanRecord
<1>3. CASE w.pc = "idle"
  BY <1>1, <1>2, <1>3, ZenonT(60) DEF WorkerInv
<1>4. CASE w.pc # "idle"
  <2>1. w.pod \in Pods /\ w.obj.fqdn \in FQDNs
    BY <1>4, ZenonT(60) DEF TypeOK, WorkerInv
  <2> QED
    BY <1>1, <1>2, <1>4, <2>1, ZenonT(60) DEF WorkerInv, Api
<1> QED
  BY <1>3, <1>4

\* A write makes s the API server's state and leaves the rest of the history.
LEMMA WriteFacts ==
  ASSUME TypeOK, NEW p \in Pods, NEW s \in Snapshot, Write(p, s)
  PROVE  /\ hist' \in [Pods -> Seq(Snapshot)]
         /\ \A q \in Pods : Len(hist'[q]) > 0
         /\ Len(hist'[p]) = Len(hist[p]) + 1
         /\ \A i \in 1..Len(hist[p]) : hist'[p][i] = hist[p][i]
         /\ hist'[p][Len(hist[p]) + 1] = s
         /\ Api(p)' = s
         /\ \A q \in Pods \ {p} : hist'[q] = hist[q] /\ Api(q)' = Api(q)
  BY DEF TypeOK, Write, Api

\* A watch event removes the head of a history that has another element.
LEMMA DeliverFacts ==
  ASSUME TypeOK, NEW p \in Pods, Len(hist[p]) > 1,
         hist' = [hist EXCEPT ![p] = Tail(@)]
  PROVE  /\ hist' \in [Pods -> Seq(Snapshot)]
         /\ \A q \in Pods : Len(hist'[q]) > 0
         /\ Len(hist'[p]) = Len(hist[p]) - 1
         /\ \A i \in 1..Len(hist'[p]) : hist'[p][i] = hist[p][i + 1]
         /\ Api(p)' = Api(p)
         /\ \A q \in Pods \ {p} : hist'[q] = hist[q] /\ Api(q)' = Api(q)
  BY DEF TypeOK, Api

\* A list leaves nothing but the API server's state.
LEMMA RelistFacts ==
  ASSUME TypeOK, NEW p \in Pods, hist' \in [Pods -> Seq(Snapshot)], hist'[p] = <<Api(p)>>
  PROVE  /\ Len(hist'[p]) = 1
         /\ hist'[p][1] = Api(p)
         /\ Api(p)' = Api(p)
  BY Elements DEF Api

-----------------------------------------------------------------------------
(* Writes *)

\* Such a write keeps the history in order.
LEMMA OrderWrite ==
  ASSUME TypeOK, UidsInv, OrderInv, NEW p \in Pods, NEW s \in Snapshot, Advances(p, s),
         uids' \in [Pods -> 0..MaxIncarnations]
  PROVE  UidsInv' /\ OrderInv'
<1> USE ConstantsAssumption
<1> DEFINE n == Len(hist[p])
<1>1. /\ n \in Nat \ {0}
      /\ \A i \in 1..n : hist[p][i] \in Snapshot
      /\ Api(p) = hist[p][n]
  BY Elements DEF Api
<1>2. /\ Len(hist'[p]) = n + 1
      /\ \A i \in 1..n : hist'[p][i] = hist[p][i]
      /\ hist'[p][n + 1] = s
      /\ Api(p)' = s
      /\ \A q \in Pods \ {p} : hist'[q] = hist[q] /\ Api(q)' = Api(q)
  BY WriteFacts DEF Advances
<1> /\ uids[p] <= uids'[p] /\ s.uid <= uids'[p]
    /\ \A q \in Pods \ {p} : uids'[q] = uids[q]
    /\ \/ s.uid = Api(p).uid /\ (Api(p).dt => s.dt)
       \/ s = NoPod
       \/ s.uid > uids[p]
  BY DEF Advances
<1>3. \A q \in Pods : uids[q] \in Nat /\ uids'[q] \in Nat
  BY DEF TypeOK
<1>4. \A r \in Snapshot : r.uid \in Nat
  BY SnapshotTypes
<1> HIDE DEF n
<1>5. \A i \in 1..(n + 1) : i \in 1..n \/ i = n + 1
  BY <1>1
<1>6. \A i \in 1..n : hist[p][i].uid <= uids[p]
  BY DEF UidsInv, n
<1>7. \A i \in 1..n : \A j \in i..n :
        /\ hist[p][i].uid = hist[p][j].uid /\ hist[p][i].dt => hist[p][j].dt
        /\ hist[p][i].uid = Api(p).uid /\ Api(p).uid # 0 => hist[p][j].uid = Api(p).uid
  BY DEF OrderInv, n
<1>8. UidsInv'
  <2>1. ASSUME NEW i \in 1..(n + 1) PROVE hist'[p][i].uid <= uids'[p]
    <3>1. CASE i \in 1..n
      <4>1. hist'[p][i].uid = hist[p][i].uid /\ hist[p][i].uid \in Nat
        BY <1>1, <1>2, <1>4, <3>1, ZenonT(60)
      <4>2. hist[p][i].uid <= uids[p]
        BY <1>6, <3>1
      <4> QED
        BY <1>3, <4>1, <4>2
    <3>2. CASE i = n + 1
      BY <1>2, <3>2
    <3> QED
      BY <1>5, <3>1, <3>2
  <2> QED
    BY <1>2, <2>1, SMTT(30) DEF UidsInv
<1>9. OrderInv'
  <2>1. ASSUME NEW i \in 1..n, hist[p][i].uid = s.uid, hist[p][i].dt
        PROVE  s.dt
    <3>1. hist[p][i].uid # 0
      BY <1>1, <2>1, SnapshotTypes, SMTT(30)
    <3>2. hist[p][i].uid = Api(p).uid => Api(p).dt
      BY <1>1, <1>7, <2>1
    <3> QED
      BY <1>1, <1>3, <1>4, <1>6, <2>1, <3>1, <3>2 DEF NoPod
  <2>2. ASSUME NEW i \in 1..n, hist[p][i].uid = s.uid, s.uid # 0, NEW j \in i..n
        PROVE  hist[p][j].uid = s.uid
    <3>1. s.uid = Api(p).uid
      BY <1>3, <1>4, <1>6, <2>2, SMTT(30) DEF NoPod
    <3> QED
      BY <1>7, <2>2, <3>1
  <2>3. ASSUME NEW i \in 1..(n + 1), NEW j \in i..(n + 1)
        PROVE  /\ hist'[p][i].uid = hist'[p][j].uid /\ hist'[p][i].dt => hist'[p][j].dt
               /\ hist'[p][i].uid = s.uid /\ s.uid # 0 => hist'[p][j].uid = s.uid
    <3>1. CASE j \in i..n
      <4>1. i \in 1..n /\ j \in 1..n
        BY <1>1, <3>1
      <4>2. hist'[p][i] = hist[p][i] /\ hist'[p][j] = hist[p][j]
        BY <1>2, <4>1
      <4> QED
        BY <1>7, <2>2, <3>1, <4>1, <4>2
    <3>2. CASE j = n + 1
      BY <1>2, <1>5, <2>1, <3>2, SMTT(30)
    <3> QED
      BY <1>1, <3>1, <3>2, SMTT(30)
  <2>4. ASSUME NEW q \in Pods, q # p, NEW i \in 1..Len(hist'[q]), NEW j \in i..Len(hist'[q])
        PROVE  /\ hist'[q][i].uid = hist'[q][j].uid /\ hist'[q][i].dt => hist'[q][j].dt
               /\ hist'[q][i].uid = Api(q)'.uid /\ Api(q)'.uid # 0 =>
                    hist'[q][j].uid = Api(q)'.uid
    <3>1. hist'[q] = hist[q] /\ Api(q)' = Api(q)
      BY <1>2, <2>4
    <3>2. i \in 1..Len(hist[q]) /\ j \in i..Len(hist[q])
      BY <3>1, SMTT(30)
    <3>3. /\ hist[q][i].uid = hist[q][j].uid /\ hist[q][i].dt => hist[q][j].dt
          /\ hist[q][i].uid = Api(q).uid /\ Api(q).uid # 0 => hist[q][j].uid = Api(q).uid
      BY <3>2, SMTT(30) DEF OrderInv
    <3> QED
      BY <3>1, <3>3
  <2>5. ASSUME NEW q \in Pods, NEW i \in 1..Len(hist'[q]), NEW j \in i..Len(hist'[q])
        PROVE  /\ hist'[q][i].uid = hist'[q][j].uid /\ hist'[q][i].dt => hist'[q][j].dt
               /\ hist'[q][i].uid = Api(q)'.uid /\ Api(q)'.uid # 0 =>
                    hist'[q][j].uid = Api(q)'.uid
    <3>1. CASE q = p
      <4>1. i \in 1..(n + 1) /\ j \in i..(n + 1)
        BY <1>2, <3>1
      <4> QED
        BY <1>2, <2>3, <3>1, <4>1
    <3>2. CASE q # p
      BY <2>4, <3>2
    <3> QED
      BY <3>1, <3>2
  <2> QED
    BY <2>5 DEF OrderInv
<1> QED
  BY <1>8, <1>9

\* A write keeps the whole history invariant when it respects the finalizers that the
\* history shows.
LEMMA WriteInv ==
  ASSUME TypeOK, HistoryInv, NEW p \in Pods, NEW s \in Snapshot, Advances(p, s),
         uids' \in [Pods -> 0..MaxIncarnations],
         \A i \in 1..Len(hist[p]) :
           /\ s.fin => hist[p][i].uid = s.uid /\ s.fqdn \in FQDNs
           /\ hist[p][i].fin /\ ~hist[p][i].dt =>
                hist[p][i].uid = s.uid /\ s.fin /\ hist[p][i].fqdn = s.fqdn
  PROVE  HistoryInv'
<1> DEFINE n == Len(hist[p])
<1>1. n \in Nat \ {0}
  BY Elements
<1>2. /\ Len(hist'[p]) = n + 1
      /\ \A i \in 1..n : hist'[p][i] = hist[p][i]
      /\ hist'[p][n + 1] = s
      /\ Api(p)' = s
      /\ \A q \in Pods \ {p} : hist'[q] = hist[q] /\ Api(q)' = Api(q)
  BY WriteFacts DEF Advances
<1> HIDE DEF n
<1>3. \A i \in 1..(n + 1) : i \in 1..n \/ i = n + 1
  BY <1>1
<1>4. FinalizerInv'
  <2>1. ASSUME NEW i \in 1..(n + 1)
        PROVE  /\ s.fin => hist'[p][i].uid = s.uid /\ s.fqdn \in FQDNs
               /\ hist'[p][i].fin /\ ~hist'[p][i].dt =>
                    s.uid = hist'[p][i].uid /\ s.fin /\ s.fqdn = hist'[p][i].fqdn
    <3>1. CASE i \in 1..n
      BY <1>2, <3>1, ZenonT(60) DEF n
    <3>2. CASE i = n + 1
      <4>1. n \in 1..n
        BY <1>1
      <4>2. s.fin => s.fqdn \in FQDNs
        BY <4>1 DEF n
      <4> QED
        BY <1>2, <3>2, <4>2
    <3> QED
      BY <1>3, <3>1, <3>2
  <2> QED
    BY <1>2, <2>1, SMTT(30) DEF HistoryInv, FinalizerInv
<1>5. UidsInv' /\ OrderInv'
  BY OrderWrite DEF HistoryInv
<1> QED
  BY <1>4, <1>5 DEF HistoryInv

\* A write of the cluster leaves true what is known of the worker's snapshot.
LEMMA ClusterWriteWorker ==
  ASSUME TypeOK, uids' \in [Pods -> 0..MaxIncarnations], WorkerInv,
         NEW p \in Pods, NEW s \in Snapshot, ClusterWrite(p, s)
  PROVE  WorkerInv'
<1>1. w' = w /\ rec' = rec
  BY DEF ClusterWrite
<1>2. /\ Len(hist[p]) \in Nat \ {0}
      /\ Api(p) \in Snapshot
      /\ Len(hist'[p]) = Len(hist[p]) + 1
      /\ \A i \in 1..Len(hist[p]) : hist'[p][i] = hist[p][i]
      /\ hist'[p][Len(hist[p]) + 1] = s
      /\ Api(p)' = s
      /\ \A q \in Pods \ {p} : hist'[q] = hist[q] /\ Api(q)' = Api(q)
  BY Elements, WriteFacts DEF ClusterWrite, Advances
<1>3. /\ \/ s.uid = Api(p).uid /\ (Api(p).dt => s.dt)
         \/ s.uid = 0
         \/ s.uid > uids[p]
      /\ Api(p).fin => s.uid = Api(p).uid /\ s.fin /\ s.fqdn = Api(p).fqdn
      /\ s.fin => Api(p).fin
      /\ uids[p] <= uids'[p] /\ \A q \in Pods \ {p} : uids'[q] = uids[q]
  BY DEF ClusterWrite, Advances, NoPod
<1>4. CASE w.pc = "idle"
  BY <1>1, <1>4 DEF WorkerInv
<1>5. CASE w.pc # "idle" /\ w.pod # p
  <2>1. w.pod \in Pods \ {p}
    BY <1>5 DEF TypeOK
  <2>2. hist'[w.pod] = hist[w.pod] /\ Api(w.pod)' = Api(w.pod) /\ uids'[w.pod] = uids[w.pod]
    BY <1>1, <1>2, <1>3, <2>1 DEF Api
  <2> QED
    BY <1>1, <2>2 DEF WorkerInv
<1>6. CASE w.pc # "idle" /\ w.pod = p
  <2>1. w.obj.fqdn \in FQDNs /\ w.obj.uid <= uids[p]
    BY <1>6 DEF WorkerInv
  <2>2. w \in Worker /\ w.obj \in PodState /\ uids[p] \in 0..MaxIncarnations
    BY <1>6 DEF TypeOK
  <2>3. w.obj.uid \in 1..MaxIncarnations /\ s.uid \in 0..MaxIncarnations
    BY <2>2, SnapshotTypes
  <2>4. w.obj.uid <= uids'[p]
    BY <1>3, <2>1, <2>2, <2>3, ConstantsAssumption
  <2>5. s.uid = w.obj.uid => Api(p).uid = w.obj.uid /\ (Api(p).dt => s.dt)
    BY <1>3, <2>1, <2>2, <2>3, ConstantsAssumption
  <2>6. \A i \in 1..Len(hist'[p]) : i \in 1..Len(hist[p]) \/ hist'[p][i] = s
    BY <1>2
  <2>7. CASE w.pc = "addFinalizer"
    <3>1. s.uid = w.obj.uid => \A i \in 1..Len(hist'[p]) : hist'[p][i].uid = w.obj.uid
      <4>1. Api(p).uid = w.obj.uid => \A i \in 1..Len(hist[p]) : hist[p][i].uid = w.obj.uid
        BY <1>6, <2>7, ZenonT(60) DEF WorkerInv
      <4> QED
        BY <1>2, <2>5, <2>6, <4>1
    <3> QED
      BY <1>1, <1>2, <1>6, <2>1, <2>4, <2>7, <3>1 DEF WorkerInv
  <2>8. CASE w.pc \in {"extractIP", "put"}
    BY <1>1, <1>2, <1>3, <1>6, <2>1, <2>4, <2>8, ZenonT(60) DEF WorkerInv
  <2>9. CASE w.pc \in {"delete", "removeFinalizer"}
    <3>1. s.uid = w.obj.uid => s.dt
      <4>1. Len(hist[p]) \in 1..Len(hist[p]) /\ Api(p) = hist[p][Len(hist[p])]
        BY <1>2 DEF Api
      <4> QED
        BY <1>6, <2>5, <2>9, <4>1 DEF WorkerInv
    <3>2. \A i \in 1..Len(hist'[p]) : hist'[p][i].uid = w.obj.uid => hist'[p][i].dt
      <4>1. \A i \in 1..Len(hist[p]) : hist[p][i].uid = w.obj.uid => hist[p][i].dt
        BY <1>6, <2>9 DEF WorkerInv
      <4> QED
        BY <1>2, <2>6, <3>1, <4>1, ZenonT(60)
    <3>3. s.fin => s.uid = w.obj.uid
      BY <1>3, <1>6, <2>9 DEF WorkerInv
    <3> QED
      BY <1>1, <1>2, <1>6, <2>1, <2>4, <2>9, <3>2, <3>3, ZenonT(60) DEF WorkerInv
  <2> QED
    BY <1>6, <2>2, <2>7, <2>8, <2>9 DEF Worker, Steps
<1> QED
  BY <1>4, <1>5, <1>6

\* Such a write preserves the invariant.
LEMMA ClusterWriteInv ==
  ASSUME IInv, TypeOK', NEW p \in Pods, NEW s \in Snapshot, ClusterWrite(p, s)
  PROVE  IInv'
<1>1. TypeOK /\ HistoryInv /\ WorkerInv /\ NoOrphanRecord
  BY DEF IInv
<1>2. uids' \in [Pods -> 0..MaxIncarnations]
  BY DEF TypeOK
<1>3. /\ Api(p)' = s /\ \A q \in Pods \ {p} : Api(q)' = Api(q)
      /\ Api(p).fin => s.uid = Api(p).uid /\ s.fin /\ s.fqdn = Api(p).fqdn
      /\ s.fin => Api(p).fin
      /\ rec' = rec
  BY <1>1, WriteFacts DEF ClusterWrite, Advances
<1>4. HistoryInv'
  <2>1. \A i \in 1..Len(hist[p]) :
           /\ s.fin => hist[p][i].uid = s.uid /\ s.fqdn \in FQDNs
           /\ hist[p][i].fin /\ ~hist[p][i].dt =>
                hist[p][i].uid = s.uid /\ s.fin /\ hist[p][i].fqdn = s.fqdn
    BY <1>1, <1>3 DEF HistoryInv, FinalizerInv
  <2> QED
    BY <1>1, <1>2, <2>1, WriteInv DEF ClusterWrite
<1>5. NoOrphanRecord'
  BY <1>1, <1>3 DEF NoOrphanRecord
<1>6. WorkerInv'
  BY <1>1, <1>2, ClusterWriteWorker
<1> QED
  BY <1>4, <1>5, <1>6 DEF IInv

-----------------------------------------------------------------------------
(* Dropped prefixes *)

\* Consuming a prefix of the histories, by events or by lists, keeps their order.
LEMMA OrderSuffix ==
  ASSUME TypeOK, UidsInv, OrderInv, NEW k \in [Pods -> Nat], Consumes(k), uids' = uids
  PROVE  UidsInv' /\ OrderInv'
<1>1. ASSUME NEW p \in Pods, NEW i \in 1..Len(hist'[p])
      PROVE  i + k[p] \in 1..Len(hist[p]) /\ hist'[p][i] = hist[p][i + k[p]]
  BY Elements DEF Consumes
<1>2. UidsInv'
  BY <1>1 DEF UidsInv
<1>3. OrderInv'
  <2>1. ASSUME NEW p \in Pods, NEW i \in 1..Len(hist'[p]), NEW j \in i..Len(hist'[p])
        PROVE  /\ hist'[p][i].uid = hist'[p][j].uid /\ hist'[p][i].dt => hist'[p][j].dt
               /\ hist'[p][i].uid = Api(p)'.uid /\ Api(p)'.uid # 0 =>
                    hist'[p][j].uid = Api(p)'.uid
    <3>1. k[p] \in Nat /\ Len(hist[p]) \in Nat /\ Len(hist'[p]) = Len(hist[p]) - k[p]
      BY Elements DEF Consumes
    <3>2. j \in 1..Len(hist'[p])
      BY <3>1
    <3>3. i + k[p] \in 1..Len(hist[p]) /\ hist'[p][i] = hist[p][i + k[p]]
      BY <1>1
    <3>4. hist'[p][j] = hist[p][j + k[p]] /\ Api(p)' = Api(p)
      BY <1>1, <3>2 DEF Consumes
    <3>5. j + k[p] \in (i + k[p])..Len(hist[p])
      BY <3>1
    <3> DEFINE a == i + k[p]
               b == j + k[p]
    <3>6. /\ hist[p][a].uid = hist[p][b].uid /\ hist[p][a].dt => hist[p][b].dt
          /\ hist[p][a].uid = Api(p).uid /\ Api(p).uid # 0 => hist[p][b].uid = Api(p).uid
      <4> HIDE DEF a, b
      <4>1. a \in 1..Len(hist[p]) /\ b \in a..Len(hist[p])
        BY <3>3, <3>5 DEF a, b
      <4> QED
        BY <4>1 DEF OrderInv
    <3> QED
      BY <3>3, <3>4, <3>6
  <2> QED
    BY <2>1 DEF OrderInv
<1> QED
  BY <1>2, <1>3

\* A dropped prefix keeps what the history shows of finalizers and what the worker knows.
LEMMA SuffixInv ==
  ASSUME TypeOK, HistoryInv, WorkerInv, NEW k \in [Pods -> Nat], Consumes(k),
         UNCHANGED <<uids, rec>>,
         w' = w \/ w' = Idle
  PROVE  HistoryInv' /\ WorkerInv'
<1>1. ASSUME NEW p \in Pods, NEW i \in 1..Len(hist'[p])
      PROVE  i + k[p] \in 1..Len(hist[p]) /\ hist'[p][i] = hist[p][i + k[p]]
  BY Elements DEF Consumes
<1>2. UidsInv' /\ OrderInv'
  BY OrderSuffix DEF HistoryInv
<1>3. FinalizerInv'
  <2>1. ASSUME NEW p \in Pods, NEW i \in 1..Len(hist'[p])
        PROVE  /\ Api(p)'.fin => hist'[p][i].uid = Api(p)'.uid /\ Api(p)'.fqdn \in FQDNs
               /\ hist'[p][i].fin /\ ~hist'[p][i].dt =>
                    /\ Api(p)'.uid = hist'[p][i].uid
                    /\ Api(p)'.fin
                    /\ Api(p)'.fqdn = hist'[p][i].fqdn
    <3> DEFINE a == i + k[p]
    <3>1. a \in 1..Len(hist[p]) /\ hist'[p][i] = hist[p][a] /\ Api(p)' = Api(p)
      BY <1>1, SMTT(30) DEF Consumes
    <3> HIDE DEF a
    <3>2. /\ Api(p).fin => hist[p][a].uid = Api(p).uid /\ Api(p).fqdn \in FQDNs
          /\ hist[p][a].fin /\ ~hist[p][a].dt =>
               /\ Api(p).uid = hist[p][a].uid
               /\ Api(p).fin
               /\ Api(p).fqdn = hist[p][a].fqdn
      BY <3>1 DEF HistoryInv, FinalizerInv
    <3> QED
      BY <3>1, <3>2
  <2> QED
    BY <2>1 DEF FinalizerInv
<1>4. WorkerInv'
  <2>1. CASE w' = Idle
    BY <2>1, IdleType, SMTT(30) DEF WorkerInv
  <2>2. CASE w' = w /\ w.pc # "idle"
    <3>1. w.pod \in Pods
      BY <2>2 DEF TypeOK
    <3>2. Api(w.pod)' = Api(w.pod)
      BY <2>2, <3>1 DEF Consumes
    <3>3. \A i \in 1..Len(hist'[w.pod]) :
            \E j \in 1..Len(hist[w.pod]) : hist'[w.pod][i] = hist[w.pod][j]
      BY <1>1, <3>1, ZenonT(60)
    <3>4. rec' = rec /\ uids' = uids /\ w' = w
      BY <2>2, ZenonT(60)
    <3>5. CASE w.pc = "addFinalizer"
      <4>1. Api(w.pod)'.uid = w.obj.uid =>
              \A i \in 1..Len(hist'[w.pod]) : hist'[w.pod][i].uid = w.obj.uid
        BY <3>2, <3>3, <3>5 DEF WorkerInv
      <4> QED
        BY <2>2, <3>4, <3>5, <4>1, ZenonT(60) DEF WorkerInv
    <3>6. CASE w.pc \in {"extractIP", "put"}
      BY <2>2, <3>2, <3>4, <3>6, SMTT(30) DEF WorkerInv
    <3>7. CASE w.pc \in {"delete", "removeFinalizer"}
      BY <2>2, <3>2, <3>3, <3>4, <3>7, ZenonT(60) DEF WorkerInv
    <3> QED
      BY <2>2, <3>5, <3>6, <3>7 DEF TypeOK, Worker, Steps
  <2>3. CASE w' = w /\ w.pc = "idle"
    BY <2>3 DEF WorkerInv
  <2> QED
    BY <2>1, <2>2, <2>3, SMTT(30)
<1> QED
  BY <1>2, <1>3, <1>4 DEF HistoryInv

-----------------------------------------------------------------------------
(* Type correctness *)

\* However a call ends, the worker, the queue and the fault count keep their types.
LEMMA ContinueType ==
  ASSUME TypeOK, w.pc # "idle", NEW v \in Worker, Continue(v),
         v.pc # "idle" => v.pod \in Pods /\ v.obj \in PodState
  PROVE  /\ queue' \subseteq Pods
         /\ w' \in Worker
         /\ w'.pc # "idle" => w'.pod \in Pods /\ w'.obj \in PodState
         /\ faults' \in 0..MaxFaults
  BY IdleType, ConstantsAssumption DEF TypeOK, Continue, ReturnRequeue, Fault

\* A step of the worker preserves the types.
LEMMA WorkerStepType ==
  ASSUME TypeOK, WorkerStep
  PROVE  TypeOK'
<1> USE ConstantsAssumption, IdleType
<1>1. CASE AddFinalizer
  <2> DEFINE s == [w.obj EXCEPT !.fin = TRUE]
             v == [w EXCEPT !.pc = "extractIP", !.obj = s]
  <2>1. s \in PodState /\ s \in Snapshot /\ w.pod \in Pods
    BY <1>1, SnapshotTypes DEF AddFinalizer, TypeOK, PodState
  <2>2. v \in Worker /\ v.pc = "extractIP" /\ v.pod = w.pod /\ v.obj = s
    BY <2>1 DEF TypeOK, Worker, Steps
  <2>3. Write(w.pod, s) /\ Continue(v)
    BY <1>1 DEF AddFinalizer
  <2>4. w.pc # "idle"
    BY <1>1 DEF AddFinalizer
  <2> HIDE DEF s, v
  <2>5. hist' \in [Pods -> Seq(Snapshot)] /\ \A q \in Pods : Len(hist'[q]) > 0
    BY <2>1, <2>3, WriteFacts
  <2>6. /\ queue' \subseteq Pods
        /\ w' \in Worker
        /\ w'.pc # "idle" => w'.pod \in Pods /\ w'.obj \in PodState
        /\ faults' \in 0..MaxFaults
    BY <2>1, <2>2, <2>3, <2>4, ContinueType
  <2> QED
    BY <1>1, <2>5, <2>6 DEF AddFinalizer, TypeOK
<1>2. CASE ExtractIP
  <2>1. CASE w.idx <= NumClaims
    <3> DEFINE ip == ClaimIP(w.obj, w.pod, w.idx)
    <3>1. ip \in IPs \cup {None}
      <4>1. CASE w.idx \in w.obj.bound
        <5>1. <<w.pod, w.obj.uid, w.idx>> \in Claims
          BY <1>2, <4>1, ZenonT(60) DEF ExtractIP, TypeOK, PodState, Claims
        <5> QED
          BY <4>1, <5>1 DEF TypeOK, ClaimIP
      <4>2. CASE w.idx \notin w.obj.bound
        BY <4>2 DEF ClaimIP
      <4> QED
        BY <4>1, <4>2
    <3>2. w' = (IF ip = None THEN [w EXCEPT !.idx = @ + 1]
                             ELSE [w EXCEPT !.pc = "put", !.ip = ip])
      BY <1>2, <2>1 DEF ExtractIP, TypeOK, Worker
    <3> HIDE DEF ip
    <3>3. w' \in Worker /\ w'.pod = w.pod /\ w'.obj = w.obj
      <4>1. w \in Worker
        BY DEF TypeOK
      <4>2. CASE ip = None
        BY <3>2, <4>1, <4>2 DEF Worker
      <4>3. CASE ip # None
        BY <3>1, <3>2, <4>1, <4>3 DEF Worker, Steps
      <4> QED
        BY <4>2, <4>3
    <3> QED
      BY <1>2, <2>1, <3>3, SMTT(30) DEF ExtractIP, TypeOK, Worker
  <2>2. CASE ~(w.idx <= NumClaims)
    BY <1>2, <2>2 DEF ExtractIP, TypeOK, ReturnRequeue
  <2> QED
    BY <2>1, <2>2
<1>3. CASE Put
  <2>1. w.ip \in IPs \cup {None}
    BY DEF TypeOK, Worker
  <2>2. rec' \in [FQDNs \X Pods -> IPs \cup {None}]
    BY <1>3, <2>1 DEF Put, TypeOK
  <2>3. /\ queue' \subseteq Pods
        /\ w' \in Worker
        /\ w'.pc # "idle" => w'.pod \in Pods /\ w'.obj \in PodState
        /\ faults' \in 0..MaxFaults
    BY <1>3, ContinueType DEF Put
  <2> QED
    BY <1>3, <2>2, <2>3 DEF Put, TypeOK
<1>4. CASE Delete
  <2> DEFINE v == [w EXCEPT !.pc = "removeFinalizer"]
  <2>1. v \in Worker /\ v.pod = w.pod /\ v.obj = w.obj
    BY DEF TypeOK, Worker, Steps
  <2>2. Continue(v)
    BY <1>4 DEF Delete
  <2>3. w.pc # "idle" /\ w.pod \in Pods /\ w.obj \in PodState
    BY <1>4 DEF Delete, TypeOK
  <2>4. rec' \in [FQDNs \X Pods -> IPs \cup {None}]
    BY <1>4 DEF Delete, TypeOK
  <2> HIDE DEF v
  <2>5. /\ queue' \subseteq Pods
        /\ w' \in Worker
        /\ w'.pc # "idle" => w'.pod \in Pods /\ w'.obj \in PodState
        /\ faults' \in 0..MaxFaults
    BY <2>1, <2>2, <2>3, ContinueType
  <2> QED
    BY <1>4, <2>4, <2>5 DEF Delete, TypeOK
<1>5. CASE RemoveFinalizer
  <2> DEFINE s == Stored([w.obj EXCEPT !.fin = FALSE])
  <2>1. [w.obj EXCEPT !.fin = FALSE] \in PodState /\ w.pod \in Pods
    BY <1>5 DEF RemoveFinalizer, TypeOK, PodState
  <2>2. s \in Snapshot
    BY <2>1, SnapshotTypes
  <2>3. Write(w.pod, s)
    BY <1>5 DEF RemoveFinalizer
  <2> HIDE DEF s
  <2>4. hist' \in [Pods -> Seq(Snapshot)] /\ \A q \in Pods : Len(hist'[q]) > 0
    BY <2>1, <2>2, <2>3, WriteFacts
  <2>5. /\ queue' \subseteq Pods
        /\ w' \in Worker
        /\ w'.pc # "idle" => w'.pod \in Pods /\ w'.obj \in PodState
        /\ faults' \in 0..MaxFaults
    BY <1>5, ContinueType DEF RemoveFinalizer
  <2> QED
    BY <1>5, <2>4, <2>5 DEF RemoveFinalizer, TypeOK
<1>6. CASE CallFails
  BY <1>6 DEF CallFails, TypeOK, ReturnRequeue, Fault
<1> QED
  BY <1>1, <1>2, <1>3, <1>4, <1>5, <1>6 DEF WorkerStep

\* The manager's other steps and the cluster's preserve the types.
LEMMA ClusterType ==
  ASSUME TypeOK, Next, ~WorkerStep
  PROVE  TypeOK'
<1> USE ConstantsAssumption, IdleType
<1>1. ASSUME NEW p \in Pods, Dequeue(p)
      PROVE  TypeOK'
  <2>1. Cached(p) \in Snapshot
    BY Elements
  <2>2. CASE FirstStep(Cached(p)) = "idle"
    BY <1>1, <2>2 DEF Dequeue, TypeOK
  <2>3. CASE FirstStep(Cached(p)) # "idle"
    <3> DEFINE v == [Idle EXCEPT !.pc = FirstStep(Cached(p)), !.pod = p, !.obj = Cached(p)]
    <3>1. w' = v
      BY <1>1, <2>3 DEF Dequeue
    <3>2. Cached(p) \in PodState
      BY <2>1, <2>3, SnapshotTypes DEF FirstStep
    <3>3. FirstStep(Cached(p)) \in Steps
      BY DEF FirstStep, Steps
    <3>4. v \in Worker /\ v.pod = p /\ v.obj = Cached(p)
      BY <2>1, <3>3 DEF Idle, Worker
    <3> HIDE DEF v
    <3> QED
      BY <1>1, <3>1, <3>2, <3>4 DEF Dequeue, TypeOK
  <2> QED
    BY <2>2, <2>3
<1>2. ASSUME NEW p \in Pods, Deliver(p)
      PROVE  TypeOK'
  <2>1. hist' \in [Pods -> Seq(Snapshot)] /\ \A q \in Pods : Len(hist'[q]) > 0
    BY <1>2, DeliverFacts DEF Deliver
  <2> QED
    BY <1>2, <2>1 DEF Deliver, Notify, TypeOK
<1>3. ASSUME NEW p \in Pods, Relist(p)
      PROVE  TypeOK'
  <2>1. <<Api(p)>> \in Seq(Snapshot) /\ Len(<<Api(p)>>) > 0
    BY Elements
  <2>2. hist' \in [Pods -> Seq(Snapshot)] /\ \A q \in Pods : Len(hist'[q]) > 0
    BY <1>3, <2>1 DEF Relist, TypeOK
  <2> QED
    BY <1>3, <2>2 DEF Relist, Notify, TypeOK
<1>4. ASSUME NEW p \in Pods, Resync(p)
      PROVE  TypeOK'
  BY <1>4 DEF Resync, TypeOK
<1>5. ASSUME NEW c \in Claims, DeliverClaim(c)
      PROVE  TypeOK'
  BY <1>5 DEF DeliverClaim, TypeOK
<1>6. CASE Restart
  <2>1. ASSUME NEW p \in Pods
        PROVE  <<Api(p)>> \in Seq(Snapshot) /\ Len(<<Api(p)>>) > 0
    BY Elements
  <2>2. hist' \in [Pods -> Seq(Snapshot)] /\ \A q \in Pods : Len(hist'[q]) > 0
    BY <1>6, <2>1 DEF Restart
  <2> QED
    BY <1>6, <2>2 DEF Restart, Fault, TypeOK
<1>7. ASSUME NEW p \in Pods, NEW t \in Templates, CreatePod(p, t)
      PROVE  TypeOK'
  <2> DEFINE s == [NoPod EXCEPT !.uid = uids[p] + 1, !.label = t.label, !.fqdn = t.fqdn]
  <2>1. s \in Snapshot
    <3>1. t.label \in BOOLEAN /\ t.fqdn \in FQDNs \cup {None}
      OBVIOUS
    <3>2. uids[p] + 1 \in 1..MaxIncarnations
      BY <1>7 DEF CreatePod, TypeOK
    <3>3. s \in PodState
      BY <3>1, <3>2 DEF NoPod, PodState
    <3> QED
      BY <3>3, SnapshotTypes
  <2>2. Write(p, s)
    BY <1>7 DEF CreatePod
  <2> HIDE DEF s
  <2>3. hist' \in [Pods -> Seq(Snapshot)] /\ \A q \in Pods : Len(hist'[q]) > 0
    BY <2>1, <2>2, WriteFacts
  <2>4. uids' \in [Pods -> 0..MaxIncarnations]
    BY <1>7 DEF CreatePod, TypeOK
  <2>5. published' \in [Pods -> SUBSET IPs]
    BY <1>7 DEF CreatePod, TypeOK
  <2> QED
    BY <1>7, <2>3, <2>4, <2>5 DEF CreatePod, TypeOK
<1>8. ASSUME NEW p \in Pods, NEW i \in 1..NumClaims, BindClaim(p, i)
      PROVE  TypeOK'
  <2> DEFINE s == [Api(p) EXCEPT !.bound = @ \cup {i}]
  <2>1. Api(p) \in PodState
    BY <1>8, Elements, SnapshotTypes DEF BindClaim
  <2>2. s \in Snapshot
    BY <2>1, SnapshotTypes DEF PodState
  <2>3. Write(p, s)
    BY <1>8 DEF BindClaim
  <2> HIDE DEF s
  <2>4. hist' \in [Pods -> Seq(Snapshot)] /\ \A q \in Pods : Len(hist'[q]) > 0
    BY <2>2, <2>3, WriteFacts
  <2> QED
    BY <1>8, <2>4 DEF BindClaim, TypeOK
<1>9. ASSUME NEW p \in Pods, NEW i \in 1..NumClaims, NEW ip \in IPs, PublishIP(p, i, ip)
      PROVE  TypeOK'
  <2>1. claims' \in [Claims -> IPs \cup {None}]
    BY <1>9 DEF PublishIP, TypeOK
  <2>2. published' \in [Pods -> SUBSET IPs]
    BY <1>9 DEF PublishIP, TypeOK
  <2>3. faults' \in 0..MaxFaults
    BY <1>9 DEF PublishIP, Fault, TypeOK
  <2> QED
    BY <1>9, <2>1, <2>2, <2>3 DEF PublishIP, TypeOK
<1>10. ASSUME NEW p \in Pods, NEW over \in BOOLEAN, DeletePod(p, over)
       PROVE  TypeOK'
  <2> DEFINE s == Stored([Api(p) EXCEPT !.dt = TRUE, !.over = over])
  <2>1. Api(p) \in PodState
    BY <1>10, Elements, SnapshotTypes DEF DeletePod
  <2>2. s \in Snapshot
    BY <2>1, SnapshotTypes DEF PodState
  <2>3. Write(p, s)
    BY <1>10 DEF DeletePod
  <2> HIDE DEF s
  <2>4. hist' \in [Pods -> Seq(Snapshot)] /\ \A q \in Pods : Len(hist'[q]) > 0
    BY <2>2, <2>3, WriteFacts
  <2> QED
    BY <1>10, <2>4 DEF DeletePod, TypeOK
<1>11. ASSUME NEW p \in Pods, KubeletDone(p)
       PROVE  TypeOK'
  <2> DEFINE s == Stored([Api(p) EXCEPT !.over = TRUE])
  <2>1. Api(p) \in PodState
    BY <1>11, Elements, SnapshotTypes DEF KubeletDone
  <2>2. s \in Snapshot
    BY <2>1, SnapshotTypes DEF PodState
  <2>3. Write(p, s)
    BY <1>11 DEF KubeletDone
  <2> HIDE DEF s
  <2>4. hist' \in [Pods -> Seq(Snapshot)] /\ \A q \in Pods : Len(hist'[q]) > 0
    BY <2>2, <2>3, WriteFacts
  <2> QED
    BY <1>11, <2>4 DEF KubeletDone, TypeOK
<1>12. CASE WipeStore
  BY <1>12 DEF WipeStore, TypeOK
<1> QED
  BY <1>1, <1>2, <1>3, <1>4, <1>5, <1>6, <1>7, <1>8, <1>9, <1>10, <1>11, <1>12 DEF Next

\* The initial state has its types.
LEMMA TypeCorrectInit ==
  ASSUME Init
  PROVE  TypeOK
<1>1. <<NoPod>> \in Seq(Snapshot) /\ Len(<<NoPod>>) > 0
  BY SnapshotTypes
<1>2. hist \in [Pods -> Seq(Snapshot)] /\ \A p \in Pods : Len(hist[p]) > 0
  BY <1>1 DEF Init
<1> QED
  BY <1>2, IdleType, ConstantsAssumption DEF Init, TypeOK

\* Every state of every variable is of its type: caches, queue, worker and store.
THEOREM TypeCorrect == Spec => []TypeOK
<1>1. Init => TypeOK
  BY TypeCorrectInit
<1>2. TypeOK /\ [Next]_vars => TypeOK'
  <2>1. ASSUME TypeOK, UNCHANGED vars PROVE TypeOK'
    BY <2>1 DEF vars, TypeOK
  <2> QED
    BY <2>1, WorkerStepType, ClusterType
<1> QED
  BY <1>1, <1>2, PTL DEF Spec

-----------------------------------------------------------------------------
(* What the steps do *)

\* A worker v makes its next call and is n afterwards: what the call may change,
\* in terms of what the invariants tell apart.
Call(v, n) ==
  \/ \E s \in Snapshot :
       /\ v.pc = "addFinalizer" /\ Api(v.pod) = v.obj /\ Write(v.pod, s) /\ rec' = rec
       /\ s.fin /\ s.uid = v.obj.uid /\ s.dt = v.obj.dt /\ s.fqdn = v.obj.fqdn
       /\ n = Idle \/ (n.pc = "extractIP" /\ n.pod = v.pod /\ n.obj = s)
  \/ /\ v.pc = "extractIP" /\ UNCHANGED <<hist, rec>>
     /\ n.pc = "extractIP" \/ (n.pc = "put" /\ n.ip \in IPs)
     /\ n.pod = v.pod /\ n.obj = v.obj
  \/ /\ v.pc = "put" /\ n = Idle /\ hist' = hist
     /\ rec' = [rec EXCEPT ![<<v.obj.fqdn, v.pod>>] = v.ip]
  \/ /\ v.pc = "delete" /\ hist' = hist
     /\ rec' = [rec EXCEPT ![<<v.obj.fqdn, v.pod>>] = None]
     /\ n = Idle \/ (n.pc = "removeFinalizer" /\ n.pod = v.pod /\ n.obj = v.obj)
  \/ \E s \in Snapshot :
       /\ v.pc = "removeFinalizer" /\ Api(v.pod) = v.obj /\ Write(v.pod, s) /\ rec' = rec
       /\ ~s.fin /\ (s = NoPod \/ (s.uid = v.obj.uid /\ s.dt = v.obj.dt))
       /\ n = Idle
  \/ UNCHANGED <<hist, rec>> /\ n = Idle

\* Every step of the worker is such a call, and hands out no uid.
LEMMA WorkerCalls ==
  ASSUME TypeOK, WorkerStep
  PROVE  w.pc # "idle" /\ Call(w, w') /\ UNCHANGED <<uids, wipes>>
<1>1. TypeOK'
  BY WorkerStepType
<1>2. w.pc # "idle" /\ UNCHANGED <<uids, wipes>>
  BY DEF WorkerStep, AddFinalizer, ExtractIP, Put, Delete, RemoveFinalizer, CallFails
<1>3. w \in Worker /\ w.pod \in Pods /\ w.obj \in PodState
  BY <1>2 DEF TypeOK
<1>4. CASE AddFinalizer
  <2> DEFINE s == [w.obj EXCEPT !.fin = TRUE]
             v == [w EXCEPT !.pc = "extractIP", !.obj = s]
  <2>1. /\ s \in Snapshot /\ s.fin /\ s.uid = w.obj.uid /\ s.dt = w.obj.dt
        /\ s.fqdn = w.obj.fqdn
    BY <1>3, SnapshotTypes DEF PodState
  <2>2. v.pc = "extractIP" /\ v.pod = w.pod /\ v.obj = s
    BY <1>3 DEF Worker
  <2>3. /\ w.pc = "addFinalizer" /\ Api(w.pod) = w.obj /\ Write(w.pod, s) /\ rec' = rec
        /\ w' = v \/ w' = Idle
    BY <1>4 DEF AddFinalizer, Continue, ReturnRequeue
  <2> HIDE DEF s, v
  <2> QED
    BY <1>2, <2>1, <2>2, <2>3 DEF Call
<1>5. CASE ExtractIP
  <2>1. w.pc = "extractIP" /\ UNCHANGED <<hist, rec>>
    BY <1>5 DEF ExtractIP
  <2>2. CASE w' = Idle
    BY <1>2, <2>1, <2>2 DEF Call
  <2>3. CASE w' # Idle
    <3>1. /\ w'.pod = w.pod /\ w'.obj = w.obj
          /\ w'.pc = "extractIP" \/ (w'.pc = "put" /\ w'.ip # None)
      BY <1>3, <1>5, <2>3 DEF ExtractIP, ReturnRequeue, Worker
    <3>2. w'.ip \in IPs \cup {None}
      BY <1>1 DEF TypeOK, Worker
    <3> QED
      BY <1>2, <2>1, <3>1, <3>2 DEF Call
  <2> QED
    BY <2>2, <2>3
<1>6. CASE Put
  <2>1. /\ w.pc = "put" /\ w' = Idle /\ hist' = hist
        /\ rec' = [rec EXCEPT ![<<w.obj.fqdn, w.pod>>] = w.ip]
    BY <1>6 DEF Put, Continue, ReturnRequeue
  <2> QED
    BY <1>2, <2>1 DEF Call
<1>7. CASE Delete
  <2> DEFINE v == [w EXCEPT !.pc = "removeFinalizer"]
  <2>1. v.pc = "removeFinalizer" /\ v.pod = w.pod /\ v.obj = w.obj
    BY <1>3 DEF Worker
  <2>2. /\ w.pc = "delete" /\ hist' = hist
        /\ rec' = [rec EXCEPT ![<<w.obj.fqdn, w.pod>>] = None]
        /\ w' = v \/ w' = Idle
    BY <1>7 DEF Delete, Continue, ReturnRequeue
  <2> HIDE DEF v
  <2> QED
    BY <1>2, <2>1, <2>2 DEF Call
<1>8. CASE RemoveFinalizer
  <2> DEFINE r == [w.obj EXCEPT !.fin = FALSE]
             s == Stored(r)
  <2>1. r \in PodState /\ ~r.fin /\ r.uid = w.obj.uid /\ r.dt = w.obj.dt
    BY <1>3, ZenonT(60) DEF PodState
  <2>2. /\ w.pc = "removeFinalizer" /\ Api(w.pod) = w.obj /\ Write(w.pod, s) /\ rec' = rec
        /\ w' = Idle
    BY <1>8 DEF RemoveFinalizer, Continue, ReturnRequeue
  <2> HIDE DEF r
  <2>3. s \in Snapshot /\ ~s.fin /\ (s = NoPod \/ (s.uid = w.obj.uid /\ s.dt = w.obj.dt))
    BY <2>1, SnapshotTypes, ZenonT(60) DEF Stored, NoPod
  <2> HIDE DEF s
  <2> QED
    BY <1>2, <2>2, <2>3 DEF Call
<1>9. CASE CallFails
  <2>1. UNCHANGED <<hist, rec>> /\ w' = Idle
    BY <1>9 DEF CallFails, ReturnRequeue
  <2> QED
    BY <1>2, <2>1 DEF Call
<1> QED
  BY <1>4, <1>5, <1>6, <1>7, <1>8, <1>9 DEF WorkerStep

\* An event, a list and a restart consume a prefix of the histories.
LEMMA Consumed ==
  ASSUME TypeOK, TypeOK'
  PROVE  Restart \/ (\E p \in Pods : Deliver(p) \/ Relist(p)) =>
           \E m \in [Pods -> Nat] : Consumes(m)
<1>1. ASSUME NEW p \in Pods, Deliver(p)
      PROVE  \E m \in [Pods -> Nat] : Consumes(m)
  <2> DEFINE k == [q \in Pods |-> IF q = p THEN 1 ELSE 0]
  <2>1. k \in [Pods -> Nat] /\ k[p] = 1 /\ \A q \in Pods \ {p} : k[q] = 0
    OBVIOUS
  <2>2. /\ Len(hist'[p]) = Len(hist[p]) - 1 /\ Len(hist'[p]) > 0
        /\ \A i \in 1..Len(hist'[p]) : hist'[p][i] = hist[p][i + 1]
        /\ Api(p)' = Api(p)
        /\ \A q \in Pods \ {p} : hist'[q] = hist[q] /\ Api(q)' = Api(q)
    BY <1>1, DeliverFacts DEF Deliver
  <2> HIDE DEF k
  <2>3. ASSUME NEW q \in Pods
        PROVE  /\ Len(hist'[q]) = Len(hist[q]) - k[q]
               /\ Len(hist'[q]) > 0
               /\ \A i \in 1..Len(hist'[q]) : hist'[q][i] = hist[q][i + k[q]]
               /\ Api(q)' = Api(q)
    <3>1. CASE q = p
      BY <2>1, <2>2, <3>1, SMTT(30)
    <3>2. CASE q # p
      BY <2>1, <2>2, <3>2, Elements
    <3> QED
      BY <3>1, <3>2, ZenonT(60)
  <2> QED
    BY <2>1, <2>3, ZenonT(60) DEF Consumes
<1>2. ASSUME NEW p \in Pods, Relist(p)
      PROVE  \E m \in [Pods -> Nat] : Consumes(m)
  <2> DEFINE k == [q \in Pods |-> IF q = p THEN Len(hist[p]) - 1 ELSE 0]
  <2>1. /\ k \in [Pods -> Nat] /\ k[p] = Len(hist[p]) - 1
        /\ \A q \in Pods \ {p} : k[q] = 0
    BY Elements
  <2>2. hist'[p] = <<Api(p)>> /\ \A q \in Pods \ {p} : hist'[q] = hist[q] /\ Api(q)' = Api(q)
    BY <1>2 DEF Relist, TypeOK, Api
  <2>3. Len(hist'[p]) = 1 /\ hist'[p][1] = hist[p][Len(hist[p])] /\ Api(p)' = Api(p)
    BY <2>2, RelistFacts, SMTT(30) DEF TypeOK, Api
  <2> HIDE DEF k
  <2>4. ASSUME NEW q \in Pods
        PROVE  /\ Len(hist'[q]) = Len(hist[q]) - k[q]
               /\ Len(hist'[q]) > 0
               /\ \A i \in 1..Len(hist'[q]) : hist'[q][i] = hist[q][i + k[q]]
               /\ Api(q)' = Api(q)
    <3>1. CASE q = p
      <4>1. /\ Len(hist'[p]) = Len(hist[p]) - k[p]
            /\ Len(hist'[p]) > 0
            /\ \A i \in 1..Len(hist'[p]) : hist'[p][i] = hist[p][i + k[p]]
        BY <2>1, <2>3, Elements
      <4> QED
        BY <2>3, <3>1, <4>1
    <3>2. CASE q # p
      BY <2>1, <2>2, <3>2, Elements
    <3> QED
      BY <3>1, <3>2
  <2> QED
    BY <2>1, <2>4 DEF Consumes
<1>3. CASE Restart
  <2> DEFINE k == [q \in Pods |-> Len(hist[q]) - 1]
  <2>1. k \in [Pods -> Nat] /\ \A q \in Pods : k[q] = Len(hist[q]) - 1
    BY Elements, SMTT(30)
  <2> HIDE DEF k
  <2>2. ASSUME NEW q \in Pods
        PROVE  /\ Len(hist'[q]) = Len(hist[q]) - k[q]
               /\ Len(hist'[q]) > 0
               /\ \A i \in 1..Len(hist'[q]) : hist'[q][i] = hist[q][i + k[q]]
               /\ Api(q)' = Api(q)
    <3>1. hist'[q] = <<Api(q)>>
      BY <1>3, SMTT(30) DEF Restart
    <3>2. Len(hist'[q]) = 1 /\ hist'[q][1] = hist[q][Len(hist[q])] /\ Api(q)' = Api(q)
      BY <3>1, RelistFacts DEF TypeOK, Api
    <3> QED
      BY <2>1, <3>2, Elements
  <2> QED
    BY <2>1, <2>2 DEF Consumes
<1> QED
  BY <1>1, <1>2, <1>3, ZenonT(60)

\* Everyone but the reconciler writes Pods in this way only.
LEMMA ClusterWrites ==
  ASSUME TypeOK, UidsInv, NEW p \in Pods
  PROVE  \/ \E t \in Templates : CreatePod(p, t)
         \/ \E i \in 1..NumClaims : BindClaim(p, i)
         \/ \E over \in BOOLEAN : DeletePod(p, over)
         \/ KubeletDone(p)
         => \E o \in Snapshot : ClusterWrite(p, o)
<1> USE ConstantsAssumption
<1>1. ASSUME NEW t \in Templates, CreatePod(p, t)
      PROVE  \E o \in Snapshot : ClusterWrite(p, o)
  <2> DEFINE s == [NoPod EXCEPT !.uid = uids[p] + 1, !.label = t.label, !.fqdn = t.fqdn]
  <2>1. /\ Write(p, s) /\ UNCHANGED <<w, rec>> /\ Api(p).uid = 0
        /\ uids[p] \in Nat /\ uids[p] + 1 \in 1..MaxIncarnations
        /\ uids'[p] = uids[p] + 1 /\ \A q \in Pods \ {p} : uids'[q] = uids[q]
    BY <1>1 DEF CreatePod, TypeOK
  <2>2. t.label \in BOOLEAN /\ t.fqdn \in FQDNs \cup {None}
    OBVIOUS
  <2>3. s \in PodState /\ ~s.fin /\ s.uid = uids[p] + 1
    BY <2>1, <2>2, ZenonT(60) DEF PodState, NoPod
  <2>4. ~Api(p).fin
    BY <2>1, Elements, SnapshotTypes, SMTT(30) DEF PodState, NoPod
  <2> HIDE DEF s
  <2>5. /\ s \in Snapshot /\ uids[p] <= uids'[p] /\ s.uid <= uids'[p] /\ s.uid > uids[p]
    <3> HIDE ConstantsAssumption
    <3>1. s \in Snapshot
      BY <2>3, SnapshotTypes, ZenonT(60)
    <3>2. uids[p] <= uids'[p] /\ s.uid <= uids'[p] /\ s.uid > uids[p]
      BY <2>1, <2>3, SMTT(30)
    <3> QED
      BY <3>1, <3>2
  <2> QED
    BY <2>1, <2>3, <2>4, <2>5 DEF ClusterWrite, Advances
<1>2. ASSUME NEW s \in Snapshot, Write(p, s), UNCHANGED <<uids, w, rec>>,
             \/ /\ s.uid = Api(p).uid /\ s.fqdn = Api(p).fqdn /\ s.fin = Api(p).fin
                /\ Api(p).dt => s.dt
             \/ s = NoPod /\ ~Api(p).fin
      PROVE  \E o \in Snapshot : ClusterWrite(p, o)
  <2>1. uids[p] \in Nat /\ \A q \in Pods : uids'[q] = uids[q]
    BY <1>2, SMTT(30) DEF TypeOK
  <2>2. Api(p).uid <= uids[p]
    BY Elements, SMTT(30) DEF UidsInv, Api
  <2>3. /\ uids[p] <= uids'[p] /\ s.uid <= uids'[p] /\ (s = NoPod => ~s.fin)
    BY <1>2, <2>1, <2>2, SMTT(30) DEF NoPod
  <2> QED
    BY <1>2, <2>1, <2>3, ZenonT(60) DEF ClusterWrite, Advances
<1>3. ASSUME NEW i \in 1..NumClaims, BindClaim(p, i)
      PROVE  \E o \in Snapshot : ClusterWrite(p, o)
  <2> DEFINE s == [Api(p) EXCEPT !.bound = @ \cup {i}]
  <2>1. Api(p) \in PodState
    BY <1>3, Elements, SnapshotTypes DEF BindClaim
  <2>2. /\ s \in PodState /\ s.uid = Api(p).uid /\ s.fqdn = Api(p).fqdn
        /\ s.fin = Api(p).fin /\ s.dt = Api(p).dt
    BY <2>1 DEF PodState
  <2>3. Write(p, s) /\ UNCHANGED <<uids, w, rec>>
    BY <1>3, SMTT(30) DEF BindClaim
  <2> HIDE DEF s
  <2> QED
    BY <1>2, <2>2, <2>3, SnapshotTypes
<1>4. ASSUME NEW over \in BOOLEAN, DeletePod(p, over)
      PROVE  \E o \in Snapshot : ClusterWrite(p, o)
  <2> DEFINE r == [Api(p) EXCEPT !.dt = TRUE, !.over = over]
             s == Stored(r)
  <2>1. Api(p) \in PodState
    BY <1>4, Elements, SnapshotTypes DEF DeletePod
  <2>2. /\ r \in PodState /\ r.uid = Api(p).uid /\ r.fqdn = Api(p).fqdn
        /\ r.fin = Api(p).fin /\ r.dt
    BY <2>1 DEF PodState
  <2>3. Write(p, s) /\ UNCHANGED <<uids, w, rec>>
    BY <1>4 DEF DeletePod
  <2> HIDE DEF r
  <2>4. s \in Snapshot /\ (s = r \/ (s = NoPod /\ ~Api(p).fin))
    BY <2>2, SnapshotTypes DEF Stored
  <2> HIDE DEF s
  <2> QED
    BY <1>2, <2>2, <2>3, <2>4
<1>5. ASSUME KubeletDone(p)
      PROVE  \E o \in Snapshot : ClusterWrite(p, o)
  <2> DEFINE r == [Api(p) EXCEPT !.over = TRUE]
             s == Stored(r)
  <2>1. Api(p) \in PodState
    BY <1>5, Elements, SnapshotTypes DEF KubeletDone
  <2>2. /\ r \in PodState /\ r.uid = Api(p).uid /\ r.fqdn = Api(p).fqdn
        /\ r.fin = Api(p).fin /\ r.dt = Api(p).dt
    BY <2>1, ZenonT(60) DEF PodState
  <2>3. Write(p, s) /\ UNCHANGED <<uids, w, rec>>
    BY <1>5 DEF KubeletDone
  <2> HIDE DEF r
  <2>4. s \in Snapshot /\ (s = r \/ (s = NoPod /\ ~Api(p).fin))
    BY <2>2, SnapshotTypes DEF Stored
  <2> HIDE DEF s
  <2> QED
    BY <1>2, <2>2, <2>3, <2>4
<1> QED
  BY <1>1, <1>3, <1>4, <1>5

-----------------------------------------------------------------------------
(* The invariant is inductive *)

\* The worker's steps preserve the invariant.
LEMMA WorkerStepInv ==
  ASSUME IInv, WorkerStep
  PROVE  IInv'
<1> USE DEF IInv
<1>1. TypeOK'
  BY WorkerStepType
<1>2. w.pc # "idle" /\ w.pod \in Pods /\ w.obj \in PodState
  <2>1. w.pc # "idle"
    BY DEF WorkerStep, AddFinalizer, ExtractIP, Put, Delete, RemoveFinalizer, CallFails
  <2> QED
    BY <2>1 DEF TypeOK
<1>2a. PICK p \in Pods : p = w.pod
  BY <1>2
<1>3. /\ w.obj.fqdn \in FQDNs
      /\ w.obj.uid <= uids[w.pod]
  BY <1>2, ZenonT(60) DEF WorkerInv
<1>4. ASSUME w' = Idle PROVE WorkerInv'
  BY <1>4, IdleType, ZenonT(60) DEF WorkerInv
<1>5. ASSUME UNCHANGED <<hist, uids>> PROVE HistoryInv'
  BY <1>5 DEF HistoryInv, UidsInv, OrderInv, FinalizerInv, Api
<1>6. ASSUME UNCHANGED <<hist, rec>> PROVE NoOrphanRecord'
  BY <1>6 DEF NoOrphanRecord, Api
<1>7. CASE AddFinalizer
  <2> DEFINE s == [w.obj EXCEPT !.fin = TRUE]
  <2>1. /\ s \in Snapshot /\ s.fin /\ s.uid = w.obj.uid /\ s.dt = w.obj.dt
        /\ s.fqdn = w.obj.fqdn
    BY <1>2, SnapshotTypes DEF PodState
  <2>2. Write(w.pod, s) /\ Api(w.pod) = w.obj /\ UNCHANGED <<uids, rec>>
    BY <1>7 DEF AddFinalizer
  <2>3. /\ ~w.obj.fin
        /\ \A i \in 1..Len(hist[w.pod]) : hist[w.pod][i].uid = w.obj.uid
    BY <1>2, <1>7, <2>2 DEF WorkerInv, AddFinalizer
  <2>4. w' = [w EXCEPT !.pc = "extractIP", !.obj = s] \/ w' = Idle
    BY <1>7 DEF AddFinalizer, Continue, ReturnRequeue
  <2> HIDE DEF s
  <2>5. HistoryInv'
    <3>1. \A i \in 1..Len(hist[w.pod]) : hist[w.pod][i].fin => hist[w.pod][i].dt
      BY <1>2, <2>2, <2>3 DEF HistoryInv, FinalizerInv
    <3>2. \A q \in Pods : uids'[q] = uids[q] /\ uids[q] <= uids'[q]
      BY <2>2, ConstantsAssumption, SMTT(30) DEF TypeOK
    <3>3. uids' \in [Pods -> 0..MaxIncarnations] /\ s.uid <= uids'[w.pod]
      BY <1>3, <2>1, <2>2, ZenonT(60) DEF TypeOK
    <3>4. s.uid = Api(w.pod).uid /\ (Api(w.pod).dt => s.dt)
      BY <2>1, <2>2
    <3> QED
      <4>1. Advances(w.pod, s)
        BY <1>2, <2>2, <3>2, <3>3, <3>4 DEF Advances
      <4> QED
        BY <1>2, <1>3, <2>1, <2>3, <3>1, <3>3, <4>1, WriteInv, SMTT(30)
  <2>6. Api(p)' = s /\ \A q \in Pods \ {p} : Api(q)' = Api(q)
    BY <1>2a, <2>1, <2>2, WriteFacts
  <2>7. NoOrphanRecord'
    BY <1>2a, <2>2, <2>3, <2>6, SMTT(30) DEF NoOrphanRecord
  <2>8. CASE w' = [w EXCEPT !.pc = "extractIP", !.obj = s]
    <3>1. w'.pc = "extractIP" /\ w'.obj = s /\ w'.pod = w.pod
      BY <2>8 DEF TypeOK, Worker
    <3>2. Api(w.pod)' = s
      BY <1>2a, <2>6, <3>1 DEF Api
    <3> QED
      BY <1>1, <1>3, <2>1, <2>2, <2>5, <2>7, <3>1, <3>2 DEF WorkerInv
  <2> QED
    BY <1>1, <1>4, <2>4, <2>5, <2>7, <2>8
<1>8. CASE ExtractIP
  <2>1. UNCHANGED <<hist, uids, rec>>
    BY <1>8 DEF ExtractIP
  <2>2. CASE w' # Idle
    <3>1. /\ w'.pod = w.pod /\ w'.obj = w.obj /\ w.pc = "extractIP"
          /\ w'.pc = "extractIP" \/ (w'.pc = "put" /\ w'.ip # None)
      BY <1>8, <2>2 DEF ExtractIP, ReturnRequeue, TypeOK, Worker
    <3>2. w'.ip \in IPs \cup {None}
      BY <1>1 DEF TypeOK, Worker
    <3>3. Api(w.pod)' = Api(w.pod)
      BY <2>1, <3>1 DEF Api
    <3>4. WorkerInv'
      BY <1>2, <1>3, <2>1, <3>1, <3>2, <3>3, ZenonT(60) DEF WorkerInv
    <3> QED
      BY <1>1, <1>5, <1>6, <2>1, <3>4
  <2> QED
    BY <1>1, <1>4, <1>5, <1>6, <2>1, <2>2
<1>9. CASE Put
  <2>1. w' = Idle /\ UNCHANGED <<hist, uids>>
    BY <1>9, ZenonT(60) DEF Put, Continue, ReturnRequeue
  <2>2. Api(w.pod).fin /\ Api(w.pod).fqdn = w.obj.fqdn
    BY <1>2, <1>9 DEF Put, WorkerInv
  <2>3. \A f \in FQDNs, q \in Pods :
          rec'[<<f, q>>] # rec[<<f, q>>] => f = w.obj.fqdn /\ q = w.pod
    BY <1>9 DEF Put, TypeOK
  <2>4. NoOrphanRecord'
    BY <2>1, <2>2, <2>3 DEF NoOrphanRecord, Api
  <2> QED
    BY <1>1, <1>4, <1>5, <2>1, <2>4
<1>10. CASE Delete
  <2>1. /\ UNCHANGED <<hist, uids>>
        /\ w' = [w EXCEPT !.pc = "removeFinalizer"] \/ w' = Idle
    BY <1>10 DEF Delete, Continue, ReturnRequeue
  <2>2. /\ rec'[<<w.obj.fqdn, w.pod>>] = None
        /\ \A f \in FQDNs, q \in Pods : rec'[<<f, q>>] # None => rec'[<<f, q>>] = rec[<<f, q>>]
    BY <1>2, <1>3, <1>10 DEF Delete, TypeOK
  <2>3. NoOrphanRecord'
    BY <2>1, <2>2 DEF NoOrphanRecord, Api
  <2>4. CASE w' = [w EXCEPT !.pc = "removeFinalizer"]
    <3>1. w'.pc = "removeFinalizer" /\ w'.obj = w.obj /\ w'.pod = w.pod /\ w.pc = "delete"
      BY <1>10, <2>4 DEF Delete, TypeOK, Worker
    <3>2. WorkerInv'
      BY <1>2, <1>3, <2>1, <2>2, <3>1 DEF WorkerInv, Api
    <3> QED
      BY <1>1, <1>5, <2>1, <2>3, <3>2
  <2> QED
    BY <1>1, <1>4, <1>5, <2>1, <2>3, <2>4
<1>11. CASE RemoveFinalizer
  <2> DEFINE r == [w.obj EXCEPT !.fin = FALSE]
             s == Stored(r)
  <2>1. Write(w.pod, s) /\ Api(w.pod) = w.obj /\ w' = Idle /\ UNCHANGED <<uids, rec>>
    BY <1>11 DEF RemoveFinalizer, Continue, ReturnRequeue
  <2>2. /\ w.obj.dt /\ rec[<<w.obj.fqdn, w.pod>>] = None
        /\ \A i \in 1..Len(hist[w.pod]) :
             hist[w.pod][i].uid = w.obj.uid => hist[w.pod][i].dt
    BY <1>2, <1>11 DEF RemoveFinalizer, WorkerInv
  <2>3. r \in PodState /\ ~r.fin /\ r.uid = w.obj.uid /\ r.dt = w.obj.dt
    BY <1>2, ZenonT(60) DEF PodState
  <2>4. s \in Snapshot /\ ~s.fin /\ (s = NoPod \/ (s.uid = w.obj.uid /\ s.dt))
    BY <2>2, <2>3, SnapshotTypes DEF Stored, NoPod
  <2> HIDE DEF s, r
  <2>5. HistoryInv'
    <3>1. \A i \in 1..Len(hist[w.pod]) : hist[w.pod][i].fin => hist[w.pod][i].dt
      BY <1>2, <2>1, <2>2 DEF HistoryInv, FinalizerInv
    <3>2. \A q \in Pods : uids'[q] = uids[q] /\ uids[q] <= uids'[q]
      BY <2>1, ConstantsAssumption, SMTT(30) DEF TypeOK
    <3>3. uids' \in [Pods -> 0..MaxIncarnations] /\ s.uid <= uids'[w.pod]
      BY <1>2, <1>3, <2>1, <2>4, ConstantsAssumption DEF TypeOK, NoPod
    <3> QED
      <4>1. Advances(w.pod, s)
        BY <1>2, <2>1, <2>2, <2>4, <3>2, <3>3 DEF Advances
      <4> QED
        BY <1>2, <2>4, <3>1, <3>3, <4>1, WriteInv
  <2>6. Api(p)' = s /\ \A q \in Pods \ {p} : Api(q)' = Api(q)
    BY <1>2a, <2>1, <2>4, WriteFacts
  <2>7. \A f \in FQDNs : rec[<<f, w.pod>>] = None
    BY <1>2, <2>1, <2>2 DEF NoOrphanRecord
  <2>8. NoOrphanRecord'
    BY <1>2a, <2>1, <2>6, <2>7 DEF NoOrphanRecord
  <2> QED
    BY <1>1, <1>4, <2>1, <2>5, <2>8
<1>12. CASE CallFails
  BY <1>1, <1>4, <1>5, <1>6, <1>12 DEF CallFails, ReturnRequeue
<1> QED
  BY <1>7, <1>8, <1>9, <1>10, <1>11, <1>12 DEF WorkerStep

\* The manager's other steps and the cluster's preserve the invariant.
LEMMA ClusterInv ==
  ASSUME IInv, Next, ~WorkerStep
  PROVE  IInv'
<1> USE ConstantsAssumption DEF IInv
<1>1. TypeOK'
  BY ClusterType
<1>2. ASSUME UNCHANGED <<hist, uids, w, rec>> PROVE IInv'
  BY <1>1, <1>2, UnchangedInv, ZenonT(60)
<1>3. ASSUME Restart \/ \E p \in Pods : Deliver(p) \/ Relist(p)
      PROVE  IInv'
  <2>1. PICK k \in [Pods -> Nat] : Consumes(k)
    BY <1>1, <1>3, Consumed
  <2>2. UNCHANGED <<uids, rec>> /\ (w' = w \/ w' = Idle)
    BY <1>3, ZenonT(60) DEF Restart, Deliver, Relist
  <2>3. HistoryInv' /\ WorkerInv'
    BY <2>1, <2>2, SuffixInv
  <2> QED
    BY <1>1, <2>1, <2>2, <2>3, SMTT(30) DEF NoOrphanRecord, Consumes
<1>4. ASSUME NEW p \in Pods, Dequeue(p)
      PROVE  IInv'
  BY <1>1, <1>4, DequeueStepInv
<1>5. ASSUME NEW p \in Pods, Resync(p)
      PROVE  IInv'
  BY <1>2, <1>5 DEF Resync
<1>6. ASSUME NEW c \in Claims, DeliverClaim(c)
      PROVE  IInv'
  BY <1>2, <1>6, SMTT(30) DEF DeliverClaim
<1>7. CASE WipeStore
  BY <1>1, <1>7, WipeInv
<1>8. ASSUME NEW p \in Pods,
              \/ \E t \in Templates : CreatePod(p, t)
              \/ \E i \in 1..NumClaims : BindClaim(p, i)
              \/ \E over \in BOOLEAN : DeletePod(p, over)
              \/ KubeletDone(p)
       PROVE  IInv'
  <2>1. UidsInv
    BY DEF HistoryInv
  <2>2. PICK s \in Snapshot : ClusterWrite(p, s)
    BY <1>8, <2>1, ClusterWrites, ZenonT(60)
  <2> QED
    BY <1>1, <2>2, ClusterWriteInv
<1>9. ASSUME NEW p \in Pods, NEW i \in 1..NumClaims, NEW ip \in IPs, PublishIP(p, i, ip)
       PROVE  IInv'
  BY <1>2, <1>9, ZenonT(60) DEF PublishIP
<1> QED
  BY <1>3, <1>4, <1>5, <1>6, <1>7, <1>8, <1>9, ZenonT(60) DEF Next

\* The invariant holds at the start.
LEMMA InvInit ==
  ASSUME Init
  PROVE  IInv
<1>1. TypeOK
  BY TypeCorrectInit
<1>2. FinalizerInv
  <2>1. ~NoPod.fin
    BY DEF NoPod
  <2>2. ASSUME NEW p \in Pods, NEW i \in 1..Len(hist[p])
        PROVE  ~Api(p).fin /\ ~hist[p][i].fin
    BY <2>1, InitHistory, ZenonT(60)
  <2> QED
    BY <2>2, ZenonT(60) DEF FinalizerInv
<1> QED
  BY <1>1, <1>2, InitHistory DEF Init, IInv, HistoryInv, WorkerInv, NoOrphanRecord, Idle

\* A step, or none, preserves the invariant.
LEMMA InvStep ==
  ASSUME IInv, [Next]_vars
  PROVE  IInv'
<1>1. ASSUME UNCHANGED vars PROVE IInv'
  <2>1. TypeOK'
    BY <1>1 DEF vars, IInv, TypeOK
  <2> QED
    BY <1>1, <2>1, UnchangedInv DEF vars, IInv
<1> QED
  BY <1>1, WorkerStepInv, ClusterInv

\* The invariant holds from the start on.
THEOREM Invariance == Spec => []IInv
<1>1. Init => IInv
  BY InvInit
<1>2. IInv /\ [Next]_vars => IInv'
  BY InvStep
<1> QED
  BY <1>1, <1>2, PTL DEF Spec

\* No record outlives its Pod, for any number of Pods, re-creations, faults and
\* losses of the store.
THEOREM NoOrphans == Spec => []NoOrphanRecord
<1>1. IInv => NoOrphanRecord
  BY DEF IInv
<1> QED
  BY <1>1, Invariance, PTL

=============================================================================
