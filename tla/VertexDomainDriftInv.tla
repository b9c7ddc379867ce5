------------------------ MODULE VertexDomainDriftInv ------------------------
(***************************************************************************)
(* The inductive invariant of VertexDomainDrift, what edits and leftover   *)
(* workers can do to the records, and the lemmas that a worker's call and a*)
(* step of the cluster preserve it.                                        *)
(***************************************************************************)
EXTENDS VertexDomainDrift, VertexDomainProofs

-----------------------------------------------------------------------------
(* The inductive invariant *)

\* The states of Pod name p that the cache holds or will still be told of.
Seen(p) == {hist[p][i] : i \in 1..Len(hist[p])}

\* The leftover worker has the worker's type.
DriftTypeOK ==
  /\ TypeOK
  /\ old \in Worker
  /\ old.pc # "idle" => old.pod \in Pods /\ old.obj \in PodState

\* While the API server's Pod carries the finalizer the informer has seen that
\* very Pod; a live Pod that was seen with the finalizer still has it, and its
\* FQDN unless it was edited.
HeldInv ==
  \A p \in Pods : \A s \in Seen(p) :
    /\ Api(p).fin => s.uid = Api(p).uid
    /\ s.fin /\ ~s.dt => /\ Api(p).uid = s.uid
                         /\ Api(p).fin
                         /\ Api(p).fqdn = s.fqdn \/ <<s.fqdn, p>> \in excused

\* What stays true of the snapshot of any worker v, leftover or not.
Sound(v) ==
  /\ v.obj.fqdn \in FQDNs
  /\ v.obj.uid <= uids[v.pod]
  /\ v.pc = "addFinalizer" =>
       /\ ~v.obj.fin
       /\ ~v.obj.dt
       /\ Api(v.pod).uid = v.obj.uid => \A s \in Seen(v.pod) : s.uid = v.obj.uid
  /\ v.pc = "put" => v.ip \in IPs
  /\ v.pc \in {"delete", "removeFinalizer"} =>
       /\ v.obj.dt
       /\ \A s \in Seen(v.pod) : s.uid = v.obj.uid => s.dt
  /\ v.pc = "removeFinalizer" /\ Api(v.pod).uid = v.obj.uid =>
       rec[<<v.obj.fqdn, v.pod>>] = None \/ <<v.obj.fqdn, v.pod>> \in excused

WorkersInv == \A v \in {w, old} : v.pc # "idle" => Sound(v)

\* What holds of the current worker only: its Pod keeps the finalizer while it is
\* being registered, and no other Pod has it while this one is being deregistered.
CurrentInv ==
  /\ w.pc \in {"extractIP", "put"} =>
       /\ Api(w.pod).uid = w.obj.uid
       /\ Api(w.pod).fin
       /\ Api(w.pod).fqdn = w.obj.fqdn \/ <<w.obj.fqdn, w.pod>> \in excused
  /\ w.pc \in {"delete", "removeFinalizer"} =>
       (Api(w.pod).fin => Api(w.pod).uid = w.obj.uid)

\* The leftover worker read the cache before the current one did.  So if it may
\* still add the finalizer, the current one works on the same Pod; and if it
\* deregisters, the current one does not register that Pod.
LeftoverInv ==
  w.pc # "idle" /\ old.pc # "idle" /\ w.pod = old.pod =>
    /\ old.pc = "addFinalizer" /\ Api(w.pod).uid = old.obj.uid => w.obj.uid = old.obj.uid
    /\ /\ old.pc \in {"delete", "removeFinalizer"}
       /\ w.pc \in {"addFinalizer", "extractIP", "put"}
       => w.obj.uid # old.obj.uid

HistInv == UidsInv /\ OrderInv /\ HeldInv

BothInv == WorkersInv /\ CurrentInv /\ LeftoverInv

DriftInv == DriftTypeOK /\ HistInv /\ BothInv /\ OrphanHasCause

-----------------------------------------------------------------------------
(* Facts about what was seen *)

\* What is seen are snapshots, the cache's and the API server's included.
LEMMA SeenTypes ==
  ASSUME TypeOK, NEW p \in Pods
  PROVE  Seen(p) \subseteq Snapshot /\ Api(p) \in Seen(p) /\ Cached(p) \in Seen(p)
  BY Elements DEF Seen, Api, Cached

\* The API server's state stays and nothing new is seen.
Fades == \A p \in Pods : Seen(p)' \subseteq Seen(p) /\ Api(p)' = Api(p)

\* So it is when the informers consume, and when no history changes.
LEMMA ConsumesFades ==
  ASSUME TypeOK, NEW k \in [Pods -> Nat], Consumes(k)
  PROVE  Fades
<1> SUFFICES ASSUME NEW p \in Pods
             PROVE  Seen(p)' \subseteq Seen(p) /\ Api(p)' = Api(p)
  BY DEF Fades
<1>1. \A i \in 1..Len(hist'[p]) :
        i + k[p] \in 1..Len(hist[p]) /\ hist'[p][i] = hist[p][i + k[p]]
  BY Elements DEF Consumes
<1>2. Seen(p)' \subseteq Seen(p)
  BY <1>1, ZenonT(30) DEF Seen
<1> QED
  BY <1>2 DEF Consumes

\* A step that leaves the histories alone shows nothing new.
LEMMA UnchangedFades ==
  ASSUME hist' = hist
  PROVE  Fades
  BY DEF Fades, Seen, Api

\* A write adds one state to what is seen of that name.
LEMMA WriteSeen ==
  ASSUME TypeOK, NEW p \in Pods, NEW s \in Snapshot, Write(p, s)
  PROVE  /\ Seen(p)' = Seen(p) \cup {s}
         /\ Api(p)' = s
         /\ \A q \in Pods \ {p} : Seen(q)' = Seen(q) /\ Api(q)' = Api(q)
<1>1. /\ Len(hist'[p]) = Len(hist[p]) + 1
      /\ \A i \in 1..Len(hist[p]) : hist'[p][i] = hist[p][i]
      /\ hist'[p][Len(hist[p]) + 1] = s
      /\ Api(p)' = s
      /\ \A q \in Pods \ {p} : hist'[q] = hist[q] /\ Api(q)' = Api(q)
  BY WriteFacts
<1>2. Len(hist[p]) \in Nat
  BY Elements
<1>3. Seen(p)' = Seen(p) \cup {s}
  <2>1. 1..Len(hist'[p]) = 1..Len(hist[p]) \cup {Len(hist[p]) + 1}
    BY <1>1, <1>2
  <2>2. \A i \in 1..Len(hist[p]) : hist'[p][i] \in Seen(p)
    BY <1>1 DEF Seen
  <2>3. Seen(p)' \subseteq Seen(p) \cup {s}
    BY <1>1, <2>1, <2>2 DEF Seen
  <2>4. Seen(p) \subseteq Seen(p)' /\ s \in Seen(p)'
    BY <1>1, <2>1 DEF Seen
  <2> QED
    BY <2>3, <2>4
<1> QED
  BY <1>1, <1>3 DEF Seen

-----------------------------------------------------------------------------
(* What a step of somebody else leaves true of a worker *)

\* Nothing new is seen: only a record written under v's key could hurt.
LEMMA SoundFades ==
  ASSUME NEW v, v.pod \in Pods, Sound(v), Fades, uids' = uids, excused \subseteq excused',
         v.pc = "removeFinalizer" /\ Api(v.pod).uid = v.obj.uid =>
           \/ rec'[<<v.obj.fqdn, v.pod>>] \in {None, rec[<<v.obj.fqdn, v.pod>>]}
           \/ <<v.obj.fqdn, v.pod>> \in excused'
  PROVE  Sound(v)'
<1>1. Seen(v.pod)' \subseteq Seen(v.pod) /\ Api(v.pod)' = Api(v.pod)
  BY DEF Fades
<1> QED
  BY <1>1 DEF Sound

\* A Pod is advanced, removed or created.
LEMMA SoundWrite ==
  ASSUME TypeOK, TypeOK', NEW p \in Pods, NEW s \in Snapshot, Advances(p, s),
         rec' = rec, excused \subseteq excused',
         NEW v, v.pod \in Pods, v.obj \in PodState, Sound(v)
  PROVE  Sound(v)'
<1>1. CASE v.pod # p
  <2>1. /\ Seen(v.pod)' = Seen(v.pod) /\ Api(v.pod)' = Api(v.pod)
        /\ uids'[v.pod] = uids[v.pod]
    BY <1>1, WriteSeen DEF Advances
  <2> QED
    BY <2>1 DEF Sound
<1>2. CASE v.pod = p
  <2>1. Seen(p)' = Seen(p) \cup {s} /\ Api(p)' = s /\ Api(p) \in Seen(p)
    BY WriteSeen, SeenTypes DEF Advances
  <2>2. /\ v.obj.uid \in Nat \ {0} /\ uids[p] \in Nat /\ uids'[p] \in Nat
        /\ s.uid \in Nat /\ v.obj.uid <= uids[p]
    BY <1>2, SnapshotTypes, ConstantsAssumption DEF TypeOK, Sound
  <2>3. v.obj.uid <= uids'[p]
    BY <2>2 DEF Advances
  <2>4. s.uid = v.obj.uid => Api(p).uid = v.obj.uid /\ (Api(p).dt => s.dt)
    BY <2>2 DEF Advances, NoPod
  <2> QED
    BY <1>2, <2>1, <2>3, <2>4 DEF Sound
<1> QED
  BY <1>1, <1>2

\* The history invariant survives when nothing new is seen.
LEMMA HeldFades ==
  ASSUME HeldInv, Fades, excused \subseteq excused'
  PROVE  HeldInv'
  BY DEF HeldInv, Fades

\* It survives a write that respects the finalizers that were seen.
LEMMA HeldWrite ==
  ASSUME TypeOK, HeldInv, NEW p \in Pods, NEW s \in Snapshot, Write(p, s),
         excused \subseteq excused',
         \A r \in Seen(p) :
           /\ s.fin => r.uid = s.uid
           /\ r.fin /\ ~r.dt => /\ r.uid = s.uid
                                /\ s.fin
                                /\ s.fqdn = r.fqdn \/ <<r.fqdn, p>> \in excused'
  PROVE  HeldInv'
<1>1. /\ Seen(p)' = Seen(p) \cup {s} /\ Api(p)' = s
      /\ \A q \in Pods \ {p} : Seen(q)' = Seen(q) /\ Api(q)' = Api(q)
  BY WriteSeen
<1>2. ASSUME NEW q \in Pods, NEW r \in Seen(q)'
      PROVE  /\ Api(q)'.fin => r.uid = Api(q)'.uid
             /\ r.fin /\ ~r.dt =>
                  /\ Api(q)'.uid = r.uid
                  /\ Api(q)'.fin
                  /\ Api(q)'.fqdn = r.fqdn \/ <<r.fqdn, q>> \in excused'
  <2>1. CASE q = p
    BY <1>1, <1>2, <2>1
  <2>2. CASE q # p
    BY <1>1, <1>2, <2>2 DEF HeldInv
  <2> QED
    BY <2>1, <2>2
<1> QED
  BY <1>2 DEF HeldInv

-----------------------------------------------------------------------------
(* Calls *)

\* An accepted Update advances the Pod or removes it.
LEMMA UpdateAdvances ==
  ASSUME TypeOK, uids' = uids, NEW v, v.pod \in Pods, v.obj \in PodState, Sound(v),
         NEW s \in Snapshot, Write(v.pod, s), Api(v.pod) = v.obj,
         s = NoPod \/ (s.uid = v.obj.uid /\ s.dt = v.obj.dt)
  PROVE  Advances(v.pod, s)
<1>1. uids[v.pod] \in Nat /\ v.obj.uid <= uids[v.pod]
  BY ConstantsAssumption DEF TypeOK, Sound
<1>2. s.uid <= uids[v.pod]
  BY <1>1 DEF NoPod
<1> QED
  BY <1>1, <1>2 DEF Advances

\* What a call of one worker leaves true of another, u: only a Put under a key that
\* u is about to give up could hurt.
LEMMA CallOthers ==
  ASSUME TypeOK, TypeOK', uids' = uids, excused \subseteq excused',
         NEW v, NEW n, v.pod \in Pods, v.obj \in PodState, Sound(v),
         NEW u, u.pod \in Pods, u.obj \in PodState, Sound(u)
  PROVE  /\ Call(v, n)
         /\ v.pc = "put" /\ u.pc = "removeFinalizer" /\ Api(u.pod).uid = u.obj.uid =>
              \/ <<u.obj.fqdn, u.pod>> # <<v.obj.fqdn, v.pod>>
              \/ <<u.obj.fqdn, u.pod>> \in excused'
         => Sound(u)'
<1> DEFINE key == <<u.obj.fqdn, u.pod>>
<1>1. key \in FQDNs \X Pods
  BY DEF Sound
<1>2. ASSUME NEW s \in Snapshot, Write(v.pod, s), rec' = rec, Api(v.pod) = v.obj,
             s = NoPod \/ (s.uid = v.obj.uid /\ s.dt = v.obj.dt)
      PROVE  Sound(u)'
  <2>1. Advances(v.pod, s)
    BY <1>2, UpdateAdvances
  <2> QED
    BY <1>2, <2>1, SoundWrite
<1>3. ASSUME hist' = hist,
             \/ u.pc # "removeFinalizer" \/ Api(u.pod).uid # u.obj.uid
             \/ rec'[key] \in {None, rec[key]}
             \/ key \in excused'
      PROVE  Sound(u)'
  BY <1>3, UnchangedFades, SoundFades
<1> HIDE DEF key
<1>4. ASSUME NEW k, NEW a, rec' = [rec EXCEPT ![k] = a], a = None \/ k # key
      PROVE  rec'[key] \in {None, rec[key]}
  BY <1>1, <1>4 DEF TypeOK
<1>5. CASE v.pc \in {"addFinalizer", "removeFinalizer"}
  BY <1>2, <1>3, <1>5 DEF Call
<1>6. CASE v.pc \in {"extractIP", "delete"}
  BY <1>3, <1>4, <1>6 DEF Call
<1>7. CASE v.pc = "put"
  BY <1>3, <1>4, <1>7 DEF Call, key
<1>8. CASE v.pc \notin {"addFinalizer", "extractIP", "put", "delete", "removeFinalizer"}
  BY <1>3, <1>8 DEF Call
<1> QED
  BY <1>5, <1>6, <1>7, <1>8

\* No Pod is written: the history invariant holds on.
LEMMA HistUnchanged ==
  ASSUME HistInv, hist' = hist, uids' = uids, excused \subseteq excused'
  PROVE  HistInv'
<1>1. HeldInv'
  BY UnchangedFades, HeldFades DEF HistInv
<1> QED
  BY <1>1 DEF HistInv, UidsInv, OrderInv, Api

\* The finalizer is added.
LEMMA AddFinalizerInv ==
  ASSUME TypeOK, HistInv, OrphanHasCause, uids' = uids, excused \subseteq excused', rec' = rec,
         NEW v, v.pc = "addFinalizer", v.pod \in Pods, v.obj \in PodState, Sound(v),
         NEW s \in Snapshot, Api(v.pod) = v.obj, Write(v.pod, s),
         s.fin, s.uid = v.obj.uid, s.dt = v.obj.dt, s.fqdn = v.obj.fqdn
  PROVE  HistInv' /\ OrphanHasCause'
<1>1. Advances(v.pod, s)
  BY UpdateAdvances
<1>2. UidsInv' /\ OrderInv'
  BY <1>1, OrderWrite DEF HistInv, TypeOK
<1>3. /\ ~Api(v.pod).fin
      /\ \A r \in Seen(v.pod) : r.uid = s.uid /\ ~(r.fin /\ ~r.dt)
  BY DEF Sound, HistInv, HeldInv
<1>4. HeldInv'
  BY <1>3, HeldWrite DEF HistInv
<1>5. \A q \in Pods \ {v.pod} : Api(q)' = Api(q)
  BY WriteSeen
<1>6. OrphanHasCause'
  BY <1>3, <1>5 DEF OrphanHasCause
<1> QED
  BY <1>2, <1>4, <1>6 DEF HistInv

\* The finalizer is removed.
LEMMA RemoveFinalizerInv ==
  ASSUME TypeOK, HistInv, OrphanHasCause, uids' = uids, excused \subseteq excused', rec' = rec,
         NEW v, v.pc = "removeFinalizer", v.pod \in Pods, v.obj \in PodState, Sound(v),
         NEW s \in Snapshot, Api(v.pod) = v.obj, Write(v.pod, s),
         ~s.fin, s = NoPod \/ (s.uid = v.obj.uid /\ s.dt = v.obj.dt)
  PROVE  HistInv' /\ OrphanHasCause'
<1>1. Advances(v.pod, s)
  BY UpdateAdvances
<1>2. UidsInv' /\ OrderInv'
  BY <1>1, OrderWrite DEF HistInv, TypeOK
<1>3. \A r \in Seen(v.pod) : ~(r.fin /\ ~r.dt)
  BY DEF Sound, HistInv, HeldInv
<1>4. HeldInv'
  BY <1>3, HeldWrite DEF HistInv
<1>5. \A f \in FQDNs : rec[<<f, v.pod>>] # None => <<f, v.pod>> \in excused
  BY DEF Sound, OrphanHasCause
<1>6. \A q \in Pods \ {v.pod} : Api(q)' = Api(q)
  BY WriteSeen
<1>7. OrphanHasCause'
  BY <1>5, <1>6 DEF OrphanHasCause
<1> QED
  BY <1>2, <1>4, <1>7 DEF HistInv

\* A record is written for a Pod that holds the key, or with a cause; or records
\* are removed.
LEMMA RecordInv ==
  ASSUME OrphanHasCause, Fades, excused \subseteq excused',
         \A f \in FQDNs, p \in Pods :
           \/ rec'[<<f, p>>] \in {None, rec[<<f, p>>]}
           \/ Api(p).fin /\ Api(p).fqdn = f
           \/ <<f, p>> \in excused'
  PROVE  OrphanHasCause'
  BY DEF OrphanHasCause, Fades

\* What a call of a worker v leaves true of the histories, the records and itself.
LEMMA CallInv ==
  ASSUME TypeOK, HistInv, OrphanHasCause, uids' = uids, excused \subseteq excused',
         NEW v, NEW n, v.pod \in Pods, v.obj \in PodState, Sound(v)
  PROVE  /\ Call(v, n)
         /\ v.pc = "put" => \/ Api(v.pod).fin /\ Api(v.pod).fqdn = v.obj.fqdn
                            \/ <<v.obj.fqdn, v.pod>> \in excused'
         => HistInv' /\ OrphanHasCause' /\ (n.pc # "idle" => Sound(n)')
<1>1. Idle.pc = "idle"
  BY IdleType
<1>2. v.obj.fqdn \in FQDNs /\ v.obj.uid <= uids[v.pod]
  BY DEF Sound
<1>3. ASSUME hist' = hist
      PROVE  HistInv' /\ Fades
  BY <1>3, UnchangedFades, HistUnchanged
<1>4. ASSUME NEW s \in Snapshot, v.pc = "addFinalizer", Api(v.pod) = v.obj, Write(v.pod, s),
             rec' = rec, s.fin, s.uid = v.obj.uid, s.dt = v.obj.dt, s.fqdn = v.obj.fqdn,
             n = Idle \/ (n.pc = "extractIP" /\ n.pod = v.pod /\ n.obj = s)
      PROVE  HistInv' /\ OrphanHasCause' /\ (n.pc # "idle" => Sound(n)')
  <2>1. n.pc # "idle" => Sound(n)'
    BY <1>1, <1>2, <1>4 DEF Sound
  <2> QED
    BY <1>4, <2>1, AddFinalizerInv
<1>5. ASSUME v.pc = "extractIP", UNCHANGED <<hist, rec>>,
             n.pc = "extractIP" \/ (n.pc = "put" /\ n.ip \in IPs),
             n.pod = v.pod, n.obj = v.obj
      PROVE  HistInv' /\ OrphanHasCause' /\ (n.pc # "idle" => Sound(n)')
  <2>1. Sound(n)'
    BY <1>2, <1>5 DEF Sound
  <2> QED
    BY <1>3, <1>5, <2>1, RecordInv
<1>6. ASSUME v.pc = "put", n = Idle, hist' = hist,
             rec' = [rec EXCEPT ![<<v.obj.fqdn, v.pod>>] = v.ip],
             \/ Api(v.pod).fin /\ Api(v.pod).fqdn = v.obj.fqdn
             \/ <<v.obj.fqdn, v.pod>> \in excused'
      PROVE  HistInv' /\ OrphanHasCause' /\ (n.pc # "idle" => Sound(n)')
  <2>1. \A f \in FQDNs, q \in Pods :
          rec'[<<f, q>>] # rec[<<f, q>>] => f = v.obj.fqdn /\ q = v.pod
    BY <1>6 DEF TypeOK
  <2>2. OrphanHasCause'
    BY <1>3, <1>6, <2>1, RecordInv
  <2> QED
    BY <1>1, <1>3, <1>6, <2>2
<1>7. ASSUME v.pc = "delete", hist' = hist,
             rec' = [rec EXCEPT ![<<v.obj.fqdn, v.pod>>] = None],
             n = Idle \/ (n.pc = "removeFinalizer" /\ n.pod = v.pod /\ n.obj = v.obj)
      PROVE  HistInv' /\ OrphanHasCause' /\ (n.pc # "idle" => Sound(n)')
  <2>1. /\ rec'[<<v.obj.fqdn, v.pod>>] = None
        /\ \A f \in FQDNs, q \in Pods : rec'[<<f, q>>] \in {None, rec[<<f, q>>]}
    BY <1>2, <1>7 DEF TypeOK
  <2>2. OrphanHasCause'
    BY <1>3, <1>7, <2>1, RecordInv
  <2>3. n.pc # "idle" => Sound(n)'
    BY <1>1, <1>2, <1>3, <1>7, <2>1, ZenonT(60) DEF Sound, Fades
  <2> QED
    BY <1>3, <1>7, <2>2, <2>3
<1>8. ASSUME NEW s \in Snapshot, v.pc = "removeFinalizer", Api(v.pod) = v.obj, Write(v.pod, s),
             rec' = rec, ~s.fin, s = NoPod \/ (s.uid = v.obj.uid /\ s.dt = v.obj.dt),
             n = Idle
      PROVE  HistInv' /\ OrphanHasCause' /\ (n.pc # "idle" => Sound(n)')
  BY <1>1, <1>8, RemoveFinalizerInv
<1>9. ASSUME UNCHANGED <<hist, rec>>, n = Idle
      PROVE  HistInv' /\ OrphanHasCause' /\ (n.pc # "idle" => Sound(n)')
  BY <1>1, <1>3, <1>9, RecordInv
<1> QED
  BY <1>4, <1>5, <1>6, <1>7, <1>8, <1>9 DEF Call

-----------------------------------------------------------------------------
(* The steps of the cluster and the informers *)

\* A busy worker, leftover or not, has a Pod and a sound snapshot of it.
LEMMA BusyWorker ==
  ASSUME DriftTypeOK, WorkersInv, NEW v \in {w, old}, v.pc # "idle"
  PROVE  v \in Worker /\ v.pod \in Pods /\ v.obj \in PodState /\ Sound(v)
  BY DEF DriftTypeOK, TypeOK, WorkersInv

\* A step that shows nothing new, registers nothing, and leaves the workers alone or
\* gives up the current one.
LEMMA QuietInv ==
  ASSUME DriftInv, DriftTypeOK', UidsInv', OrderInv', Fades, uids' = uids, excused' = excused,
         \A f \in FQDNs, p \in Pods : rec'[<<f, p>>] \in {None, rec[<<f, p>>]},
         \/ w' = w /\ old' = old
         \/ w' = Idle /\ old' \in {old, w}
  PROVE  DriftInv'
<1>1. DriftTypeOK /\ TypeOK /\ HistInv /\ WorkersInv /\ CurrentInv /\ LeftoverInv /\ OrphanHasCause
  BY DEF DriftInv, DriftTypeOK, BothInv
<1>2. HistInv'
  BY <1>1, HeldFades DEF HistInv
<1>3. OrphanHasCause'
  BY <1>1, RecordInv
<1>4. WorkersInv'
  <2> SUFFICES ASSUME NEW u \in {w', old'}, u.pc # "idle"
               PROVE  Sound(u)'
    BY DEF WorkersInv
  <2>1. u \in {w, old}
    BY IdleType
  <2>2. u.pod \in Pods /\ Sound(u)
    BY <1>1, <2>1, BusyWorker
  <2>3. rec'[<<u.obj.fqdn, u.pod>>] \in {None, rec[<<u.obj.fqdn, u.pod>>]}
    BY <2>2 DEF Sound
  <2> QED
    BY <2>2, <2>3, SoundFades
<1>5. CurrentInv' /\ LeftoverInv'
  <2>1. CASE w' = Idle
    BY <2>1, IdleType DEF CurrentInv, LeftoverInv
  <2>2. CASE w' = w /\ old' = old /\ w.pc # "idle"
    <3>1. Api(w.pod)' = Api(w.pod)
      BY <1>1, <2>2, BusyWorker DEF Fades
    <3> QED
      BY <1>1, <2>2, <3>1 DEF CurrentInv, LeftoverInv
  <2>3. CASE w' = w /\ w.pc = "idle"
    BY <2>3 DEF CurrentInv, LeftoverInv
  <2> QED
    BY <2>1, <2>2, <2>3
<1> QED
  BY <1>2, <1>3, <1>4, <1>5 DEF DriftInv, BothInv

\* Somebody other than a worker writes a Pod: the finalizer stays, and the FQDN
\* stays or its key is excused.
LEMMA DriftWriteInv ==
  ASSUME DriftInv, DriftTypeOK', NEW p \in Pods, NEW s \in Snapshot, Advances(p, s),
         Api(p).fin => /\ s.uid = Api(p).uid
                       /\ s.fin
                       /\ s.fqdn = Api(p).fqdn \/ <<Api(p).fqdn, p>> \in excused',
         s.fin => Api(p).fin,
         UNCHANGED <<w, old, rec>>, excused \subseteq excused'
  PROVE  DriftInv'
<1>1. /\ DriftTypeOK /\ TypeOK /\ TypeOK' /\ UidsInv /\ OrderInv /\ HeldInv
      /\ WorkersInv /\ CurrentInv /\ LeftoverInv /\ OrphanHasCause
  BY DEF DriftInv, DriftTypeOK, HistInv, BothInv
<1>2. Api(p)' = s /\ \A q \in Pods \ {p} : Api(q)' = Api(q)
  BY <1>1, WriteSeen DEF Advances
<1>3. HistInv'
  <2>1. UidsInv' /\ OrderInv'
    BY <1>1, OrderWrite DEF TypeOK
  <2>2. \A r \in Seen(p) :
          /\ s.fin => r.uid = s.uid
          /\ r.fin /\ ~r.dt => /\ r.uid = s.uid
                               /\ s.fin
                               /\ s.fqdn = r.fqdn \/ <<r.fqdn, p>> \in excused'
    BY <1>1 DEF HeldInv
  <2>3. HeldInv'
    BY <1>1, <2>2, HeldWrite DEF Advances
  <2> QED
    BY <2>1, <2>3, ZenonT(60) DEF HistInv
<1>4. OrphanHasCause'
  BY <1>1, <1>2 DEF OrphanHasCause
<1>5. WorkersInv'
  <2> SUFFICES ASSUME NEW u \in {w, old}, u.pc # "idle"
               PROVE  Sound(u)'
    BY DEF WorkersInv
  <2>1. u.pod \in Pods /\ u.obj \in PodState /\ Sound(u)
    BY <1>1, BusyWorker
  <2> QED
    BY <1>1, <2>1, SoundWrite
<1>6. CurrentInv' /\ LeftoverInv'
  <2>1. CASE w.pc = "idle"
    BY <2>1 DEF CurrentInv, LeftoverInv
  <2>2. CASE w.pc # "idle" /\ w.pod # p
    <3>1. Api(w.pod)' = Api(w.pod)
      BY <1>1, <1>2, <2>2, BusyWorker
    <3> QED
      BY <1>1, <3>1 DEF CurrentInv, LeftoverInv
  <2>3. CASE w.pc # "idle" /\ w.pod = p
    <3>1. Api(w.pod)' = s
      BY <1>2, <2>3
    <3>2. CurrentInv'
      BY <1>1, <2>3, <3>1, ZenonT(60) DEF CurrentInv
    <3>3. ASSUME old.pc # "idle", old.pod = p, s.uid = old.obj.uid
          PROVE  Api(p).uid = old.obj.uid
      <4>1. old.obj \in PodState /\ Sound(old)
        BY <1>1, <3>3, BusyWorker
      <4>2. old.obj.uid \in 1..MaxIncarnations
        BY <4>1, SnapshotTypes, ZenonT(60)
      <4>3. uids[p] \in 0..MaxIncarnations
        BY <1>1 DEF TypeOK
      <4>4. old.obj.uid <= uids[p]
        BY <3>3, <4>1, ZenonT(60) DEF Sound
      <4> QED
        BY <3>3, <4>2, <4>3, <4>4, ConstantsAssumption DEF Advances, NoPod
    <3>4. LeftoverInv'
      BY <1>1, <2>3, <3>1, <3>3 DEF LeftoverInv
    <3> QED
      BY <3>2, <3>4
  <2> QED
    BY <2>1, <2>2, <2>3
<1> QED
  BY <1>3, <1>4, <1>5, <1>6 DEF DriftInv, BothInv

\* The worker takes a Pod from the queue and reads the cache, later than any
\* leftover worker did.
LEMMA DequeueInv ==
  ASSUME DriftInv, DriftTypeOK', NEW p \in Pods, Dequeue(p), UNCHANGED <<old, excused>>
  PROVE  DriftInv'
<1>1. /\ DriftTypeOK /\ TypeOK /\ HistInv /\ UidsInv /\ OrderInv /\ HeldInv
      /\ WorkersInv /\ OrphanHasCause
  BY DEF DriftInv, DriftTypeOK, HistInv, BothInv
<1>2. UNCHANGED <<hist, uids, rec>>
  BY DEF Dequeue
<1>3. HistInv' /\ Fades
  BY <1>1, <1>2, HistUnchanged, UnchangedFades
<1>4. CASE w' = Idle
  BY <1>2, <1>3, <1>4, QuietInv DEF HistInv
<1>5. CASE w' # Idle
  <2> DEFINE s == Cached(p)
  <2>1. w' = [Idle EXCEPT !.pc = FirstStep(s), !.pod = p, !.obj = s] /\ FirstStep(s) # "idle"
    BY <1>5 DEF Dequeue
  <2>2. w'.pc = FirstStep(s) /\ w'.pod = p /\ w'.obj = s
    BY <2>1 DEF Idle
  <2>3. s \in Snapshot /\ s \in Seen(p) /\ 1 \in 1..Len(hist[p]) /\ s = hist[p][1]
    BY <1>1, Elements, SeenTypes DEF Cached
  <2>4. Api(p)' = Api(p) /\ Seen(p)' = Seen(p)
    BY <1>2 DEF Api, Seen
  <2> HIDE DEF s
  <2>5. s \in PodState /\ s.uid # 0 /\ s.uid <= uids[p] /\ s.fqdn \in FQDNs
    BY <1>1, <2>1, <2>3, SnapshotTypes DEF FirstStep, UidsInv, PodState
  <2>6. \A r \in Seen(p) : /\ s.uid = r.uid /\ s.dt => r.dt
                           /\ s.uid = Api(p).uid => r.uid = s.uid
    BY <1>1, <2>3, <2>5 DEF OrderInv, Seen
  <2>7. /\ FirstStep(s) \in {"addFinalizer", "extractIP", "delete"}
        /\ FirstStep(s) = "addFinalizer" => ~s.fin /\ ~s.dt
        /\ FirstStep(s) = "extractIP" => s.fin /\ ~s.dt
        /\ FirstStep(s) = "delete" => s.fin /\ s.dt
    BY <2>1 DEF FirstStep
  <2>8. WorkersInv'
    <3> SUFFICES ASSUME NEW u \in {w', old}, u.pc # "idle"
                 PROVE  Sound(u)'
      BY DEF WorkersInv
    <3>1. CASE u = w'
      BY <1>2, <2>2, <2>4, <2>5, <2>6, <2>7, <3>1 DEF Sound
    <3>2. CASE u = old
      BY <1>1, <1>2, <1>3, <3>2, BusyWorker, SoundFades
    <3> QED
      BY <3>1, <3>2
  <2>9. CurrentInv'
    BY <1>1, <2>2, <2>3, <2>4, <2>7 DEF CurrentInv, HeldInv
  <2>10. LeftoverInv'
    <3> SUFFICES ASSUME old.pc # "idle", old.pod = p
                 PROVE  /\ old.pc = "addFinalizer" /\ Api(p).uid = old.obj.uid => s.uid = old.obj.uid
                        /\ old.pc \in {"delete", "removeFinalizer"} /\ s.uid = old.obj.uid => s.dt
      BY <2>2, <2>4, <2>7 DEF LeftoverInv
    <3>1. Sound(old)
      BY <1>1, BusyWorker
    <3> QED
      BY <2>3, <3>1 DEF Sound
  <2> QED
    BY <1>1, <1>2, <1>3, <2>8, <2>9, <2>10, RecordInv DEF DriftInv, BothInv
<1> QED
  BY <1>4, <1>5

=============================================================================
