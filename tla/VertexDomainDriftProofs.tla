---------------------- MODULE VertexDomainDriftProofs -----------------------
(***************************************************************************)
(* Proofs about VertexDomainDrift for any sets of Pods, FQDNs, addresses,  *)
(* templates and edits and any bounds: what edits and leftover workers can *)
(* do to the records, and that nothing else can.                           *)
(***************************************************************************)
EXTENDS VertexDomainDriftInv

-----------------------------------------------------------------------------
(* The steps of the workers *)

\* A call of the current worker.
LEMMA CurrentCallInv ==
  ASSUME DriftInv, DriftTypeOK', w.pc # "idle", Call(w, w'),
         UNCHANGED <<uids, old, excused>>
  PROVE  DriftInv'
<1>1. /\ DriftTypeOK /\ TypeOK /\ TypeOK' /\ HistInv
      /\ WorkersInv /\ CurrentInv /\ LeftoverInv /\ OrphanHasCause
  BY DEF DriftInv, DriftTypeOK, BothInv
<1>2. PICK v \in Worker : v = w
  BY <1>1, BusyWorker
<1>3. PICK n : n = w'
  OBVIOUS
<1>4. v.pc # "idle" /\ v.pod \in Pods /\ v.obj \in PodState /\ Sound(v) /\ Call(v, n)
  BY <1>1, <1>2, <1>3, BusyWorker
<1>5. v.pc = "put" => \/ Api(v.pod).fin /\ Api(v.pod).fqdn = v.obj.fqdn
                      \/ <<v.obj.fqdn, v.pod>> \in excused'
  BY <1>1, <1>2 DEF CurrentInv
<1>6. HistInv' /\ OrphanHasCause' /\ (n.pc # "idle" => Sound(n)')
  BY <1>1, <1>4, <1>5, CallInv
<1>7. ASSUME old.pc # "idle"
      PROVE  Sound(old)'
  <2>1. PICK u \in Worker : u = old
    BY <1>1, <1>7, BusyWorker
  <2>2. u.pc # "idle" /\ u.pod \in Pods /\ u.obj \in PodState /\ Sound(u)
    BY <1>1, <1>7, <2>1, BusyWorker
  <2>3. v.pc = "put" /\ u.pc = "removeFinalizer" /\ Api(u.pod).uid = u.obj.uid =>
          <<u.obj.fqdn, u.pod>> # <<v.obj.fqdn, v.pod>>
    BY <1>1, <1>2, <2>1, <2>2 DEF CurrentInv, LeftoverInv
  <2>4. Sound(u)'
    BY <1>1, <1>4, <2>2, <2>3, CallOthers
  <2> QED
    BY <2>1, <2>4 DEF Sound
<1>8. WorkersInv'
  <2> SUFFICES ASSUME NEW u \in {w', old'}, u.pc # "idle"
               PROVE  Sound(u)'
    BY DEF WorkersInv
  <2>1. CASE u = w'
    BY <1>3, <1>6, <2>1
  <2>2. CASE u = old'
    BY <1>7, <2>2 DEF Sound
  <2> QED
    BY <2>1, <2>2
<1>9. CurrentInv' /\ LeftoverInv'
  <2>1. CASE n = Idle
    BY <1>3, <2>1, IdleType DEF CurrentInv, LeftoverInv
  <2>2. CASE n # Idle
    <3>1. /\ n.pod = v.pod /\ n.obj.uid = v.obj.uid /\ n.obj.fqdn = v.obj.fqdn
          /\ \/ v.pc \in {"addFinalizer", "extractIP"} /\ n.pc \in {"extractIP", "put"}
             \/ v.pc = "delete" /\ n.pc = "removeFinalizer"
      BY <1>4, <2>2 DEF Call
    <3>2. CASE v.pc # "addFinalizer"
      <4>1. hist' = hist
        BY <1>4, <2>2, <3>1, <3>2 DEF Call
      <4>2. Api(v.pod)' = Api(v.pod)
        BY <4>1 DEF Api
      <4>3. CurrentInv'
        BY <1>1, <1>2, <1>3, <3>1, <3>2, <4>2 DEF CurrentInv
      <4>4. LeftoverInv'
        BY <1>1, <1>2, <1>3, <3>1, <3>2, <4>2 DEF LeftoverInv
      <4> QED
        BY <4>3, <4>4
    <3>3. CASE v.pc = "addFinalizer"
      <4>1. PICK s \in Snapshot :
              /\ Api(v.pod) = v.obj /\ Write(v.pod, s)
              /\ s.fin /\ s.uid = v.obj.uid /\ s.fqdn = v.obj.fqdn /\ n.pc = "extractIP"
        BY <1>4, <2>2, <3>3 DEF Call
      <4>2. Api(v.pod)' = s
        BY <1>1, <1>4, <4>1, WriteSeen
      <4> QED
        BY <1>1, <1>2, <1>3, <3>1, <3>3, <4>1, <4>2 DEF CurrentInv, LeftoverInv
    <3> QED
      BY <3>2, <3>3
  <2> QED
    BY <2>1, <2>2
<1> QED
  BY <1>6, <1>8, <1>9 DEF DriftInv, BothInv

\* A call of the leftover worker: its Put is excused, its Updates are accepted only
\* where the current worker does not rely on the opposite.
LEMMA LeftoverCallInv ==
  ASSUME DriftInv, DriftTypeOK', old.pc # "idle", Call(old, old'),
         UNCHANGED <<uids, w>>, excused \subseteq excused',
         old.pc = "put" => <<old.obj.fqdn, old.pod>> \in excused'
  PROVE  DriftInv'
<1>1. /\ DriftTypeOK /\ TypeOK /\ TypeOK' /\ HistInv
      /\ WorkersInv /\ CurrentInv /\ LeftoverInv /\ OrphanHasCause
  BY DEF DriftInv, DriftTypeOK, BothInv
<1>2. PICK v \in Worker : v = old
  BY <1>1, BusyWorker
<1>3. PICK n : n = old'
  OBVIOUS
<1>4. v.pc # "idle" /\ v.pod \in Pods /\ v.obj \in PodState /\ Sound(v) /\ Call(v, n)
  BY <1>1, <1>2, <1>3, BusyWorker
<1>5. v.pc = "put" => <<v.obj.fqdn, v.pod>> \in excused'
  BY <1>2
<1>6. HistInv' /\ OrphanHasCause' /\ (n.pc # "idle" => Sound(n)')
  BY <1>1, <1>4, <1>5, CallInv
<1>7. ASSUME w.pc # "idle"
      PROVE  Sound(w)'
  <2>1. PICK u \in Worker : u = w
    BY <1>1, <1>7, BusyWorker
  <2>2. u.pod \in Pods /\ u.obj \in PodState /\ Sound(u)
    BY <1>1, <1>7, <2>1, BusyWorker
  <2>3. Sound(u)'
    BY <1>1, <1>4, <1>5, <2>2, CallOthers
  <2> QED
    BY <2>1, <2>3 DEF Sound
<1>8. WorkersInv'
  <2> SUFFICES ASSUME NEW u \in {w', old'}, u.pc # "idle"
               PROVE  Sound(u)'
    BY DEF WorkersInv
  <2>1. CASE u = old'
    BY <1>3, <1>6, <2>1
  <2>2. CASE u = w'
    BY <1>7, <2>2 DEF Sound
  <2> QED
    BY <2>1, <2>2
<1>9. CurrentInv'
  <2>1. CASE w.pc = "idle"
    BY <2>1 DEF CurrentInv
  <2>2. CASE hist' = hist
    BY <1>1, <2>2 DEF CurrentInv, Api
  <2>3. CASE w.pc # "idle" /\ hist' # hist
    <3>1. w.pod \in Pods
      BY <1>1, <2>3, BusyWorker
    <3>2. PICK s \in Snapshot :
            /\ Api(v.pod) = v.obj /\ Write(v.pod, s)
            /\ \/ v.pc = "addFinalizer" /\ s.uid = v.obj.uid
               \/ v.pc = "removeFinalizer" /\ ~s.fin
      BY <1>4, <2>3 DEF Call
    <3>3. Api(v.pod)' = s /\ \A q \in Pods \ {v.pod} : Api(q)' = Api(q)
      BY <1>1, <1>4, <3>2, WriteSeen
    <3>4. CASE w.pod # v.pod
      <4>1. Api(w.pod)' = Api(w.pod)
        BY <3>1, <3>3, <3>4
      <4> QED
        BY <1>1, <4>1 DEF CurrentInv
    <3>5. CASE w.pod = v.pod
      <4>1. Api(w.pod)' = s /\ Api(w.pod) = v.obj
        BY <3>2, <3>3, <3>5
      <4>2. CASE v.pc = "addFinalizer"
        <5>1. ~v.obj.fin /\ w.obj.uid = v.obj.uid
          BY <1>1, <1>2, <1>4, <2>3, <3>5, <4>1, <4>2 DEF Sound, LeftoverInv
        <5> QED
          BY <1>1, <3>2, <4>1, <4>2, <5>1 DEF CurrentInv
      <4>3. CASE v.pc = "removeFinalizer"
        <5>1. w.pc \in {"extractIP", "put"} => w.obj.uid # v.obj.uid
          BY <1>1, <1>2, <2>3, <3>5, <4>3 DEF LeftoverInv
        <5> QED
          BY <1>1, <3>2, <4>1, <4>3, <5>1 DEF CurrentInv
      <4> QED
        BY <3>2, <4>2, <4>3
    <3> QED
      BY <3>4, <3>5
  <2> QED
    BY <2>1, <2>2, <2>3
<1>10. LeftoverInv'
  <2>1. n.pc # "addFinalizer"
    BY <1>4, IdleType DEF Call
  <2>2. n.pc \in {"delete", "removeFinalizer"} =>
          v.pc = "delete" /\ n.pod = v.pod /\ n.obj = v.obj
    BY <1>4, IdleType DEF Call
  <2> QED
    BY <1>1, <1>2, <1>3, <2>1, <2>2 DEF LeftoverInv
<1> QED
  BY <1>6, <1>8, <1>9, <1>10 DEF DriftInv, BothInv

-----------------------------------------------------------------------------
(* The invariant is inductive *)

\* Types, for every step but the leftover worker's.
LEMMA DriftTypes ==
  ASSUME DriftTypeOK
  PROVE  /\ Next /\ old' = old => DriftTypeOK'
         /\ Abandon => DriftTypeOK'
         /\ \A p \in Pods, t \in Edits : EditPod(p, t) => DriftTypeOK'
<1>1. TypeOK
  BY DEF DriftTypeOK
<1>2. ASSUME Next, old' = old
      PROVE  DriftTypeOK'
  BY <1>1, <1>2, WorkerStepType, ClusterType DEF DriftTypeOK
<1>3. ASSUME Abandon
      PROVE  DriftTypeOK'
  <2>1. TypeOK'
    <3>1. CASE Restart
      <4>1. ~WorkerStep \/ WorkerStep
        OBVIOUS
      <4> QED
        BY <1>1, <3>1, WorkerStepType, ClusterType DEF Next
    <3>2. CASE ~Restart
      <4>1. /\ Fault /\ w' = Idle /\ queue' = queue \cup {w.pod} /\ w.pc # "idle"
            /\ UNCHANGED <<hist, uids, claims, claimCache, rec, published, wipes>>
        BY <1>3, <3>2 DEF Abandon, ReturnRequeue
      <4> QED
        BY <1>1, <4>1, IdleType, ConstantsAssumption DEF TypeOK, Fault
    <3> QED
      BY <3>1, <3>2
  <2>2. old' = w
    BY <1>3 DEF Abandon
  <2> QED
    BY <1>1, <2>1, <2>2 DEF DriftTypeOK, TypeOK
<1>4. ASSUME NEW p \in Pods, NEW t \in Edits, EditPod(p, t)
      PROVE  DriftTypeOK'
  <2> DEFINE s == [Api(p) EXCEPT !.label = t.label, !.fqdn = t.fqdn]
  <2>1. Api(p) \in PodState
    BY <1>1, <1>4, Elements, SnapshotTypes DEF EditPod
  <2>2. t.label \in BOOLEAN /\ t.fqdn \in FQDNs \cup {None}
    BY EditsAssumption
  <2>3. s \in Snapshot
    BY <2>1, <2>2, SnapshotTypes DEF PodState
  <2>4. /\ Write(p, s)
        /\ UNCHANGED <<uids, claims, claimCache, queue, w, rec, published, faults, wipes, old>>
    BY <1>4 DEF EditPod
  <2> HIDE DEF s
  <2>5. hist' \in [Pods -> Seq(Snapshot)] /\ \A q \in Pods : Len(hist'[q]) > 0
    BY <1>1, <2>3, <2>4, WriteFacts
  <2> QED
    BY <2>4, <2>5 DEF DriftTypeOK, TypeOK
<1> QED
  BY <1>2, <1>3, <1>4

\* A worker that is given up and the edits of users preserve the invariant.
LEMMA AbandonInv ==
  ASSUME DriftInv, Abandon
  PROVE  DriftInv'
<1>1. DriftTypeOK /\ TypeOK /\ HistInv
  BY DEF DriftInv, DriftTypeOK
<1>2. DriftTypeOK' /\ TypeOK'
  BY <1>1, DriftTypes DEF DriftTypeOK
<1>3. w' = Idle /\ old' = w /\ UNCHANGED <<uids, rec, excused>>
  BY DEF Abandon, Restart, ReturnRequeue
<1>4. CASE Restart
  <2>1. PICK k \in [Pods -> Nat] : Consumes(k)
    BY <1>1, <1>2, <1>4, Consumed
  <2>2. Fades /\ UidsInv' /\ OrderInv'
    BY <1>1, <1>3, <2>1, ConsumesFades, OrderSuffix DEF HistInv
  <2> QED
    BY <1>2, <1>3, <2>2, QuietInv
<1>5. CASE hist' = hist
  <2>1. Fades /\ UidsInv' /\ OrderInv'
    BY <1>1, <1>3, <1>5, UnchangedFades, HistUnchanged DEF HistInv
  <2> QED
    BY <1>2, <1>3, <2>1, QuietInv
<1> QED
  BY <1>4, <1>5 DEF Abandon

\* An edit of a Pod excuses the record under the FQDN it takes away.
LEMMA EditInv ==
  ASSUME DriftInv, NEW p \in Pods, NEW t \in Edits, EditPod(p, t)
  PROVE  DriftInv'
<1> DEFINE s == [Api(p) EXCEPT !.label = t.label, !.fqdn = t.fqdn]
<1>1. DriftTypeOK /\ TypeOK /\ DriftTypeOK' /\ UidsInv
  BY DriftTypes DEF DriftInv, DriftTypeOK, HistInv
<1>2. Api(p) \in PodState
  BY <1>1, Elements, SnapshotTypes DEF EditPod
<1>3. t.label \in BOOLEAN /\ t.fqdn \in FQDNs \cup {None}
  BY EditsAssumption
<1>4. s \in Snapshot /\ s.uid = Api(p).uid /\ s.fin = Api(p).fin /\ s.dt = Api(p).dt
  BY <1>2, <1>3, SnapshotTypes DEF PodState
<1>5. /\ Write(p, s) /\ UNCHANGED <<uids, w, old, rec>> /\ excused \subseteq excused'
      /\ s.fqdn = Api(p).fqdn \/ <<Api(p).fqdn, p>> \in excused'
  BY DEF EditPod
<1> HIDE DEF s
<1>6. Api(p).uid <= uids[p] /\ uids[p] \in Nat
  BY <1>1, Elements, ConstantsAssumption DEF UidsInv, Api, TypeOK
<1>7. Advances(p, s)
  BY <1>4, <1>5, <1>6 DEF Advances
<1> QED
  BY <1>1, <1>4, <1>5, <1>7, DriftWriteInv

\* Every step of VertexDomain preserves the invariant.
LEMMA NextInv ==
  ASSUME DriftInv, UNCHANGED <<old, excused>>
  PROVE  Next => DriftInv'
<1>1. DriftTypeOK /\ TypeOK /\ HistInv /\ UidsInv
  BY DEF DriftInv, DriftTypeOK, HistInv
<1>2. Next => DriftTypeOK' /\ TypeOK'
  BY <1>1, DriftTypes DEF DriftTypeOK
<1>3. ASSUME Next, UNCHANGED <<hist, uids, w>>,
             \A f \in FQDNs, p \in Pods : rec'[<<f, p>>] \in {None, rec[<<f, p>>]}
      PROVE  DriftInv'
  <2>1. Fades /\ UidsInv' /\ OrderInv'
    BY <1>1, <1>3, UnchangedFades, HistUnchanged DEF HistInv
  <2> QED
    BY <1>2, <1>3, <2>1, QuietInv
<1>4. ASSUME NEW p \in Pods, Dequeue(p)
      PROVE  DriftInv'
  BY <1>2, <1>4, DequeueInv DEF Next
<1>5. ASSUME WorkerStep
      PROVE  DriftInv'
  BY <1>1, <1>2, <1>5, WorkerCalls, CurrentCallInv DEF Next
<1>6. ASSUME Restart \/ \E p \in Pods : Deliver(p) \/ Relist(p)
      PROVE  DriftInv'
  <2>1. Next
    BY <1>6 DEF Next
  <2>2. PICK k \in [Pods -> Nat] : Consumes(k)
    BY <1>1, <1>2, <1>6, <2>1, Consumed
  <2>3. UNCHANGED <<uids, rec>> /\ (w' = w \/ w' = Idle)
    BY <1>6, ZenonT(60) DEF Restart, Deliver, Relist
  <2>4. Fades /\ UidsInv' /\ OrderInv'
    BY <1>1, <2>2, <2>3, ConsumesFades, OrderSuffix DEF HistInv
  <2> QED
    BY <1>2, <2>1, <2>3, <2>4, QuietInv
<1>7. ASSUME NEW p \in Pods,
             \/ \E t \in Templates : CreatePod(p, t)
             \/ \E i \in 1..NumClaims : BindClaim(p, i)
             \/ \E over \in BOOLEAN : DeletePod(p, over)
             \/ KubeletDone(p)
      PROVE  DriftInv'
  <2>1. DriftTypeOK'
    BY <1>2, <1>7, ZenonT(60) DEF Next
  <2>2. PICK s \in Snapshot : ClusterWrite(p, s)
    BY <1>1, <1>7, ClusterWrites, ZenonT(60)
  <2> QED
    BY <2>1, <2>2, DriftWriteInv DEF ClusterWrite
<1>8. ASSUME \/ \E p \in Pods : Resync(p)
             \/ \E c \in Claims : DeliverClaim(c)
             \/ \E p \in Pods, i \in 1..NumClaims, ip \in IPs : PublishIP(p, i, ip)
      PROVE  DriftInv'
  <2>1. Next
    BY <1>8, ZenonT(60) DEF Next
  <2>2. UNCHANGED <<hist, uids, w, rec>>
    BY <1>8, ZenonT(60) DEF Resync, DeliverClaim, PublishIP
  <2> QED
    BY <1>3, <2>1, <2>2
<1>9. ASSUME WipeStore
      PROVE  DriftInv'
  <2>1. Next
    BY <1>9 DEF Next
  <2>2. UNCHANGED <<hist, uids, w>> /\ \A f \in FQDNs, p \in Pods : rec'[<<f, p>>] = None
    BY <1>9 DEF WipeStore
  <2> QED
    BY <1>3, <2>1, <2>2
<1> QED
  BY <1>4, <1>5, <1>6, <1>7, <1>8, <1>9, ZenonT(60) DEF Next

\* A call that takes a record is a Delete of that record, and it ends.
LEMMA RecordLost ==
  ASSUME TypeOK, NEW v \in {w, old}, NEW n, v.pc = "put" => v.ip # None, Call(v, n),
         NEW f \in FQDNs, NEW p \in Pods, rec[<<f, p>>] # None, rec'[<<f, p>>] = None
  PROVE  v.pc = "delete" /\ p = v.pod /\ v # n
<1>1. rec \in [FQDNs \X Pods -> IPs \cup {None}]
  BY DEF TypeOK
<1>2. CASE v.pc = "put"
  <2>1. rec' = rec \/ rec' = [rec EXCEPT ![<<v.obj.fqdn, v.pod>>] = v.ip]
    BY <1>2 DEF Call
  <2> QED
    BY <1>1, <1>2, <2>1
<1>3. CASE v.pc = "delete"
  <2>1. rec' = rec \/ rec' = [rec EXCEPT ![<<v.obj.fqdn, v.pod>>] = None]
    BY <1>3 DEF Call
  <2>2. rec' = rec \/ n.pc = "removeFinalizer" \/ n = Idle
    BY <1>3 DEF Call
  <2> QED
    BY <1>1, <1>3, <2>1, <2>2 DEF Idle
<1>4. CASE v.pc \notin {"put", "delete"}
  BY <1>4 DEF Call
<1> QED
  BY <1>2, <1>3, <1>4

\* A call of the current worker takes no record from a live Pod that holds it.
LEMMA CallKeepsRecord ==
  ASSUME DriftInv, w.pc # "idle", Call(w, w'), NEW f \in FQDNs, NEW p \in Pods,
         Api(p).fin, ~Api(p).dt, rec[<<f, p>>] # None
  PROVE  rec'[<<f, p>>] # None
<1>1. DriftTypeOK /\ TypeOK /\ WorkersInv /\ CurrentInv
  BY DEF DriftInv, DriftTypeOK, BothInv
<1>2. w.pod \in Pods /\ Sound(w)
  BY <1>1, BusyWorker
<1>3. w.pc = "put" => w.ip # None
  BY <1>2, ConstantsAssumption DEF Sound
<1>4. CASE w.pc = "delete"
  <2>1. p # w.pod
    BY <1>1, <1>2, <1>4, SeenTypes DEF Sound, CurrentInv
  <2> QED
    BY <1>1, <1>3, <2>1, RecordLost
<1> QED
  BY <1>1, <1>3, <1>4, RecordLost

\* A call of the leftover worker takes a record only by a Delete.
LEMMA LeftoverTakesRecord ==
  ASSUME DriftTypeOK, WorkersInv, old.pc # "idle", Call(old, old'),
         NEW f \in FQDNs, NEW p \in Pods, rec[<<f, p>>] # None, rec'[<<f, p>>] = None
  PROVE  old.pc = "delete" /\ old' # old
<1>1. TypeOK /\ Sound(old)
  BY BusyWorker DEF DriftTypeOK
<1>2. old.pc = "put" => old.ip # None
  BY <1>1, ConstantsAssumption DEF Sound
<1> QED
  BY <1>1, <1>2, RecordLost

\* Only workers and the loss of the store change records.
LEMMA RecordSteps ==
  ASSUME Next, ~WorkerStep, wipes \in Nat
  PROVE  rec' = rec \/ wipes' # wipes
<1>1. CASE WipeStore
  BY <1>1 DEF WipeStore
<1>2. CASE ~WipeStore
  BY <1>2, ZenonT(60) DEF Next, Dequeue, Deliver, Relist, Resync, DeliverClaim, Restart, CreatePod,
       BindClaim, PublishIP, DeletePod, KubeletDone
<1> QED
  BY <1>1, <1>2

\* The invariant holds at the start.
LEMMA DriftInvInit ==
  ASSUME DriftInit
  PROVE  DriftInv
<1>1. TypeOK /\ old = Idle /\ w = Idle
  BY TypeCorrectInit DEF DriftInit, Init
<1>2. \A p \in Pods : ~Api(p).fin /\ \A s \in Seen(p) : ~s.fin
  <2>1. ~NoPod.fin
    BY DEF NoPod
  <2>2. \A p \in Pods : Api(p) = NoPod /\ \A i \in 1..Len(hist[p]) : hist[p][i] = NoPod
    BY InitHistory DEF DriftInit
  <2> QED
    BY <2>1, <2>2, ZenonT(60) DEF Seen
<1>3. DriftTypeOK /\ BothInv /\ UidsInv /\ OrderInv
  <2>1. UidsInv /\ OrderInv
    BY InitHistory DEF DriftInit
  <2> QED
    BY <1>1, <2>1, IdleType DEF DriftTypeOK, BothInv, WorkersInv, CurrentInv, LeftoverInv
<1>4. HeldInv
  BY <1>2 DEF HeldInv
<1>5. OrphanHasCause
  BY DEF OrphanHasCause, DriftInit, Init
<1> QED
  BY <1>3, <1>4, <1>5 DEF DriftInv, HistInv

-----------------------------------------------------------------------------
(* The leftover worker's steps *)

\* What is proved of the worker's steps holds of the leftover worker's.
OldProofs == INSTANCE VertexDomainProofs WITH w <- old, queue <- Pods

\* Its steps are the ones that VertexDomainProofs is about.
LEMMA OldSteps ==
  ASSUME Old!WorkerStep
  PROVE  OldProofs!WorkerStep
<1>1. Old!AddFinalizer => OldProofs!AddFinalizer
  BY DEF Old!AddFinalizer, OldProofs!AddFinalizer, Old!Continue, OldProofs!Continue,
         Old!ReturnRequeue, OldProofs!ReturnRequeue, Old!Fault, OldProofs!Fault,
         Old!Idle, OldProofs!Idle, Old!NoPod, OldProofs!NoPod, Old!Api, OldProofs!Api,
         Old!Write, OldProofs!Write
<1>2. Old!ExtractIP => OldProofs!ExtractIP
  BY DEF Old!ExtractIP, OldProofs!ExtractIP, Old!ReturnRequeue, OldProofs!ReturnRequeue,
         Old!Idle, OldProofs!Idle, Old!NoPod, OldProofs!NoPod, Old!ClaimIP, OldProofs!ClaimIP
<1>3. Old!Put => OldProofs!Put
  BY DEF Old!Put, OldProofs!Put, Old!Continue, OldProofs!Continue,
         Old!ReturnRequeue, OldProofs!ReturnRequeue, Old!Fault, OldProofs!Fault,
         Old!Idle, OldProofs!Idle, Old!NoPod, OldProofs!NoPod
<1>4. Old!Delete => OldProofs!Delete
  BY DEF Old!Delete, OldProofs!Delete, Old!Continue, OldProofs!Continue,
         Old!ReturnRequeue, OldProofs!ReturnRequeue, Old!Fault, OldProofs!Fault,
         Old!Idle, OldProofs!Idle, Old!NoPod, OldProofs!NoPod
<1>5. Old!RemoveFinalizer => OldProofs!RemoveFinalizer
  BY DEF Old!RemoveFinalizer, OldProofs!RemoveFinalizer, Old!Continue, OldProofs!Continue,
         Old!ReturnRequeue, OldProofs!ReturnRequeue, Old!Fault, OldProofs!Fault,
         Old!Idle, OldProofs!Idle, Old!NoPod, OldProofs!NoPod, Old!Api, OldProofs!Api,
         Old!Write, OldProofs!Write, Old!Stored, OldProofs!Stored
<1>6. Old!CallFails => OldProofs!CallFails
  BY DEF Old!CallFails, OldProofs!CallFails, Old!ReturnRequeue, OldProofs!ReturnRequeue,
         Old!Fault, OldProofs!Fault, Old!Idle, OldProofs!Idle, Old!NoPod, OldProofs!NoPod,
         Old!Api, OldProofs!Api
<1> QED
  BY <1>1, <1>2, <1>3, <1>4, <1>5, <1>6, ZenonT(60) DEF Old!WorkerStep, OldProofs!WorkerStep

\* The sets that types are made of are the same there.
LEMMA OldSets ==
  /\ OldProofs!Snapshot = Snapshot /\ OldProofs!PodState = PodState
  /\ OldProofs!Claims = Claims /\ OldProofs!Worker = Worker
  /\ OldProofs!NoPod = NoPod /\ OldProofs!Idle = Idle
  BY DEF OldProofs!Snapshot, Snapshot, OldProofs!PodState, PodState, OldProofs!NoPod, NoPod,
         OldProofs!Claims, Claims, OldProofs!Worker, Worker, OldProofs!Steps, Steps,
         OldProofs!Idle, Idle

\* A step of the leftover worker keeps the types and is a call as the worker's are.
LEMMA OldCalls ==
  ASSUME DriftTypeOK, OldStep
  PROVE  DriftTypeOK' /\ old.pc # "idle" /\ Call(old, old') /\ UNCHANGED <<uids, wipes>>
<1> USE ConstantsAssumption
<1>1. OldProofs!TypeOK
  BY OldSets DEF OldProofs!TypeOK, DriftTypeOK, TypeOK
<1>2. OldProofs!WorkerStep
  BY OldSteps DEF OldStep
<1>3. DriftTypeOK'
  <2>1. OldProofs!TypeOK'
    BY <1>1, <1>2, OldProofs!WorkerStepType
  <2>2. UNCHANGED <<queue, w>>
    BY DEF OldStep
  <2>3. TypeOK
    BY DEF DriftTypeOK
  <2>4. TypeOK'
    BY <2>1, <2>2, <2>3, OldSets, ZenonT(60) DEF OldProofs!TypeOK, TypeOK
  <2>5. old' \in Worker /\ (old'.pc # "idle" => old'.pod \in Pods /\ old'.obj \in PodState)
    BY <2>1, OldSets DEF OldProofs!TypeOK
  <2> QED
    BY <2>4, <2>5 DEF DriftTypeOK
<1>4. old.pc # "idle" /\ OldProofs!Call(old, old') /\ UNCHANGED <<uids, wipes>>
  BY <1>1, <1>2, OldProofs!WorkerCalls
<1>5. \A p, t : (OldProofs!Write(p, t) <=> Write(p, t)) /\ OldProofs!Api(p) = Api(p)
  BY ZenonT(60) DEF OldProofs!Write, Write, OldProofs!Api, Api
<1>6. Call(old, old')
  BY <1>4, <1>5, OldSets DEF OldProofs!Call, Call
<1> QED
  BY <1>3, <1>4, <1>6, ZenonT(60)

\* A step of the leftover worker preserves the invariant.
LEMMA OldStepInv ==
  ASSUME DriftInv, OldStep
  PROVE  DriftInv'
<1>1. DriftTypeOK
  BY DEF DriftInv
<1>2. DriftTypeOK' /\ old.pc # "idle" /\ Call(old, old') /\ uids' = uids
  BY <1>1, OldCalls
<1>3. /\ w' = w /\ excused \subseteq excused'
      /\ old.pc = "put" => <<old.obj.fqdn, old.pod>> \in excused'
  BY DEF OldStep
<1> QED
  BY <1>2, <1>3, LeftoverCallInv

-----------------------------------------------------------------------------
(* The theorems *)

\* A step, or none, preserves the invariant.
LEMMA DriftInvStep ==
  ASSUME DriftInv, [DriftNext]_driftVars
  PROVE  DriftInv'
<1>1. CASE UNCHANGED driftVars
  <2>1. UNCHANGED <<hist, uids, w, rec, old, excused>>
    BY <1>1 DEF driftVars, vars
  <2>2. DriftTypeOK'
    BY <1>1 DEF driftVars, vars, DriftInv, DriftTypeOK, TypeOK
  <2>3. Fades /\ UidsInv' /\ OrderInv'
    BY <2>1, UnchangedFades, HistUnchanged DEF DriftInv, HistInv
  <2> QED
    BY <2>1, <2>2, <2>3, QuietInv
<1>2. CASE DriftNext
  BY <1>2, NextInv, AbandonInv, OldStepInv, EditInv DEF DriftNext
<1> QED
  BY <1>1, <1>2

\* The invariant holds from the start on, with edits and leftover workers.
THEOREM DriftInvariance == DriftSpec => []DriftInv
<1>1. DriftInit => DriftInv
  BY DriftInvInit
<1>2. DriftInv /\ [DriftNext]_driftVars => DriftInv'
  BY DriftInvStep
<1> QED
  BY <1>1, <1>2, PTL DEF DriftSpec

\* Only an edit of a Pod's FQDN or the Put of a worker that was given up leaves a
\* record behind, for any number of Pods, edits, re-creations and faults.
THEOREM OrphansHaveCauses == DriftSpec => []OrphanHasCause
<1>1. DriftInv => OrphanHasCause
  BY DEF DriftInv
<1> QED
  BY <1>1, DriftInvariance, PTL

\* A live Pod loses its record only with the whole store or to the Delete of a
\* worker that was given up.
THEOREM DeregistrationsHaveCauses == DriftSpec => DeregistrationHasCause
<1> DEFINE Cause ==
      \A f \in FQDNs, p \in Pods :
        /\ Api(p).fin /\ ~Api(p).dt /\ Api(p).fqdn = f
        /\ rec[<<f, p>>] # None
        /\ rec'[<<f, p>>] = None
        => wipes' # wipes \/ (old.pc = "delete" /\ old' # old)
<1>1. DriftInv /\ [DriftNext]_driftVars => [Cause]_driftVars
  <2> SUFFICES ASSUME DriftInv, DriftNext, NEW f \in FQDNs, NEW p \in Pods,
                      Api(p).fin, ~Api(p).dt, Api(p).fqdn = f,
                      rec[<<f, p>>] # None, rec'[<<f, p>>] = None
               PROVE  wipes' # wipes \/ (old.pc = "delete" /\ old' # old)
    OBVIOUS
  <2>1. DriftTypeOK /\ WorkersInv
    BY DEF DriftInv, BothInv
  <2>2. TypeOK
    BY <2>1 DEF DriftTypeOK
  <2>3. CASE WorkerStep
    BY <2>2, <2>3, WorkerCalls, CallKeepsRecord
  <2>4. CASE Next /\ ~WorkerStep
    <3>1. wipes \in Nat
      BY <2>2, ConstantsAssumption DEF TypeOK
    <3> QED
      BY <2>4, <3>1, RecordSteps, ZenonT(60)
  <2>5. CASE OldStep
    <3>1. old.pc # "idle" /\ Call(old, old')
      BY <2>1, <2>5, OldCalls
    <3> QED
      BY <2>1, <3>1, LeftoverTakesRecord
  <2>6. CASE Abandon
    BY <2>6 DEF Abandon, Restart
  <2>7. ASSUME NEW q \in Pods, NEW t \in Edits, EditPod(q, t)
        PROVE  rec' = rec
    BY <2>7 DEF EditPod
  <2> QED
    BY <2>3, <2>4, <2>5, <2>6, <2>7, ZenonT(60) DEF DriftNext
<1> QED
  BY <1>1, DriftInvariance, PTL DEF DriftSpec, DeregistrationHasCause

=============================================================================
