----------------------------- MODULE VertexDomain -----------------------------
(***************************************************************************)
(* The vertexDomain manager: VertexDomainReconciler, which keeps one DNS   *)
(* record per labelled Pod in the CoreDNS etcd backend, together with what *)
(* it runs against: the API server's Pods, the informer cache it reads     *)
(* through, the ResourceClaims it takes the secondary-NIC address from,    *)
(* and the etcd store.                                                     *)
(*                                                                         *)
(* The reconciler acts on snapshots.  hist[p] is the list of states of Pod *)
(* name p that the informer has not consumed yet: its head is what the     *)
(* cache holds and its last element is what the API server holds.  A write *)
(* appends, a watch event drops the head.  Between two states of one Pod   *)
(* (one uid) something always advances and never goes back, so a snapshot  *)
(* also serves as its resourceVersion: an Update is accepted exactly when  *)
(* the worker's snapshot is the last one.                                  *)
(***************************************************************************)
EXTENDS Naturals, Sequences

CONSTANTS
  Pods,            \* Pod names of one namespace, as in the record's key
  FQDNs,           \* values of the FQDN annotation
  Malformed,       \* the FQDNs that FQDNToEtcdKey refuses (fewer than 2 labels)
  Templates,       \* the label and annotation with which Pods are created
  IPs,             \* secondary-NIC addresses
  NumClaims,       \* entries of a Pod's status.resourceClaimStatuses
  None,            \* no address / no annotation / no Pod
  MaxIncarnations, \* bound: Pods created under one name
  MaxFaults,       \* bound: failed calls, restarts and rewritten addresses
  MaxWipes         \* bound: losses of the whole etcd content

ASSUME ConstantsAssumption ==
  /\ Malformed \subseteq FQDNs
  /\ Templates \subseteq [label: BOOLEAN, fqdn: FQDNs \cup {None}]
  /\ None \notin Pods \cup FQDNs \cup IPs
  /\ NumClaims \in Nat
  /\ MaxIncarnations \in Nat
  /\ MaxFaults \in Nat
  /\ MaxWipes \in Nat

VARIABLES
  hist,        \* [Pods -> nonempty sequence of snapshots], cache first, API server last
  uids,        \* [Pods -> Nat], Pods created so far under each name
  claims,      \* [Claims -> address or None], what the API server holds
  claimCache,  \* [Claims -> address or None], what the informer cache holds
  queue,       \* the controller's workqueue, a set of Pod names
  w,           \* the single reconcile worker
  rec,         \* [FQDNs \X Pods -> address or None], the etcd keys <fqdn-key>/<pod>
  published,   \* history: addresses published for the newest Pod of each name
  faults,      \* faults used so far
  wipes        \* wipes used so far

vars == <<hist, uids, claims, claimCache, queue, w, rec, published, faults, wipes>>

-----------------------------------------------------------------------------
(* Pods, claims and the worker's state *)

\* The generated claim names: one per Pod (name and uid) and entry of its status.
Claims == Pods \X (1..MaxIncarnations) \X (1..NumClaims)

\* No Pod of that name exists.
NoPod == [uid |-> 0, label |-> FALSE, fqdn |-> None, dt |-> FALSE,
          over |-> FALSE, fin |-> FALSE, bound |-> {}]

\* What the reconciler reads of a Pod.  over says that the grace period has
\* ended, bound is the set of status entries whose ResourceClaimName is not nil.
PodState == [uid: 1..MaxIncarnations, label: BOOLEAN, fqdn: FQDNs \cup {None},
             dt: BOOLEAN, over: BOOLEAN, fin: BOOLEAN, bound: SUBSET (1..NumClaims)]

Snapshot == PodState \cup {NoPod}

Cached(p) == hist[p][1]

Api(p) == hist[p][Len(hist[p])]

\* The API server stores s as the new state of p.
Write(p, s) == hist' = [hist EXCEPT ![p] = Append(@, s)]

\* The API server drops an object that is being deleted once no finalizer and
\* no grace period hold it.
Stored(s) == IF s.dt /\ s.over /\ ~s.fin THEN NoPod ELSE s

Steps == {"idle", "addFinalizer", "extractIP", "put", "delete", "removeFinalizer"}

Worker == [pc: Steps, pod: Pods \cup {None}, obj: Snapshot, idx: Nat,
           ip: IPs \cup {None}]

Idle == [pc |-> "idle", pod |-> None, obj |-> NoPod, idx |-> 1, ip |-> None]

Fault == /\ faults < MaxFaults
         /\ faults' = faults + 1

\* Mutant: the error is logged and swallowed.
ReturnSwallowed == /\ w' = Idle
                   /\ queue' = queue

\* Reconcile returned an error or a RequeueAfter: the Pod name comes back later.
ReturnRequeue == /\ w' = Idle
                 /\ queue' = queue \cup {w.pod}

\* How one call of the worker ends: it returns nil and the worker goes on with
\* next, or it took effect and the reply was lost.
Continue(next) == \/ /\ w' = next
                     /\ queue' = queue
                     /\ faults' = faults
                  \/ /\ Fault
                     /\ ReturnRequeue

-----------------------------------------------------------------------------
(* The reconciler *)

Init ==
  /\ hist = [p \in Pods |-> <<NoPod>>]
  /\ uids = [p \in Pods |-> 0]
  /\ claims = [c \in Claims |-> None]
  /\ claimCache = claims
  /\ queue = {}
  /\ w = Idle
  /\ rec = [k \in FQDNs \X Pods |-> None]
  /\ published = [p \in Pods |-> {}]
  /\ faults = 0
  /\ wipes = 0

\* Mutant: the NotFound error of the Get and a missing annotation go unnoticed.
FirstStepUnchecked(s) ==
  IF s.dt THEN IF s.fin THEN "delete" ELSE "idle"
  ELSE IF s.fin THEN "extractIP" ELSE "addFinalizer"

\* Mutant: the record is written without a finalizer on the Pod.
FirstStepNoFinalizer(s) ==
  IF ~s.label \/ s.fqdn = None THEN "idle"
  ELSE IF s.dt THEN "delete" ELSE "extractIP"

\* Mutant: a Pod with the finalizer is taken to be registered already.
FirstStepOnce(s) ==
  IF ~s.label \/ s.fqdn = None THEN "idle"
  ELSE IF s.dt THEN IF s.fin THEN "delete" ELSE "idle"
  ELSE IF s.fin THEN "idle" ELSE "addFinalizer"

\* Mutant: a Pod without the label is deregistered, deleted or not.
FirstStepUnlabelled(s) ==
  IF s.fqdn = None \/ (~s.label /\ ~s.fin) THEN "idle"
  ELSE IF s.dt \/ ~s.label THEN IF s.fin THEN "delete" ELSE "idle"
  ELSE IF s.fin THEN "extractIP" ELSE "addFinalizer"

\* What Reconcile does first with the Pod it read.
FirstStep(s) ==
  IF ~s.label \/ s.fqdn = None THEN "idle"
  ELSE IF s.dt THEN IF s.fin THEN "delete" ELSE "idle"
  ELSE IF s.fin THEN "extractIP" ELSE "addFinalizer"

\* The worker takes p from the queue and reads the Pod from the cache.
Dequeue(p) ==
  /\ w.pc = "idle"
  /\ p \in queue
  /\ queue' = queue \ {p}
  /\ w' = IF FirstStep(Cached(p)) = "idle"
          THEN Idle
          ELSE [Idle EXCEPT !.pc = FirstStep(Cached(p)), !.pod = p, !.obj = Cached(p)]
  /\ UNCHANGED <<hist, uids, claims, claimCache, rec, published, faults, wipes>>

\* The Update that adds the finalizer is accepted; its reply is the new object.
AddFinalizer ==
  LET s == [w.obj EXCEPT !.fin = TRUE]
  IN  /\ w.pc = "addFinalizer"
      /\ Api(w.pod) = w.obj
      /\ Write(w.pod, s)
      /\ Continue([w EXCEPT !.pc = "extractIP", !.obj = s])
      /\ UNCHANGED <<uids, claims, claimCache, rec, published, wipes>>

\* Mutant: the claim is looked up by the Pod's name, not by the generated name.
ClaimIPByName(s, p, i) == IF i \in s.bound THEN claimCache[<<p, 1, i>>] ELSE None

\* The address that one cached claim yields: None when the status entry names
\* no claim, the claim is not in the cache, or it holds no address that parses.
ClaimIP(s, p, i) == IF i \in s.bound THEN claimCache[<<p, s.uid, i>>] ELSE None

\* Mutant: no requeue when no claim has an address yet.
ExtractIPOnce ==
  /\ w.pc = "extractIP"
  /\ LET ip == IF w.idx > NumClaims THEN None ELSE ClaimIP(w.obj, w.pod, w.idx)
     IN  w' = IF w.idx > NumClaims THEN Idle
              ELSE IF ip = None THEN [w EXCEPT !.idx = @ + 1]
              ELSE [w EXCEPT !.pc = "put", !.ip = ip]
  /\ queue' = queue
  /\ UNCHANGED <<hist, uids, claims, claimCache, rec, published, faults, wipes>>

\* extractSecondaryNICIP looks at the next claim.  The first address ends the
\* loop; running out of claims makes Reconcile requeue after requeueDelay.
ExtractIP ==
  /\ w.pc = "extractIP"
  /\ \/ /\ w.idx > NumClaims
        /\ ReturnRequeue
     \/ /\ w.idx <= NumClaims
        /\ LET ip == ClaimIP(w.obj, w.pod, w.idx)
           IN  w' = IF ip = None THEN [w EXCEPT !.idx = @ + 1]
                                 ELSE [w EXCEPT !.pc = "put", !.ip = ip]
        /\ queue' = queue
  /\ UNCHANGED <<hist, uids, claims, claimCache, rec, published, faults, wipes>>

\* Store.Put takes effect.
Put ==
  /\ w.pc = "put"
  /\ w.obj.fqdn \notin Malformed
  /\ rec' = [rec EXCEPT ![<<w.obj.fqdn, w.pod>>] = w.ip]
  /\ Continue(Idle)
  /\ UNCHANGED <<hist, uids, claims, claimCache, published, wipes>>

\* Mutant: the key is deleted as a prefix, with every Pod's record under the FQDN.
DeleteByPrefix ==
  /\ w.pc = "delete"
  /\ w.obj.fqdn \notin Malformed
  /\ rec' = [k \in FQDNs \X Pods |-> IF k[1] = w.obj.fqdn THEN None ELSE rec[k]]
  /\ Continue([w EXCEPT !.pc = "removeFinalizer"])
  /\ UNCHANGED <<hist, uids, claims, claimCache, published, wipes>>

\* Store.Delete takes effect.
Delete ==
  /\ w.pc = "delete"
  /\ w.obj.fqdn \notin Malformed
  /\ rec' = [rec EXCEPT ![<<w.obj.fqdn, w.pod>>] = None]
  /\ Continue([w EXCEPT !.pc = "removeFinalizer"])
  /\ UNCHANGED <<hist, uids, claims, claimCache, published, wipes>>

\* The Update that removes the finalizer is accepted.
RemoveFinalizer ==
  /\ w.pc = "removeFinalizer"
  /\ Api(w.pod) = w.obj
  /\ Write(w.pod, Stored([w.obj EXCEPT !.fin = FALSE]))
  /\ Continue(Idle)
  /\ UNCHANGED <<uids, claims, claimCache, rec, published, wipes>>

\* Mutant: an error of Store.Delete does not keep the finalizer in place.
CallFailsIgnored ==
  /\ w.pc # "idle"
  /\ Fault
  /\ IF w.pc = "delete"
     THEN w' = [w EXCEPT !.pc = "removeFinalizer"] /\ queue' = queue
     ELSE ReturnRequeue
  /\ UNCHANGED <<hist, uids, claims, claimCache, rec, published, wipes>>

\* A call of the worker returns an error without having taken effect: an Update
\* of a Pod that has changed or is gone, a store call whose FQDN has no etcd
\* key, or any call that fails by itself.
CallFails ==
  /\ w.pc # "idle"
  /\ \/ /\ w.pc \in {"addFinalizer", "removeFinalizer"}
        /\ Api(w.pod) # w.obj
        /\ faults' = faults
     \/ /\ w.pc \in {"put", "delete"}
        /\ w.obj.fqdn \in Malformed
        /\ faults' = faults
     \/ Fault
  /\ ReturnRequeue
  /\ UNCHANGED <<hist, uids, claims, claimCache, rec, published, wipes>>

WorkerStep ==
  AddFinalizer \/ ExtractIP \/ Put \/ Delete \/ RemoveFinalizer \/ CallFails

-----------------------------------------------------------------------------
(* The informers and the manager process *)

\* The cached state of p is replaced by s; the label predicate looks at the new
\* object, or at the last one known when the Pod is gone.
Notify(p, s) ==
  queue' = IF (IF s.uid = 0 THEN Cached(p) ELSE s).label THEN queue \cup {p} ELSE queue

\* The next watch event of p reaches the cache.
Deliver(p) ==
  /\ Len(hist[p]) > 1
  /\ hist' = [hist EXCEPT ![p] = Tail(@)]
  /\ Notify(p, hist[p][2])
  /\ UNCHANGED <<uids, claims, claimCache, w, rec, published, faults, wipes>>

\* A broken watch is re-established with a list: the states in between are skipped.
Relist(p) ==
  /\ Len(hist[p]) > 2
  /\ hist' = [hist EXCEPT ![p] = <<Api(p)>>]
  /\ Notify(p, Api(p))
  /\ UNCHANGED <<uids, claims, claimCache, w, rec, published, faults, wipes>>

\* The informer's periodic resync, or an event that changes nothing the
\* reconciler reads (a container became ready).
Resync(p) ==
  /\ Cached(p).label
  /\ p \notin queue
  /\ queue' = queue \cup {p}
  /\ UNCHANGED <<hist, uids, claims, claimCache, w, rec, published, faults, wipes>>

\* A claim event reaches the cache.  Nothing is enqueued: claims are not watched.
DeliverClaim(c) ==
  /\ claimCache[c] # claims[c]
  /\ claimCache' = [claimCache EXCEPT ![c] = claims[c]]
  /\ UNCHANGED <<hist, uids, claims, queue, w, rec, published, faults, wipes>>

\* The manager dies at any point and starts again: caches are filled by a list,
\* and every labelled Pod is enqueued.
Restart ==
  /\ Fault
  /\ hist' = [p \in Pods |-> <<Api(p)>>]
  /\ claimCache' = claims
  /\ queue' = {p \in Pods : Api(p).label}
  /\ w' = Idle
  /\ UNCHANGED <<uids, claims, rec, published, wipes>>

-----------------------------------------------------------------------------
(* The rest of the cluster *)

\* A Pod is created under a free name, with or without the label and annotation
\* that the Pod webhook adds; they do not change afterwards.
CreatePod(p, t) ==
  /\ Api(p).uid = 0
  /\ uids[p] < MaxIncarnations
  /\ uids' = [uids EXCEPT ![p] = @ + 1]
  /\ Write(p, [NoPod EXCEPT !.uid = uids[p] + 1, !.label = t.label, !.fqdn = t.fqdn])
  /\ published' = [published EXCEPT ![p] = {}]
  /\ UNCHANGED <<claims, claimCache, queue, w, rec, faults, wipes>>

\* The claim controller creates claim i of the Pod and records its name.
BindClaim(p, i) ==
  /\ Api(p).uid # 0
  /\ ~Api(p).dt
  /\ i \notin Api(p).bound
  /\ Write(p, [Api(p) EXCEPT !.bound = @ \cup {i}])
  /\ UNCHANGED <<uids, claims, claimCache, queue, w, rec, published, faults, wipes>>

\* The DRA driver writes an address into the claim's device status; writing
\* another one later counts as a fault.
PublishIP(p, i, ip) ==
  LET c == <<p, Api(p).uid, i>>
  IN  /\ i \in Api(p).bound
      /\ claims[c] # ip
      /\ claims' = [claims EXCEPT ![c] = ip]
      /\ published' = [published EXCEPT ![p] = @ \cup {ip}]
      /\ IF claims[c] = None THEN faults' = faults ELSE Fault
      /\ UNCHANGED <<hist, uids, claimCache, queue, w, rec, wipes>>

\* The Pod is deleted, with a grace period or (over) without one.
DeletePod(p, over) ==
  /\ Api(p).uid # 0
  /\ ~Api(p).dt
  /\ Write(p, Stored([Api(p) EXCEPT !.dt = TRUE, !.over = over]))
  /\ UNCHANGED <<uids, claims, claimCache, queue, w, rec, published, faults, wipes>>

\* The kubelet has stopped the containers of a Pod that is being deleted.
KubeletDone(p) ==
  /\ Api(p).dt
  /\ ~Api(p).over
  /\ Write(p, Stored([Api(p) EXCEPT !.over = TRUE]))
  /\ UNCHANGED <<uids, claims, claimCache, queue, w, rec, published, faults, wipes>>

\* The etcd Pod restarts: its data directory is an emptyDir.
WipeStore ==
  /\ wipes < MaxWipes
  /\ wipes' = wipes + 1
  /\ rec' = [k \in FQDNs \X Pods |-> None]
  /\ UNCHANGED <<hist, uids, claims, claimCache, queue, w, published, faults>>

-----------------------------------------------------------------------------
Next ==
  \/ \E p \in Pods : Dequeue(p)
  \/ WorkerStep
  \/ \E p \in Pods : Deliver(p) \/ Relist(p) \/ Resync(p)
  \/ \E c \in Claims : DeliverClaim(c)
  \/ Restart
  \/ \E p \in Pods, t \in Templates : CreatePod(p, t)
  \/ \E p \in Pods, i \in 1..NumClaims : BindClaim(p, i)
  \/ \E p \in Pods, i \in 1..NumClaims, ip \in IPs : PublishIP(p, i, ip)
  \/ \E p \in Pods, over \in BOOLEAN : DeletePod(p, over)
  \/ \E p \in Pods : KubeletDone(p)
  \/ WipeStore

Spec == Init /\ [][Next]_vars

\* The worker runs, its queue is first-in first-out (a Pod that is queued again
\* and again is taken again and again), watches deliver and kubelets finish.
Fairness ==
  /\ WF_vars(WorkerStep)
  /\ \A p \in Pods : /\ SF_vars(Dequeue(p))
                     /\ WF_vars(Deliver(p))
                     /\ WF_vars(KubeletDone(p))
  /\ \A c \in Claims : WF_vars(DeliverClaim(c))

FairSpec == Spec /\ Fairness

-----------------------------------------------------------------------------
(* Properties *)

\* Type invariant.
TypeOK ==
  /\ hist \in [Pods -> Seq(Snapshot)]
  /\ \A p \in Pods : Len(hist[p]) > 0
  /\ uids \in [Pods -> 0..MaxIncarnations]
  /\ claims \in [Claims -> IPs \cup {None}]
  /\ claimCache \in [Claims -> IPs \cup {None}]
  /\ queue \subseteq Pods
  /\ w \in Worker
  /\ w.pc # "idle" => w.pod \in Pods /\ w.obj \in PodState
  /\ rec \in [FQDNs \X Pods -> IPs \cup {None}]
  /\ published \in [Pods -> SUBSET IPs]
  /\ faults \in 0..MaxFaults
  /\ wipes \in 0..MaxWipes

\* A DNS record exists only while the API server still holds the Pod it was
\* made for, under that FQDN and held back by the finalizer: no interleaving of
\* stale reads, lost replies, restarts and re-created Pods leaves an orphan.
NoOrphanRecord ==
  \A f \in FQDNs, p \in Pods :
    rec[<<f, p>>] # None => Api(p).fin /\ Api(p).fqdn = f

\* A record never carries an address of an earlier Pod of the same name: what
\* Put writes was published in a claim of the Pod that exists now.
RecordIsOwn ==
  \A f \in FQDNs, p \in Pods :
    rec[<<f, p>>] # None => rec[<<f, p>>] \in published[p]

\* A step that takes a record away is the loss of the store or concerns a Pod
\* that the API server is deleting: neither another Pod's deletion nor a stale
\* work item of an earlier Pod of that name deregisters a live Pod.
NoPrematureDeregistration ==
  [][\A f \in FQDNs, p \in Pods :
       rec[<<f, p>>] # None /\ rec'[<<f, p>>] = None => Api(p).dt \/ wipes' # wipes]_vars

\* The FQDN that the finalizer holds for each Pod name, and whether the Pod that
\* carries it is being deleted.
Holds == [p \in Pods |-> IF Api(p).fin THEN Api(p).fqdn ELSE None]

Leaving == [p \in Pods |-> Api(p).fin /\ Api(p).dt]

\* The DNS zone as its users see it.
Registry == INSTANCE DnsRegistry WITH holds <- Holds, leaving <- Leaving

\* The reconciler, with its caches, retries and restarts, implements the zone.
ImplementsRegistry == Registry!Spec

\* Pod p can be registered: live, labelled, with a usable FQDN and an address.
Registrable(p) ==
  /\ Api(p).label /\ Api(p).fqdn \in FQDNs \ Malformed /\ ~Api(p).dt
  /\ \E i \in Api(p).bound : claims[<<p, Api(p).uid, i>>] # None

\* The address that extractSecondaryNICIP finds when every cache is current.
CurrentIP(p) ==
  LET found == {i \in Api(p).bound : claims[<<p, Api(p).uid, i>>] # None}
  IN  claims[<<p, Api(p).uid, CHOOSE i \in found : \A j \in found : i <= j>>]

\* A Pod that can be registered gets a record although claim events are not
\* watched, because Reconcile polls until it sees an address.
EventuallyRegistered ==
  \A p \in Pods :
    Registrable(p) ~> (Registrable(p) => rec[<<Api(p).fqdn, p>>] # None)

\* The finalizer never blocks a deletion for good: a Pod with a usable FQDN that
\* is being deleted disappears.
EventuallyDeleted ==
  \A p \in Pods :
    Api(p).dt /\ Api(p).fqdn \notin Malformed ~> ~Api(p).dt

\* If the informer does resync, as it does at its default period, the record of a
\* Pod that stays registrable ends up holding the first address of its claims,
\* whatever was lost or rewritten.
EventuallyCurrent ==
  \A p \in Pods :
    WF_vars(Resync(p)) /\ <>[]Registrable(p) =>
      <>[](Registrable(p) => rec[<<Api(p).fqdn, p>>] = CurrentIP(p))

=============================================================================
