------------------------------ MODULE NumaNetwork ------------------------------
(***************************************************************************)
(* NumaNetworkReconciler for one NumaNetwork name: the finalizer, the      *)
(* ResourceClaimTemplate (RCT) that it owns, and the claims made from it.  *)
(*                                                                         *)
(* As in VertexDomain, nn and rct are the states that the informer has not *)
(* consumed yet, the cached one first and the API server's last.           *)
(***************************************************************************)
EXTENDS Naturals, Sequences

CONSTANTS
  Classes,          \* device classes (spec.refDeviceClass)
  Ranges,           \* address ranges (spec.refResourceClaimDranet.ipRange)
  Claims,           \* ResourceClaims, by uid
  SpecImmutable,    \* does the API server refuse a change of a template's spec?
  None,
  MaxIncarnations,  \* bound: NumaNetworks created under the name
  MaxEdits,         \* bound: edits of the NumaNetwork and of the RCT by users
  MaxFaults         \* bound: failed calls and restarts

ASSUME NumaNetworkAssumption ==
  /\ None \notin Classes \cup Ranges
  /\ SpecImmutable \in BOOLEAN
  /\ MaxIncarnations \in Nat /\ MaxEdits \in Nat /\ MaxFaults \in Nat

VARIABLES
  nn,          \* states of the NumaNetwork, cache first, API server last
  rct,         \* states of the RCT, likewise
  uids,        \* NumaNetworks created so far
  revs,        \* RCT states written so far, the source of resourceVersions
  claims,      \* [Claims -> {"unborn", "live", "gone"}] in the API server
  claimCache,  \* the claims that the informer cache holds
  queued,      \* is the NumaNetwork in the workqueue?
  w,           \* the reconcile worker
  edits,
  faults

nnVars == <<nn, rct, uids, revs, claims, claimCache, queued, w, edits, faults>>

-----------------------------------------------------------------------------
(* Objects *)

NoNetwork == [uid |-> 0, gen |-> 0, class |-> None, range |-> None, dt |-> FALSE, fin |-> FALSE]

\* gen counts the edits of the spec, so a state identifies its resourceVersion.
Network == [uid: 1..MaxIncarnations, gen: Nat, class: Classes, range: Ranges,
            dt: BOOLEAN, fin: BOOLEAN]

NoTemplate == [rev |-> 0, owner |-> 0, class |-> None, label |-> FALSE]

\* The owner of a template that some other object controls.
Other == MaxIncarnations + 1

\* What reconcileRCT compares: the controlling owner reference (0: none), the
\* device class of the spec and the metadata label.
Template == [rev: Nat \ {0}, owner: 0..Other, class: Classes, label: BOOLEAN]

Last(s) == s[Len(s)]

ApiNetwork == Last(nn)

ApiTemplate == Last(rct)

WriteNetwork(s) == nn' = Append(nn, IF s.dt /\ ~s.fin THEN NoNetwork ELSE s)

WriteTemplate(t) == /\ revs' = revs + 1
                    /\ rct' = Append(rct, [t EXCEPT !.rev = revs + 1])

\* BuildResourceClaimTemplate and SetControllerReference.
Desired(s) == [rev |-> 0, owner |-> s.uid, class |-> s.class, label |-> TRUE]

Idle == [pc |-> "idle", obj |-> NoNetwork, tmpl |-> NoTemplate]

Steps == {"idle", "addFinalizer", "getRCT", "createRCT", "getAgain", "updateRCT",
          "countClaims", "removeFinalizer"}

Fault == /\ faults < MaxFaults
         /\ faults' = faults + 1

Requeue == w' = Idle /\ queued' = TRUE

\* A call took effect: the worker goes on with next, or the reply is lost.
Continue(next) == \/ w' = next /\ UNCHANGED <<queued, faults>>
                  \/ Fault /\ Requeue

-----------------------------------------------------------------------------
(* The reconciler *)

\* Mutant: the NotFound error of the Get goes unnoticed.
FirstStepUnchecked(s) ==
  IF s.dt THEN IF s.fin THEN "countClaims" ELSE "idle"
  ELSE IF s.fin THEN "getRCT" ELSE "addFinalizer"

\* Mutant: the finalizer is not awaited before the RCT is made.
FirstStepNoFinalizer(s) ==
  IF s.uid = 0 THEN "idle"
  ELSE IF s.dt THEN IF s.fin THEN "countClaims" ELSE "idle"
  ELSE "getRCT"

\* What Reconcile does first with the NumaNetwork it read.
FirstStep(s) ==
  IF s.uid = 0 THEN "idle"
  ELSE IF s.dt THEN IF s.fin THEN "countClaims" ELSE "idle"
  ELSE IF s.fin THEN "getRCT" ELSE "addFinalizer"

\* The worker takes the name from the queue and reads the cached NumaNetwork.
Dequeue ==
  /\ w.pc = "idle"
  /\ queued
  /\ queued' = FALSE
  /\ w' = IF FirstStep(nn[1]) = "idle" THEN Idle
          ELSE [Idle EXCEPT !.pc = FirstStep(nn[1]), !.obj = nn[1]]
  /\ UNCHANGED <<nn, rct, uids, revs, claims, claimCache, edits, faults>>

AddFinalizer ==
  LET s == [w.obj EXCEPT !.fin = TRUE]
  IN  /\ w.pc = "addFinalizer"
      /\ ApiNetwork = w.obj
      /\ WriteNetwork(s)
      /\ Continue([w EXCEPT !.pc = "getRCT", !.obj = s])
      /\ UNCHANGED <<rct, uids, revs, claims, claimCache, edits>>

\* Mutant: the template is taken over from whoever controls it.
ComparePlain(t) == /\ w' = IF [t EXCEPT !.rev = 0] = Desired(w.obj) THEN Idle
                           ELSE [w EXCEPT !.pc = "updateRCT", !.tmpl = t]
                   /\ queued' = queued

\* reconcileRCT has read an RCT: SetControllerReference refuses one that another
\* object controls; one that is not as desired is updated.
Compare(t) ==
  \/ t.owner = Other /\ Requeue
  \/ /\ t.owner # Other
     /\ w' = IF [t EXCEPT !.rev = 0] = Desired(w.obj) THEN Idle
             ELSE [w EXCEPT !.pc = "updateRCT", !.tmpl = t]
     /\ queued' = queued

\* reconcileRCT reads the cached RCT.
GetRCT ==
  /\ w.pc = "getRCT"
  /\ \/ rct[1] = NoTemplate /\ w' = [w EXCEPT !.pc = "createRCT"] /\ queued' = queued
     \/ rct[1] # NoTemplate /\ Compare(rct[1])
  /\ UNCHANGED <<nn, rct, uids, revs, claims, claimCache, edits, faults>>

CreateRCT ==
  /\ w.pc = "createRCT"
  /\ ApiTemplate = NoTemplate
  /\ WriteTemplate(Desired(w.obj))
  /\ Continue(Idle)
  /\ UNCHANGED <<nn, uids, claims, claimCache, edits>>

\* Create returns AlreadyExists.
CreateRefused ==
  /\ w.pc = "createRCT"
  /\ ApiTemplate # NoTemplate
  /\ w' = [w EXCEPT !.pc = "getAgain"]
  /\ UNCHANGED <<nn, rct, uids, revs, claims, claimCache, queued, edits, faults>>

\* The RCT is read again, from the same cache: it may still be missing.
GetAgain ==
  /\ w.pc = "getAgain"
  /\ \/ rct[1] = NoTemplate /\ Requeue
     \/ rct[1] # NoTemplate /\ Compare(rct[1])
  /\ UNCHANGED <<nn, rct, uids, revs, claims, claimCache, edits, faults>>

\* The API server accepts an Update of the RCT that read t.
Accepts(t) == /\ ApiTemplate = t
              /\ SpecImmutable => t.class = w.obj.class

UpdateRCT ==
  /\ w.pc = "updateRCT"
  /\ Accepts(w.tmpl)
  /\ WriteTemplate(Desired(w.obj))
  /\ Continue(Idle)
  /\ UNCHANGED <<nn, uids, claims, claimCache, edits>>

\* Mutant: no requeue while claims remain.
CountClaimsOnce ==
  /\ w.pc = "countClaims"
  /\ w' = IF claimCache # {} THEN Idle ELSE [w EXCEPT !.pc = "removeFinalizer"]
  /\ UNCHANGED <<nn, rct, uids, revs, claims, claimCache, queued, edits, faults>>

\* countRelatedResourceClaims lists the cached claims.
CountClaims ==
  /\ w.pc = "countClaims"
  /\ \/ claimCache # {} /\ Requeue
     \/ /\ claimCache = {}
        /\ w' = [w EXCEPT !.pc = "removeFinalizer"]
        /\ queued' = queued
  /\ UNCHANGED <<nn, rct, uids, revs, claims, claimCache, edits, faults>>

RemoveFinalizer ==
  /\ w.pc = "removeFinalizer"
  /\ ApiNetwork = w.obj
  /\ WriteNetwork([w.obj EXCEPT !.fin = FALSE])
  /\ Continue(Idle)
  /\ UNCHANGED <<rct, uids, revs, claims, claimCache, edits>>

\* A call returns an error without effect: a conflict, a refused Update, or a
\* failure by itself.  Reconcile returns the error.
CallFails ==
  /\ w.pc # "idle"
  /\ \/ /\ w.pc \in {"addFinalizer", "removeFinalizer"}
        /\ ApiNetwork # w.obj
        /\ faults' = faults
     \/ /\ w.pc = "updateRCT"
        /\ ~Accepts(w.tmpl)
        /\ faults' = faults
     \/ Fault
  /\ Requeue
  /\ UNCHANGED <<nn, rct, uids, revs, claims, claimCache, edits>>

WorkerStep ==
  \/ AddFinalizer \/ GetRCT \/ CreateRCT \/ CreateRefused \/ GetAgain \/ UpdateRCT
  \/ CountClaims \/ RemoveFinalizer \/ CallFails

-----------------------------------------------------------------------------
(* The informers and the manager process *)

\* The next watch event of the NumaNetwork.
DeliverNetwork ==
  /\ Len(nn) > 1
  /\ nn' = Tail(nn)
  /\ queued' = TRUE
  /\ UNCHANGED <<rct, uids, revs, claims, claimCache, w, edits, faults>>

\* Mutant: the RCT is not watched.
DeliverTemplateUnwatched ==
  /\ Len(rct) > 1
  /\ rct' = Tail(rct)
  /\ UNCHANGED <<nn, uids, revs, claims, claimCache, queued, w, edits, faults>>

\* The NumaNetwork, now or before, controls the template.
Owned(t) == t.owner \in 1..MaxIncarnations

\* The next watch event of the RCT; it counts for the NumaNetwork that the old or
\* the new state names as its owner.
DeliverTemplate ==
  /\ Len(rct) > 1
  /\ rct' = Tail(rct)
  /\ queued' = (queued \/ Owned(rct[1]) \/ Owned(rct[2]))
  /\ UNCHANGED <<nn, uids, revs, claims, claimCache, w, edits, faults>>

\* A claim event reaches the cache; claims are not watched.
DeliverClaim(c) ==
  /\ (c \in claimCache) # (claims[c] = "live")
  /\ claimCache' = IF claims[c] = "live" THEN claimCache \cup {c} ELSE claimCache \ {c}
  /\ UNCHANGED <<nn, rct, uids, revs, claims, queued, w, edits, faults>>

\* The manager dies at any point and starts again.
Restart ==
  /\ Fault
  /\ nn' = <<ApiNetwork>>
  /\ rct' = <<ApiTemplate>>
  /\ claimCache' = {c \in Claims : claims[c] = "live"}
  /\ queued' = (ApiNetwork.uid # 0 \/ Owned(ApiTemplate))
  /\ w' = Idle
  /\ UNCHANGED <<uids, revs, claims, edits>>

-----------------------------------------------------------------------------
(* Users, the garbage collector and the claim controller *)

CreateNetwork(class, range) ==
  /\ ApiNetwork.uid = 0
  /\ uids < MaxIncarnations
  /\ uids' = uids + 1
  /\ WriteNetwork([NoNetwork EXCEPT !.uid = uids + 1, !.class = class, !.range = range])
  /\ UNCHANGED <<rct, revs, claims, claimCache, queued, w, edits, faults>>

Edit == /\ edits < MaxEdits
        /\ edits' = edits + 1

EditNetwork(class, range) ==
  /\ ApiNetwork.uid # 0
  /\ <<class, range>> # <<ApiNetwork.class, ApiNetwork.range>>
  /\ Edit
  /\ WriteNetwork([ApiNetwork EXCEPT !.gen = @ + 1, !.class = class, !.range = range])
  /\ UNCHANGED <<rct, uids, revs, claims, claimCache, queued, w, faults>>

DeleteNetwork ==
  /\ ApiNetwork.uid # 0
  /\ ~ApiNetwork.dt
  /\ WriteNetwork([ApiNetwork EXCEPT !.dt = TRUE])
  /\ UNCHANGED <<rct, uids, revs, claims, claimCache, queued, w, edits, faults>>

\* Another writer creates the RCT under the name, with a spec of the same form:
\* a restored backup, or an object of some other controller.
PlantTemplate(class, owner) ==
  /\ ApiTemplate = NoTemplate
  /\ Edit
  /\ WriteTemplate([rev |-> 0, owner |-> owner, class |-> class, label |-> TRUE])
  /\ UNCHANGED <<nn, uids, claims, claimCache, queued, w, faults>>

\* A user takes the owner reference or the label off the RCT.
StripTemplate ==
  /\ ApiTemplate # NoTemplate
  /\ Edit
  /\ \/ ApiTemplate.owner # 0 /\ WriteTemplate([ApiTemplate EXCEPT !.owner = 0])
     \/ ApiTemplate.label /\ WriteTemplate([ApiTemplate EXCEPT !.label = FALSE])
  /\ UNCHANGED <<nn, uids, claims, claimCache, queued, w, faults>>

\* A user deletes the RCT.
DeleteTemplate ==
  /\ ApiTemplate # NoTemplate
  /\ Edit
  /\ rct' = Append(rct, NoTemplate)
  /\ UNCHANGED <<nn, uids, revs, claims, claimCache, queued, w, faults>>

\* The garbage collector deletes an RCT whose owner is gone.
CollectTemplate ==
  /\ Owned(ApiTemplate)
  /\ ApiTemplate.owner # ApiNetwork.uid
  /\ rct' = Append(rct, NoTemplate)
  /\ UNCHANGED <<nn, uids, revs, claims, claimCache, queued, w, edits, faults>>

\* The claim controller makes a claim from the RCT, with the label of its spec.
CreateClaim(c) ==
  /\ claims[c] = "unborn"
  /\ ApiTemplate # NoTemplate
  /\ claims' = [claims EXCEPT ![c] = "live"]
  /\ UNCHANGED <<nn, rct, uids, revs, claimCache, queued, w, edits, faults>>

\* The Pod is gone and so is its claim.
DeleteClaim(c) ==
  /\ claims[c] = "live"
  /\ claims' = [claims EXCEPT ![c] = "gone"]
  /\ UNCHANGED <<nn, rct, uids, revs, claimCache, queued, w, edits, faults>>

-----------------------------------------------------------------------------
Init ==
  /\ nn = <<NoNetwork>>
  /\ rct = <<NoTemplate>>
  /\ uids = 0
  /\ revs = 0
  /\ claims = [c \in Claims |-> "unborn"]
  /\ claimCache = {}
  /\ queued = FALSE
  /\ w = Idle
  /\ edits = 0
  /\ faults = 0

\* Every step but the end of a claim, which the address allocation refines.
ControlStep ==
  \/ Dequeue
  \/ WorkerStep
  \/ DeliverNetwork
  \/ DeliverTemplate
  \/ \E c \in Claims : DeliverClaim(c)
  \/ Restart
  \/ \E class \in Classes, range \in Ranges :
       CreateNetwork(class, range) \/ EditNetwork(class, range)
  \/ DeleteNetwork
  \/ \E class \in Classes, owner \in {0, Other} : PlantTemplate(class, owner)
  \/ StripTemplate
  \/ DeleteTemplate
  \/ CollectTemplate
  \/ \E c \in Claims : CreateClaim(c)

Next == ControlStep \/ \E c \in Claims : DeleteClaim(c)

Spec == Init /\ [][Next]_nnVars

\* The worker and the queue run, watches deliver and garbage is collected.
Fairness ==
  /\ WF_nnVars(WorkerStep)
  /\ WF_nnVars(Dequeue)
  /\ WF_nnVars(DeliverNetwork)
  /\ WF_nnVars(DeliverTemplate)
  /\ \A c \in Claims : WF_nnVars(DeliverClaim(c))
  /\ WF_nnVars(CollectTemplate)

FairSpec == Spec /\ Fairness

-----------------------------------------------------------------------------
(* Properties *)

\* Type invariant.
NetworkTypeOK ==
  /\ nn \in Seq(Network \cup {NoNetwork}) /\ Len(nn) > 0
  /\ rct \in Seq(Template \cup {NoTemplate}) /\ Len(rct) > 0
  /\ uids \in 0..MaxIncarnations
  /\ revs \in Nat
  /\ claims \in [Claims -> {"unborn", "live", "gone"}]
  /\ claimCache \subseteq Claims
  /\ queued \in BOOLEAN
  /\ w \in [pc: Steps, obj: Network \cup {NoNetwork}, tmpl: Template \cup {NoTemplate}]
  /\ w.pc # "idle" => w.obj \in Network
  /\ w.pc = "updateRCT" => w.tmpl \in Template
  /\ edits \in 0..MaxEdits
  /\ faults \in 0..MaxFaults

\* A template is made for, or handed to, a NumaNetwork only while the API server
\* holds that very NumaNetwork with its finalizer: however stale the caches are,
\* reconcileRCT never serves one that is gone or not yet held back.
TemplateForHeldNetwork ==
  [][Owned(ApiTemplate)' /\ ApiTemplate'.owner # ApiTemplate.owner =>
       ApiNetwork.uid = ApiTemplate'.owner /\ ApiNetwork.fin]_nnVars

\* reconcileRCT never takes a template away from another object that controls it,
\* however stale the template it compared with was.
ForeignTemplateKept ==
  [][ApiTemplate.owner = Other => ApiTemplate'.owner \in {0, Other}]_nnVars

\* The template is what reconcileRCT wants it to be.
AsDesired == [ApiTemplate EXCEPT !.rev = 0] = Desired(ApiNetwork)

\* A NumaNetwork that stays, and that no other object's template stands in the way
\* of, has its template in the end, as desired: whatever users do to either, edits
\* of the device class included, and although a predecessor's template or one that
\* another writer made may be there.
EventuallyTemplated ==
  <>[](ApiNetwork.uid # 0 /\ ~ApiNetwork.dt /\ ApiTemplate.owner # Other) => <>[]AsDesired

\* What is left of EventuallyTemplated where the API server refuses changes of a
\* template's spec: a NumaNetwork that asks for the device class of the template
\* that exists, or finds none, gets its template with its owner and label back.
EventuallyRestored ==
  <>[](/\ ApiNetwork.uid # 0 /\ ~ApiNetwork.dt /\ ApiTemplate.owner # Other
       /\ ApiTemplate.class \in {None, ApiNetwork.class}) => <>[]AsDesired

\* Deletion is not blocked for good: once its claims stay away a NumaNetwork
\* that is being deleted disappears, although claim events are not watched.
EventuallyRemoved ==
  <>[](\A c \in Claims : claims[c] # "live") => (ApiNetwork.dt ~> ~ApiNetwork.dt)

=============================================================================
